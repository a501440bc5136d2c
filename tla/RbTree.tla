------------------------------- MODULE RbTree -------------------------------
(***************************************************************************)
(* The red-black tree behind Open Watcom's set and map (_rbtree.h), down   *)
(* to its links.  A node is named by the key it was constructed with: it   *)
(* never gets another, not even when erase moves it to the place of its    *)
(* successor, so that iterators to it stay good.  Null is the null pointer *)
(* and the node of end().  A search is one step; the loops that change the *)
(* tree take one step for each turn, and no other operation starts         *)
(* meanwhile.                                                              *)
(***************************************************************************)
EXTENDS Integers, Sequences, FiniteSetsExt

CONSTANTS Keys,      \* the keys there may be
          CopyNodes  \* bound: the largest tree that is copied

ASSUME KeysAssumption == Keys \subseteq Nat \ {0}

Null == 0

VARIABLES
  nodes,                       \* the nodes that are allocated
  left, right, parent, red,    \* their fields; red is the bit in parent
  root, first, last, size,     \* mRoot, mFirst, mLast, mSize
  pc,                          \* the loop that is running, or "idle"
  n,                           \* the node the loop is at
  lefty,                       \* double black: which child of n it is
  copied,                      \* the nodes that the copy under way has
  copyFirst, copyLast          \* its mFirst and mLast

linkVars == <<left, right, parent, root>>
treeVars == <<nodes, linkVars, red, first, last, size>>
copyVars == <<copied, copyFirst, copyLast>>
rbVars == <<treeVars, pc, n, lefty, copyVars>>

RbInit ==
  /\ nodes = {}
  /\ left = << >> /\ right = << >> /\ parent = << >> /\ red = << >>
  /\ root = Null /\ first = Null /\ last = Null
  /\ size = 0
  /\ pc = "idle" /\ n = Null /\ lefty = FALSE
  /\ copied = {} /\ copyFirst = Null /\ copyLast = Null

(* The loop goes on at x, or the operation returns. *)
GoTo(loop, x) == pc' = loop /\ n' = x /\ lefty' = FALSE
Return == GoTo("idle", Null)

-----------------------------------------------------------------------------
(* Iterators: operator ++ and -- (end() has none after it, mLast before). *)
leftmost[x \in nodes] == IF left[x] = Null THEN x ELSE leftmost[left[x]]
rightmost[x \in nodes] == IF right[x] = Null THEN x ELSE rightmost[right[x]]

upFromRight[x \in nodes] ==
  IF parent[x] # Null /\ x = right[parent[x]] THEN upFromRight[parent[x]] ELSE parent[x]
upFromLeft[x \in nodes] ==
  IF parent[x] # Null /\ x = left[parent[x]] THEN upFromLeft[parent[x]] ELSE parent[x]

(* Mutant: the first node down to the left, not the last one below it. *)
walk_leftShallow(x) == IF left[x] # Null THEN left[x] ELSE upFromLeft[x]

walk_right(x) == IF right[x] # Null THEN leftmost[right[x]] ELSE upFromRight[x]
walk_left(x) == IF left[x] # Null THEN rightmost[left[x]] ELSE upFromLeft[x]

decrement(x) == IF x = Null THEN last ELSE walk_left(x)

(* lower_bound and upper_bound. *)
lower_bound(k) ==
  LET from[x \in nodes \cup {Null}] ==
        IF x = Null THEN Null
        ELSE IF x < k THEN from[right[x]]
        ELSE IF from[left[x]] = Null THEN x ELSE from[left[x]]
  IN  from[root]

upper_bound(k) ==
  LET from[x \in nodes \cup {Null}] ==
        IF x = Null THEN Null
        ELSE IF k < x THEN (IF from[left[x]] = Null THEN x ELSE from[left[x]])
        ELSE from[right[x]]
  IN  from[root]

(* find: the last node on the way down that is not greater, if it is not less. *)
notLT(k) ==
  LET from[x \in nodes \cup {Null}] ==
        IF x = Null THEN Null
        ELSE IF k < x THEN from[left[x]]
        ELSE IF from[right[x]] = Null THEN x ELSE from[right[x]]
  IN  from[root]

find(k) == IF notLT(k) < k THEN Null ELSE notLT(k)

(* The last node on the way down. *)
under(k) ==
  LET from[x \in nodes] ==
        LET child == IF k < x THEN left[x] ELSE right[x]
        IN  IF child = Null THEN x ELSE from[child]
  IN  from[root]

-----------------------------------------------------------------------------
(* A red node for key k below node p. *)
Attach(k, p, toLeft) ==
  /\ nodes' = nodes \cup {k}
  /\ size' = size + 1
  /\ left' = [x \in nodes' |-> IF x = k THEN Null ELSE IF x = p /\ toLeft THEN k ELSE left[x]]
  /\ right' = [x \in nodes' |-> IF x = k THEN Null ELSE IF x = p /\ ~toLeft THEN k ELSE right[x]]
  /\ parent' = [x \in nodes' |-> IF x = k THEN p ELSE parent[x]]
  /\ red' = [x \in nodes' |-> x = k \/ red[x]]
  /\ first' = IF toLeft /\ p = first THEN k ELSE first
  /\ last' = IF ~toLeft /\ p = last THEN k ELSE last
  /\ root' = root
  /\ GoTo("balance", k)

(* The first node of a tree. *)
InsertRoot(k) ==
  /\ nodes' = {k}
  /\ left' = [x \in {k} |-> Null]
  /\ right' = [x \in {k} |-> Null]
  /\ parent' = [x \in {k} |-> Null]
  /\ red' = [x \in {k} |-> FALSE]
  /\ root' = k /\ first' = k /\ last' = k
  /\ size' = size + 1
  /\ Return

(* A key that is there already stays as it is; a new one goes below the last
   node of the search. *)
unbalanced_insert(k) ==
  IF root = Null THEN InsertRoot(k)
  ELSE IF find(k) # Null THEN UNCHANGED <<treeVars, pc, n, lefty>>
  ELSE Attach(k, under(k), k < under(k))

(* Mutant: a key equal to the one before the hint is taken for a greater one. *)
GoodHintLoose(h, k) ==
  /\ size # 0
  /\ h = Null \/ k < h
  /\ h = first \/ decrement(h) <= k

(* insert( hint, v ): k belongs just before the hint... *)
GoodHint(h, k) ==
  /\ size # 0
  /\ h = Null \/ k < h
  /\ h = first \/ decrement(h) < k

(* ... and then below the hint or the node before it. *)
hinted_insert(h, k) ==
  IF GoodHint(h, k)
  THEN IF h # Null /\ left[h] = Null
       THEN Attach(k, h, TRUE)
       ELSE Attach(k, decrement(h), FALSE)
  ELSE unbalanced_insert(k)

Insert(k) == /\ pc = "idle"
             /\ unbalanced_insert(k)
             /\ UNCHANGED copyVars

InsertHint(h, k) == /\ pc = "idle"
                    /\ hinted_insert(h, k)
                    /\ UNCHANGED copyVars

-----------------------------------------------------------------------------
(* y takes the place of top, with x and z for its children; b becomes the
   right child of x and c the left one of z. *)
Restructure(top, x, y, z, b, c) ==
  /\ root' = IF top = root THEN y ELSE root
  /\ left' = [k \in nodes |->
       IF k = y THEN x ELSE IF k = z THEN c
       ELSE IF k = parent[top] /\ left[k] = top THEN y ELSE left[k]]
  /\ right' = [k \in nodes |->
       IF k = y THEN z ELSE IF k = x THEN b
       ELSE IF k = parent[top] /\ left[k] # top THEN y ELSE right[k]]
  /\ parent' = [k \in nodes |->
       IF k = y THEN parent[top] ELSE IF k \in {x, z} THEN y
       ELSE IF k = b THEN x ELSE IF k = c THEN z ELSE parent[k]]

(* Terminating case of insert_balance_transform. *)
Settled ==
  LET p == parent[n]
  IN  IF p = Null THEN TRUE ELSE IF parent[p] = Null THEN TRUE ELSE ~red[p]

BalanceDone ==
  /\ pc = "balance"
  /\ Settled
  /\ Return
  /\ UNCHANGED <<treeVars, copyVars>>

uncle ==
  LET g == parent[parent[n]]
  IN  IF parent[n] = left[g] THEN right[g] ELSE left[g]

IsRed(x) == x # Null /\ red[x]

(* Main case a: the grandparent's blackness goes to parent and uncle, and the
   root, should that be the grandparent, is black again. *)
BalanceRedUncle ==
  /\ pc = "balance"
  /\ ~Settled
  /\ IsRed(uncle)
  /\ red' = [red EXCEPT ![parent[parent[n]]] = TRUE, ![parent[n]] = FALSE,
                        ![uncle] = FALSE, ![root] = FALSE]
  /\ n' = parent[parent[n]]
  /\ UNCHANGED <<nodes, linkVars, first, last, size, pc, lefty, copyVars>>

(* Main case b, cases 1 to 4. *)
BalanceBlackUncle ==
  LET p == parent[n]
      g == parent[p]
      Finish(x, y, z, b, c) ==
        /\ Restructure(g, x, y, z, b, c)
        /\ red' = [red EXCEPT ![y] = FALSE, ![x] = TRUE, ![z] = TRUE]
  IN  /\ pc = "balance"
      /\ ~Settled
      /\ ~IsRed(uncle)
      /\ \/ n = left[p] /\ p = left[g] /\ Finish(n, p, g, right[n], right[p])
         \/ n = right[p] /\ p = left[g] /\ Finish(p, n, g, left[n], right[n])
         \/ n = right[p] /\ p = right[g] /\ Finish(g, p, n, left[p], left[n])
         \/ n = left[p] /\ p = right[g] /\ Finish(g, n, p, left[n], right[n])
      /\ Return
      /\ UNCHANGED <<nodes, first, last, size, copyVars>>

-----------------------------------------------------------------------------
(* What erase( iterator ) does to mFirst, mLast and mSize. *)
Forget(d) ==
  /\ nodes' = nodes \ {d}
  /\ size' = size - 1
  /\ first' = IF d # first THEN first ELSE IF d = last THEN Null ELSE walk_right(d)
  /\ last' = IF d # last THEN last ELSE IF d = first THEN Null ELSE walk_left(d)

(* A node without a left or a right child is unlinked from p. *)
ChildOf(d) == IF left[d] # Null THEN left[d] ELSE right[d]

UnlinkEnd(d) ==
  LET p == parent[d]
      child == IF p # Null /\ red[d] THEN Null ELSE ChildOf(d)
      toLeft == p # Null /\ d = left[p]
  IN  /\ left' = [k \in nodes' |-> IF k = p /\ toLeft THEN child ELSE left[k]]
      /\ right' = [k \in nodes' |-> IF k = p /\ ~toLeft THEN child ELSE right[k]]
      /\ parent' = [k \in nodes' |-> IF k = child THEN p ELSE parent[k]]
      /\ red' = [k \in nodes' |-> k # child /\ red[k]]
      /\ root' = IF p = Null THEN child ELSE root
      /\ IF p # Null /\ ~red[d] /\ child = Null
         THEN pc' = "doubleBlack" /\ n' = p /\ lefty' = toLeft
         ELSE Return

(* Mutant: when the predecessor is the left child of the erased node, the
   double black is put to the right of it. *)
UnlinkInnerRight(d) ==
  LET pred == rightmost[left[d]]
      p == IF pred = left[d] THEN pred ELSE parent[pred]
      child == IF red[pred] THEN Null ELSE left[pred]
  IN  /\ left' = [k \in nodes' |->
           IF k = p /\ k = pred THEN child
           ELSE IF k = pred THEN left[d]
           ELSE IF k = parent[d] /\ left[k] = d THEN pred ELSE left[k]]
      /\ right' = [k \in nodes' |->
           IF k = pred THEN right[d] ELSE IF k = p THEN child
           ELSE IF k = parent[d] /\ left[k] # d THEN pred ELSE right[k]]
      /\ parent' = [k \in nodes' |->
           IF k = pred THEN parent[d] ELSE IF k = child THEN p
           ELSE IF k \in {left[d], right[d]} THEN pred ELSE parent[k]]
      /\ red' = [k \in nodes' |-> IF k = pred THEN red[d] ELSE k # child /\ red[k]]
      /\ root' = IF d = root THEN pred ELSE root
      /\ IF ~red[pred] /\ child = Null
         THEN pc' = "doubleBlack" /\ n' = p /\ lefty' = FALSE
         ELSE Return

(* A node with two children: its predecessor leaves its own place to its left
   child, if any, and takes the place and the colour of the erased node. *)
UnlinkInner(d) ==
  LET pred == rightmost[left[d]]
      p == IF pred = left[d] THEN pred ELSE parent[pred]
      child == IF red[pred] THEN Null ELSE left[pred]
  IN  /\ left' = [k \in nodes' |->
           IF k = p /\ k = pred THEN child
           ELSE IF k = pred THEN left[d]
           ELSE IF k = parent[d] /\ left[k] = d THEN pred ELSE left[k]]
      /\ right' = [k \in nodes' |->
           IF k = pred THEN right[d] ELSE IF k = p THEN child
           ELSE IF k = parent[d] /\ left[k] # d THEN pred ELSE right[k]]
      /\ parent' = [k \in nodes' |->
           IF k = pred THEN parent[d] ELSE IF k = child THEN p
           ELSE IF k \in {left[d], right[d]} THEN pred ELSE parent[k]]
      /\ red' = [k \in nodes' |-> IF k = pred THEN red[d] ELSE k # child /\ red[k]]
      /\ root' = IF d = root THEN pred ELSE root
      /\ IF ~red[pred] /\ child = Null
         THEN pc' = "doubleBlack" /\ n' = p /\ lefty' = (pred = left[d])
         ELSE Return

Unlink(d) ==
  /\ Forget(d)
  /\ IF left[d] # Null /\ right[d] # Null THEN UnlinkInner(d) ELSE UnlinkEnd(d)

(* erase( iterator ). *)
Erase(d) == /\ pc = "idle"
            /\ Unlink(d)
            /\ UNCHANGED copyVars

(* erase( key ): nothing is done when find does not find it. *)
EraseKey(k) == /\ pc = "idle"
               /\ IF find(k) = Null THEN UNCHANGED <<treeVars, pc, n, lefty>>
                  ELSE Unlink(find(k))
               /\ UNCHANGED copyVars

-----------------------------------------------------------------------------
(* double_black_transform: a subtree of n lacks a black node. *)
sibling == IF lefty THEN right[n] ELSE left[n]
InnerNephew == IF lefty THEN left[sibling] ELSE right[sibling]

(* Main case 1, a to d: a red nephew. *)
DoubleBlackNephew ==
  LET s == sibling
      l == left[s]
      r == right[s]
      Finish(x, y, z, b, c) ==
        /\ Restructure(n, x, y, z, b, c)
        /\ red' = [red EXCEPT ![y] = red[n], ![x] = FALSE, ![z] = FALSE]
  IN  /\ pc = "doubleBlack"
      /\ ~red[s]
      /\ \/ IsRed(r) /\ lefty /\ Finish(n, s, r, l, left[r])
         \/ IsRed(r) /\ ~lefty /\ Finish(s, r, n, left[r], right[r])
         \/ ~IsRed(r) /\ IsRed(l) /\ lefty /\ Finish(n, l, s, left[l], right[l])
         \/ ~IsRed(r) /\ IsRed(l) /\ ~lefty /\ Finish(l, s, n, right[l], r)
      /\ Return
      /\ UNCHANGED <<nodes, first, last, size, copyVars>>

BlackNephews == ~IsRed(left[sibling]) /\ ~IsRed(right[sibling])

(* Main case 2: black nephews and a red parent. *)
DoubleBlackRedParent ==
  /\ pc = "doubleBlack"
  /\ ~red[sibling] /\ BlackNephews
  /\ red[n]
  /\ red' = [red EXCEPT ![n] = FALSE, ![sibling] = TRUE]
  /\ Return
  /\ UNCHANGED <<nodes, linkVars, first, last, size, copyVars>>

(* Mutant: the double black goes up on the side it was on. *)
DoubleBlackUpStale ==
  /\ pc = "doubleBlack"
  /\ ~red[sibling] /\ BlackNephews
  /\ ~red[n]
  /\ red' = [red EXCEPT ![sibling] = TRUE]
  /\ IF n = root
     THEN Return
     ELSE n' = parent[n] /\ UNCHANGED <<lefty, pc>>
  /\ UNCHANGED <<nodes, linkVars, first, last, size, copyVars>>

(* Main case 3: black nephews and a black parent, which becomes double black. *)
DoubleBlackUp ==
  /\ pc = "doubleBlack"
  /\ ~red[sibling] /\ BlackNephews
  /\ ~red[n]
  /\ red' = [red EXCEPT ![sibling] = TRUE]
  /\ IF n = root
     THEN Return
     ELSE n' = parent[n] /\ lefty' = (n = left[parent[n]]) /\ UNCHANGED pc
  /\ UNCHANGED <<nodes, linkVars, first, last, size, copyVars>>

(* Main case 4: a red sibling takes the place of the parent. *)
DoubleBlackRedSibling ==
  LET s == sibling
      nephew == InnerNephew
      Side(side, toLeft) == [k \in nodes |->
        IF lefty = toLeft /\ k = s THEN n
        ELSE IF lefty # toLeft /\ k = n THEN nephew
        ELSE IF k = parent[n] /\ (left[k] = n) = toLeft THEN s ELSE side[k]]
  IN  /\ pc = "doubleBlack"
      /\ red[s]
      /\ root' = IF n = root THEN s ELSE root
      /\ red' = [red EXCEPT ![n] = TRUE, ![s] = FALSE]
      /\ left' = Side(left, TRUE)
      /\ right' = Side(right, FALSE)
      /\ parent' = [k \in nodes |-> IF k = s THEN parent[n] ELSE IF k = n THEN s
                                   ELSE IF k = nephew THEN n ELSE parent[k]]
      /\ UNCHANGED <<nodes, first, last, size, pc, n, lefty, copyVars>>

-----------------------------------------------------------------------------
(* clear(): down to a node without children, which is deleted, and up again. *)
ClearStart == IF root = Null THEN UNCHANGED <<pc, n, lefty>> ELSE GoTo("clear", root)

Clear == pc = "idle" /\ ClearStart /\ UNCHANGED <<treeVars, copyVars>>

ClearDown ==
  /\ pc = "clear"
  /\ left[n] # Null \/ right[n] # Null
  /\ GoTo("clear", IF left[n] # Null THEN left[n] ELSE right[n])
  /\ UNCHANGED <<treeVars, copyVars>>

ClearEnd ==
  /\ pc = "clear"
  /\ left[n] = Null /\ right[n] = Null
  /\ LET p == parent[n]
         toLeft == p # Null /\ n = left[p]
     IN  /\ nodes' = nodes \ {n}
         /\ left' = [k \in nodes' |-> IF k = p /\ toLeft THEN Null ELSE left[k]]
         /\ right' = [k \in nodes' |-> IF k = p /\ ~toLeft THEN Null ELSE right[k]]
         /\ parent' = Restrict(parent, nodes')
         /\ red' = Restrict(red, nodes')
         /\ IF p = Null
            THEN /\ root' = Null /\ first' = Null /\ last' = Null
                 /\ size' = 0
                 /\ Return
            ELSE /\ GoTo("clear", p)
                 /\ UNCHANGED <<root, first, last, size>>
  /\ UNCHANGED copyVars

-----------------------------------------------------------------------------
(* The copy constructor.  A node of the copy has the name of its original, and
   the left (right) child of its original's left (right) child once that is
   copied; n goes over the original while the copy follows. *)
Missing(child) == child # Null /\ child \notin copied

Copy == /\ pc = "idle"
        /\ root # Null
        /\ size <= CopyNodes
        /\ GoTo("copy", root)
        /\ copied' = {root}
        /\ copyFirst' = Null /\ copyLast' = Null
        /\ UNCHANGED treeVars

(* What a turn of the loop does first. *)
Passed == /\ copyFirst' = IF n = first THEN n ELSE copyFirst
          /\ copyLast' = IF n = last THEN n ELSE copyLast

CopyChild(child) == /\ Passed
                    /\ copied' = copied \cup {child}
                    /\ GoTo("copy", child)

(* Mutant: the right child is copied again on the way up. *)
CopyDownAgain ==
  /\ pc = "copy"
  /\ \/ Missing(left[n]) /\ CopyChild(left[n])
     \/ ~Missing(left[n]) /\ right[n] # Null /\ CopyChild(right[n])
  /\ UNCHANGED treeVars

CopyDown ==
  /\ pc = "copy"
  /\ \/ Missing(left[n]) /\ CopyChild(left[n])
     \/ ~Missing(left[n]) /\ Missing(right[n]) /\ CopyChild(right[n])
  /\ UNCHANGED treeVars

CopyUp ==
  /\ pc = "copy"
  /\ ~Missing(left[n]) /\ ~Missing(right[n])
  /\ Passed
  /\ IF parent[n] # Null THEN GoTo("copy", parent[n]) ELSE GoTo("copied", Null)
  /\ UNCHANGED <<treeVars, copied>>

(* The copy is handed to the caller: this model has no more to do with it. *)
CopyEnd == /\ pc = "copied"
           /\ Return
           /\ copied' = {} /\ copyFirst' = Null /\ copyLast' = Null
           /\ UNCHANGED treeVars

(* allocate or construct throws for a child: the half of a copy is cleared by
   the loop of clear(), which knows it by mRoot alone. *)
CopyFails ==
  /\ pc = "copy"
  /\ Missing(left[n]) \/ Missing(right[n])
  /\ GoTo("undo", root)
  /\ copyFirst' = Null /\ copyLast' = Null
  /\ UNCHANGED <<treeVars, copied>>

UndoDown ==
  /\ pc = "undo"
  /\ {left[n], right[n]} \cap copied # {}
  /\ GoTo("undo", IF left[n] \in copied THEN left[n] ELSE right[n])
  /\ UNCHANGED <<treeVars, copyVars>>

(* Mutant: the nodes above the first leaf are forgotten. *)
UndoEndShort ==
  /\ pc = "undo"
  /\ {left[n], right[n]} \cap copied = {}
  /\ copied' = copied \ {n}
  /\ Return
  /\ UNCHANGED <<treeVars, copyFirst, copyLast>>

UndoEnd ==
  /\ pc = "undo"
  /\ {left[n], right[n]} \cap copied = {}
  /\ copied' = copied \ {n}
  /\ IF parent[n] = Null THEN Return ELSE GoTo("undo", parent[n])
  /\ UNCHANGED <<treeVars, copyFirst, copyLast>>

-----------------------------------------------------------------------------
Step ==
  \/ BalanceDone \/ BalanceRedUncle \/ BalanceBlackUncle
  \/ DoubleBlackNephew \/ DoubleBlackRedParent \/ DoubleBlackUp \/ DoubleBlackRedSibling
  \/ ClearDown \/ ClearEnd
  \/ CopyDown \/ CopyUp \/ CopyEnd \/ CopyFails \/ UndoDown \/ UndoEnd

RbNext ==
  \/ \E k \in Keys : Insert(k) \/ EraseKey(k)
  \/ \E h \in nodes \cup {Null}, k \in Keys : InsertHint(h, k)
  \/ \E d \in nodes : Erase(d)
  \/ Clear \/ Copy
  \/ Step

RbSpec == RbInit /\ [][RbNext]_rbVars /\ WF_rbVars(Step)
-----------------------------------------------------------------------------
(* The nodes below x in order, if the links make a tree. *)
Inorder[x \in nodes \cup {Null}] ==
  IF x = Null THEN << >> ELSE Inorder[left[x]] \o <<x>> \o Inorder[right[x]]

(* The tree is a search tree of just the nodes that are allocated, and each
   node's parent pointer is right: whatever loop has got how far.  mSize, mFirst
   and mLast agree with it, so erase has counted once and walked right. *)
Sorted ==
  pc # "clear" =>
    /\ LET in == Inorder[root]
       IN  Range(in) = nodes /\ \A i \in 1 .. Len(in) - 1 : in[i] < in[i + 1]
    /\ size = Cardinality(nodes)
    /\ nodes # {} => first = Min(nodes) /\ last = Max(nodes) /\ parent[root] = Null
    /\ \A x \in nodes :
         /\ left[x] # Null => parent[left[x]] = x
         /\ right[x] # Null => parent[right[x]] = x

(* black_height: black nodes from x up to the root. *)
black_height[x \in nodes \cup {Null}] ==
  IF x = Null THEN 0 ELSE black_height[parent[x]] + IF red[x] THEN 0 ELSE 1

(* _Sane(): the tree's own test, by a walk from begin() to end(). *)
Sane ==
  IF root = Null THEN size = 0
  ELSE LET at[i \in 1 .. size] == IF i = 1 THEN first ELSE walk_right(at[i - 1])
           walk == {at[i] : i \in 1 .. size}
           leaves == {x \in walk : left[x] = Null \/ right[x] = Null}
       IN  /\ left[first] = Null
           /\ ~red[root]
           /\ \A i \in 1 .. size - 1 : at[i] # at[i + 1]
           /\ \A x \in walk :
                /\ ~(red[x] /\ IsRed(parent[x]))
                /\ IF parent[x] = Null THEN root = x
                   ELSE x \in {left[parent[x]], right[parent[x]]}
                /\ x \notin {left[x], right[x]}
           /\ \A x, y \in leaves : black_height[x] = black_height[y]
           /\ walk_right(at[size]) = Null
           /\ right[at[size]] = Null
           /\ first = Min(walk) /\ last = Max(walk)

(* Between operations the tree passes its own test; and while a deletion is
   being repaired the nodes the repair takes for granted are there ("a/b can't
   be null/leaves"): it does not follow a null pointer. *)
IsSane ==
  /\ pc = "idle" => Sane
  /\ pc = "doubleBlack" =>
       /\ sibling # Null
       /\ red[sibling] => left[sibling] # Null /\ right[sibling] # Null

(* Iterators and searches of a tree at rest, whatever made it: ++ and -- from
   any node lead to its neighbours, whenever the iterator was obtained. *)
NextAfter(S) == IF S = {} THEN Null ELSE Min(S)
NextBefore(S) == IF S = {} THEN Null ELSE Max(S)

Walks ==
  pc = "idle" =>
    /\ \A x \in nodes : /\ walk_right(x) = NextAfter({y \in nodes : y > x})
                        /\ walk_left(x) = NextBefore({y \in nodes : y < x})
    /\ \A k \in Keys : /\ lower_bound(k) = NextAfter({y \in nodes : y >= k})
                       /\ upper_bound(k) = NextAfter({y \in nodes : y > k})

(* A copy has each node of the original once its constructor returns, and knows
   its ends; one that failed has none left. *)
Copies ==
  /\ pc = "copied" => copied = nodes /\ copyFirst = first /\ copyLast = last
  /\ pc = "idle" => copied = {}

(* Every operation ends: no loop goes round for ever. *)
OperationsEnd == pc # "idle" ~> pc = "idle"
=============================================================================
