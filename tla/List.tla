-------------------------------- MODULE List --------------------------------
(***************************************************************************)
(* List (list.h, list.cpp): singly linked lists of pointers to objects.    *)
(* Every list has a head and a tail entry of its own; the elements between *)
(* them come from one pool of cells, a MemBlocks that all lists share and  *)
(* that lives as long as any list does (ListBlockInitializer).  The pool   *)
(* threads its free list through the first word of a free cell, which is   *)
(* the element's next: an element that was deleted points into the free    *)
(* list and its cell is the first one to be used again.                    *)
(***************************************************************************)
EXTENDS Integers, FiniteSets, SequencesExt

CONSTANTS
  Lists,        \* names of lists, numbers from 0
  MaxElements,  \* bound: the cells the heap has room for
  Objects       \* the objects there may be, numbers from 1

ASSUME ListAssumption ==
  /\ Lists \subseteq Nat
  /\ MaxElements \in Nat
  /\ Objects \subseteq Nat \ {0} /\ IsFiniteSet(Objects)

NullObject == 0                             \* the null pointer, as data
Null == 0                                   \* the null pointer, as next

VARIABLES
  key,          \* what operator == of the objects compares
  exists,       \* the lists that have been constructed
  next, data,   \* the fields of the entries
  freeList,     \* the first free cell of the pool
  cut,          \* the number of cells cut from the pool's blocks
  size          \* itemsInContainer of the lists

listVars == <<key, exists, next, data, freeList, cut, size>>

Elements == 1 .. MaxElements
head(l) == -(2 * l + 1)
tail(l) == -(2 * l + 2)
Entries == Elements \cup {head(l) : l \in Lists} \cup {tail(l) : l \in Lists}

NoLists ==
  /\ exists = {}
  /\ next = [e \in Entries |-> Null]
  /\ data = [e \in Entries |-> NullObject]
  /\ freeList = Null
  /\ cut = 0
  /\ size = [l \in Lists |-> 0]

(* The elements from e on, up to a sentinel or a null pointer. *)
ElementsFrom(e) ==
  LET from[x \in Entries \cup {Null}] ==
        IF x \in Elements THEN <<x>> \o from[next[x]] ELSE << >>
  IN  from[e]

(* The elements of list l in order. *)
Chain(l) == ElementsFrom(next[head(l)])

(* The objects of list l in the order its iterator meets them. *)
ObjectsOf(l) == [i \in DOMAIN Chain(l) |-> data[Chain(l)[i]]]

Same(o, p) == key[o] = key[p]

(* findPred with its sentinel: the entry before the first element equal to o,
   or before the tail. *)
findPred(l, o) ==
  LET chain == <<head(l)>> \o Chain(l)
      found(i) == i = Len(chain) \/ Same(data[chain[i + 1]], o)
  IN  chain[CHOOSE i \in DOMAIN chain :
              found(i) /\ \A j \in 1 .. i - 1 : ~found(j)]

(* Collection::findMember on a list. *)
FirstEqual(l, o) ==
  LET e == next[findPred(l, o)] IN IF e = tail(l) THEN NullObject ELSE data[e]

-----------------------------------------------------------------------------
(* The cell of a new element: MemBlocks::allocate. *)
NewElement == IF freeList # Null THEN freeList ELSE cut + 1

(* Room for another element. *)
HasRoom == NewElement \in Elements

(* add, in a list that is constructed first if need be.  The fields of the new
   element are written after its cell has left the free list. *)
Add(l, o) ==
  LET e == NewElement
      first == IF l \in exists THEN next[head(l)] ELSE tail(l)
  IN  /\ exists' = exists \cup {l}
      /\ freeList' = IF freeList = Null THEN Null ELSE next[freeList]
      /\ cut' = IF freeList = Null THEN cut + 1 ELSE cut
      /\ next' = [next EXCEPT ![e] = first, ![head(l)] = e, ![tail(l)] = tail(l)]
      /\ data' = [data EXCEPT ![e] = o]
      /\ size' = [size EXCEPT ![l] = @ + 1]
      /\ UNCHANGED key

(* Mutant: the element after the removed one is lost with it. *)
DetachTwo(l, o) ==
  LET pred == findPred(l, o)
      item == next[pred]
  IN  /\ IF item = tail(l)
         THEN UNCHANGED <<next, freeList, size>>
         ELSE /\ next' = [next EXCEPT ![pred] = next[next[item]], ![item] = freeList]
              /\ freeList' = item
              /\ size' = [size EXCEPT ![l] = @ - 1]
      /\ UNCHANGED <<key, exists, data, cut>>

(* detach.  With no equal object the tail takes the place of the element, and
   its next is itself.  A removed element keeps its data. *)
Detach(l, o) ==
  LET pred == findPred(l, o)
      item == next[pred]
  IN  /\ IF item = tail(l)
         THEN UNCHANGED <<next, freeList, size>>
         ELSE /\ next' = [next EXCEPT ![pred] = next[item], ![item] = freeList]
              /\ freeList' = item
              /\ size' = [size EXCEPT ![l] = @ - 1]
      /\ UNCHANGED <<key, exists, data, cut>>

(* The destructors of all lists: the last one deletes the pool. *)
DestroyAll ==
  /\ exists' = {}
  /\ next' = [e \in Entries |-> Null]
  /\ data' = [e \in Entries |-> NullObject]
  /\ freeList' = Null
  /\ cut' = 0
  /\ size' = [l \in Lists |-> 0]
  /\ UNCHANGED key

-----------------------------------------------------------------------------
(* The free cells, from the head of the free list. *)
FreeCells == ElementsFrom(freeList)

(* Every cell cut from the pool is in just one place: an element of one list,
   or one link of the free list.  Each list ends in its own tail and its count
   is the number of its elements (add, detach, ~List). *)
PoolSound ==
  /\ \A l \in exists :
       LET chain == Chain(l)
           end == IF chain = << >> THEN head(l) ELSE Last(chain)
       IN  size[l] = Len(chain) /\ next[end] = tail(l) /\ next[tail(l)] = tail(l)
  /\ IsInjective(FreeCells)
  /\ \A l \in exists :
       /\ IsInjective(Chain(l))
       /\ ToSet(Chain(l)) \cap ToSet(FreeCells) = {}
       /\ \A m \in exists \ {l} : ToSet(Chain(l)) \cap ToSet(Chain(m)) = {}
  /\ ToSet(FreeCells) \cup UNION {ToSet(Chain(l)) : l \in exists} = 1 .. cut
=============================================================================
