----------------------------- MODULE DoubleList -----------------------------
(***************************************************************************)
(* DoubleList (dbllist.h, dbllist.cpp): the elements have a prev as well,  *)
(* and a search may begin at either end.  Elements and the pool they come  *)
(* from are those of module List, which has a class of them for each kind  *)
(* of list but is used here with the elements of one list, of either kind. *)
(***************************************************************************)
EXTENDS List

CONSTANT list         \* its name

ASSUME DoubleListAssumption == Lists = {list}

VARIABLE prev

headEntry == head(list)
tailEntry == tail(list)

(* The list is constructed: its sentinels point at themselves beyond the ends. *)
Constructed ==
  /\ exists = {list}
  /\ next = [e \in Entries |-> IF e \in {headEntry, tailEntry} THEN tailEntry ELSE Null]
  /\ prev = [e \in Entries |-> IF e \in {headEntry, tailEntry} THEN headEntry ELSE Null]
  /\ data = [e \in Entries |-> NullObject]
  /\ freeList = Null
  /\ cut = 0
  /\ size = [l \in Lists |-> 0]

-----------------------------------------------------------------------------
(* A new element between two neighbours. *)
LinkBetween(p, n, o) ==
  LET e == NewElement
  IN  /\ freeList' = IF freeList = Null THEN Null ELSE next[freeList]
      /\ cut' = IF freeList = Null THEN cut + 1 ELSE cut
      /\ next' = [next EXCEPT ![e] = n, ![p] = e]
      /\ prev' = [prev EXCEPT ![e] = p, ![n] = e]
      /\ data' = [data EXCEPT ![e] = o]
      /\ size' = [size EXCEPT ![list] = @ + 1]
      /\ UNCHANGED <<key, exists>>

addAtHead(o) == LinkBetween(headEntry, next[headEntry], o)

addAtTail(o) == LinkBetween(prev[tailEntry], tailEntry, o)

-----------------------------------------------------------------------------
(* The first entry along the links from e that has an object equal to o, or end:
   that sentinel takes o for the search. *)
FirstFound(links, e, end, o) ==
  LET entry[i \in 0 .. cut + 1] == IF i = 0 THEN e ELSE links[entry[i - 1]]
      found(i) == entry[i] = end \/ Same(data[entry[i]], o)
  IN  entry[CHOOSE i \in 1 .. cut + 1 : found(i) /\ \A j \in 1 .. i - 1 : ~found(j)]

fromHead(o) == FirstFound(next, headEntry, tailEntry, o)
fromTail(o) == FirstFound(prev, tailEntry, headEntry, o)

(* Mutant: the element after the removed one keeps its prev. *)
UnlinkForwards(e) ==
  IF e \in {headEntry, tailEntry}
  THEN UNCHANGED <<listVars, prev>>
  ELSE /\ next' = [next EXCEPT ![prev[e]] = next[e], ![e] = freeList]
       /\ freeList' = e
       /\ size' = [size EXCEPT ![list] = @ - 1]
       /\ UNCHANGED <<key, exists, data, cut, prev>>

(* What detachFromHead and detachFromTail do to the element they found.  Its
   cell goes back to the pool, which links it by its next. *)
Unlink(e) ==
  IF e \in {headEntry, tailEntry}
  THEN UNCHANGED <<listVars, prev>>
  ELSE /\ next' = [next EXCEPT ![prev[e]] = next[e], ![e] = freeList]
       /\ prev' = [prev EXCEPT ![next[e]] = prev[e]]
       /\ freeList' = e
       /\ size' = [size EXCEPT ![list] = @ - 1]
       /\ UNCHANGED <<key, exists, data, cut>>

(* Every element is freed, from the head on. *)
FreeAll ==
  LET chain == Chain(list)
      position(e) == CHOOSE i \in DOMAIN chain : chain[i] = e
  IN  /\ next' = [e \in Entries |->
           IF e = headEntry THEN tailEntry
           ELSE IF e \notin ToSet(chain) THEN next[e]
           ELSE IF position(e) = 1 THEN freeList ELSE chain[position(e) - 1]]
      /\ prev' = [prev EXCEPT ![tailEntry] = headEntry]
      /\ freeList' = IF chain = << >> THEN freeList ELSE Last(chain)
      /\ size' = [size EXCEPT ![list] = 0]
      /\ UNCHANGED <<key, exists, data, cut>>

-----------------------------------------------------------------------------
(* The links back are those forward, reversed. *)
Mirrored ==
  LET chain == <<headEntry>> \o Chain(list) \o <<tailEntry>>
  IN  /\ \A i \in 2 .. Len(chain) : prev[chain[i]] = chain[i - 1]
      /\ prev[headEntry] = headEntry
=============================================================================
