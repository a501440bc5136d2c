----------------------------- MODULE MultiTree ------------------------------
(***************************************************************************)
(* MultiListRBTree of _rbtree.h, behind Open Watcom's multiset and multimap: *)
(* elements with equal keys form a ring of list nodes, and a node of the    *)
(* tree holds a pointer to the first of them.  One object is modelled,      *)
(* which is either such a container or, so that one run has both, a set,    *)
(* whose tree holds the keys themselves.                                    *)
(***************************************************************************)
EXTENDS RbTree

CONSTANTS MultiKeys,   \* the keys of a multiset
          Equals,      \* bound: how many elements may have the same key
          MaxElements  \* bound: how many there may be

ASSUME MultiAssumption ==
  /\ MultiKeys \subseteq Keys
  /\ Equals \in Nat

VARIABLES
  kind,        \* "set" or "multi"
  elements,    \* the list nodes that are allocated
  fwd, bwd,    \* their links
  head,        \* for each node of the tree the list node it points at
  mSize        \* their number

ringVars == <<elements, fwd, bwd, head, mSize>>
vars == <<rbVars, kind, ringVars>>

(* A list node is told from those with the same key by a number. *)
Element == MultiKeys \X (1 .. Equals)
NoElement == <<Null, 0>>
KeyOf(e) == e[1]

Init ==
  /\ RbInit
  /\ kind \in {"set", "multi"}
  /\ elements = {}
  /\ fwd = << >> /\ bwd = << >> /\ head = << >>
  /\ mSize = 0

NewElement(k) == CHOOSE e \in Element \ elements :
                   KeyOf(e) = k /\ \A d \in Element \ elements : KeyOf(d) = k => e[2] <= d[2]
HasRoom(k) == /\ mSize < MaxElements
              /\ Cardinality({e \in elements : KeyOf(e) = k}) < Equals

-----------------------------------------------------------------------------
(* An iterator is an element: its node of the tree is that of its key. *)
TreeAt(e) == KeyOf(e)
HeadOf(x) == IF x = Null THEN NoElement ELSE head[x]

MultiBegin == HeadOf(first)

increment(e) == IF e = bwd[head[TreeAt(e)]] THEN HeadOf(walk_right(TreeAt(e))) ELSE fwd[e]

MultiBefore(e) == IF e = NoElement \/ e = HeadOf(TreeAt(e))
                  THEN bwd[head[decrement(TreeAt(e))]] ELSE bwd[e]

multi_lower(k) == HeadOf(lower_bound(k))
multi_upper(k) == HeadOf(upper_bound(k))

(* The ring of node x from its first element on. *)
Ring(x) ==
  LET own == {e \in elements : KeyOf(e) = x}
      from[e \in own] == IF fwd[e] = head[x] THEN <<e>> ELSE <<e>> \o from[fwd[e]]
  IN  from[head[x]]

(* count. *)
count(k) == IF find(k) = Null THEN 0 ELSE Len(Ring(find(k)))

-----------------------------------------------------------------------------
(* A new node e alone in its ring, or between two others. *)
LinkAlone(e) ==
  /\ elements' = elements \cup {e}
  /\ fwd' = [x \in elements' |-> IF x = e THEN e ELSE fwd[x]]
  /\ bwd' = [x \in elements' |-> IF x = e THEN e ELSE bwd[x]]
  /\ head' = [x \in nodes' |-> IF x = KeyOf(e) THEN e ELSE head[x]]
  /\ mSize' = mSize + 1

LinkBetween(e, before, after) ==
  /\ elements' = elements \cup {e}
  /\ fwd' = [x \in elements' |-> IF x = e THEN after ELSE IF x = before THEN e ELSE fwd[x]]
  /\ bwd' = [x \in elements' |-> IF x = e THEN before ELSE IF x = after THEN e ELSE bwd[x]]
  /\ mSize' = mSize + 1

(* insert( v ). *)
MultiInsert(k) ==
  /\ pc = "idle"
  /\ HasRoom(k)
  /\ unbalanced_insert(k)
  /\ LET e == NewElement(k)
     IN  IF root = Null \/ find(k) = Null
         THEN LinkAlone(e)
         ELSE LET o == head[find(k)]
              IN  LinkBetween(e, bwd[o], o) /\ UNCHANGED head
  /\ UNCHANGED <<copyVars, kind>>

(* insert( hint, v ): the place it settles on. *)
Position(hint, k) ==
  IF mSize = 0 THEN NoElement
  ELSE IF hint = NoElement \/ ~(KeyOf(hint) < k)
       THEN IF hint = MultiBegin \/ ~(k < KeyOf(MultiBefore(hint)))
            THEN hint ELSE multi_upper(k)
       ELSE multi_lower(k)

(* Mutant: the ring's first element stays the one the tree points at. *)
MultiInsertHintInside(hint, k) ==
  /\ pc = "idle"
  /\ HasRoom(k)
  /\ LET e == NewElement(k)
         pos == Position(hint, k)
     IN  /\ hinted_insert(TreeAt(pos), k)
         /\ IF root = Null \/ find(k) = Null
            THEN LinkAlone(e)
            ELSE IF pos = NoElement \/ k < KeyOf(pos)
                 THEN /\ LinkBetween(e, MultiBefore(pos), fwd[MultiBefore(pos)])
                      /\ UNCHANGED head
                 ELSE /\ LinkBetween(e, bwd[pos], pos)
                      /\ UNCHANGED head
  /\ UNCHANGED <<copyVars, kind>>

MultiInsertHint(hint, k) ==
  /\ pc = "idle"
  /\ HasRoom(k)
  /\ LET e == NewElement(k)
         pos == Position(hint, k)
     IN  /\ hinted_insert(TreeAt(pos), k)
         /\ IF root = Null \/ find(k) = Null
            THEN LinkAlone(e)
            ELSE IF pos = NoElement \/ k < KeyOf(pos)
                 THEN /\ LinkBetween(e, MultiBefore(pos), fwd[MultiBefore(pos)])
                      /\ UNCHANGED head
                 ELSE /\ LinkBetween(e, bwd[pos], pos)
                      /\ head' = [x \in nodes |-> IF head[x] = pos THEN e ELSE head[x]]
  /\ UNCHANGED <<copyVars, kind>>

(* erase( iterator ): the last element of a ring takes the tree's node with it. *)
Unring(S) ==
  /\ elements' = elements \ S
  /\ mSize' = mSize - Cardinality(S)

(* Mutant: the tree goes on pointing at the element that is erased. *)
MultiEraseStale(e) ==
  /\ pc = "idle"
  /\ Unring({e})
  /\ bwd' = [x \in elements' |-> IF x = fwd[e] THEN bwd[e] ELSE bwd[x]]
  /\ fwd' = [x \in elements' |-> IF x = bwd[e] THEN fwd[e] ELSE fwd[x]]
  /\ IF fwd[e] = e
     THEN Unlink(TreeAt(e)) /\ head' = Restrict(head, nodes')
     ELSE UNCHANGED <<treeVars, pc, n, lefty, head>>
  /\ UNCHANGED <<copyVars, kind>>

MultiErase(e) ==
  /\ pc = "idle"
  /\ Unring({e})
  /\ bwd' = [x \in elements' |-> IF x = fwd[e] THEN bwd[e] ELSE bwd[x]]
  /\ fwd' = [x \in elements' |-> IF x = bwd[e] THEN fwd[e] ELSE fwd[x]]
  /\ IF fwd[e] = e
     THEN Unlink(TreeAt(e)) /\ head' = Restrict(head, nodes')
     ELSE /\ head' = [x \in nodes |-> IF head[x] = e THEN fwd[e] ELSE head[x]]
          /\ UNCHANGED <<treeVars, pc, n, lefty>>
  /\ UNCHANGED <<copyVars, kind>>

(* erase( key ) of a key that is there: for another the code follows a null
   pointer. *)
MultiEraseKey(k) ==
  /\ pc = "idle"
  /\ k \in nodes
  /\ Unring(Range(Ring(find(k))))
  /\ fwd' = Restrict(fwd, elements')
  /\ bwd' = Restrict(bwd, elements')
  /\ Unlink(find(k))
  /\ head' = Restrict(head, nodes')
  /\ UNCHANGED <<copyVars, kind>>

(* clear(): all rings on a walk over the tree, and then the tree. *)
MultiClear ==
  /\ pc = "idle"
  /\ elements' = elements \ UNION {Range(Ring(x)) : x \in nodes}
  /\ fwd' = Restrict(fwd, elements')
  /\ bwd' = Restrict(bwd, elements')
  /\ head' = << >>
  /\ mSize' = 0
  /\ ClearStart
  /\ UNCHANGED <<treeVars, copyVars, kind>>

-----------------------------------------------------------------------------
MultiNext ==
  \/ \E k \in MultiKeys : MultiInsert(k) \/ MultiEraseKey(k)
  \/ \E h \in elements \cup {NoElement}, k \in MultiKeys : MultiInsertHint(h, k)
  \/ \E e \in elements : MultiErase(e)
  \/ MultiClear
  \/ Step /\ UNCHANGED <<kind, ringVars>>

Next ==
  \/ kind = "set" /\ RbNext /\ UNCHANGED <<kind, ringVars>>
  \/ kind = "multi" /\ MultiNext

Spec == Init /\ [][Next]_vars /\ WF_vars(Step /\ UNCHANGED <<kind, ringVars>>)
-----------------------------------------------------------------------------
(* What the container holds, in the order its iterators go. *)
Contents ==
  IF kind = "set" \/ pc = "clear" THEN << >>
  ELSE LET from[x \in nodes \cup {Null}] ==
             IF x = Null THEN << >> ELSE from[left[x]] \o Ring(x) \o from[right[x]]
       IN  from[root]

Abstract == INSTANCE OrderedMulti WITH Elements <- Element, seq <- Contents

(* Every operation does to the sequence what OrderedMulti says, and the repair
   of the tree after it does nothing to it; an insertion with a hint does what
   OrderedMulti says of that very hint. *)
PlaceOf(hint) ==
  LET all == Append(Contents, NoElement)
  IN  CHOOSE i \in DOMAIN all : all[i] = hint

IsOrdered ==
  /\ Abstract!Spec
  /\ [][\A e \in elements' \ elements, hint \in elements \cup {NoElement} :
          MultiInsertHint(hint, KeyOf(e)) => Abstract!InsertHint(PlaceOf(hint), e)]_vars

(* No list node is lost and none is in the tree after it was freed; the rings
   are linked both ways; mSize and count are right; and an iterator goes over
   all elements forwards, and backwards from the end. *)
RingsWhole ==
  kind = "multi" /\ pc # "clear" =>
    /\ DOMAIN head = nodes
    /\ \A x \in nodes : head[x] \in elements /\ KeyOf(head[x]) = x
    /\ \A e \in elements : fwd[bwd[e]] = e /\ bwd[fwd[e]] = e
    /\ mSize = Cardinality(elements)
    /\ \A k \in MultiKeys : count(k) = Cardinality({e \in elements : KeyOf(e) = k})
    /\ \E all \in {Contents} :
         /\ Range(all) = elements
         /\ \A i \in 1 .. Len(all) :
              LET next == IF i = Len(all) THEN NoElement ELSE all[i + 1]
              IN  increment(all[i]) = next /\ MultiBefore(next) = all[i]
=============================================================================
