---------------------------- MODULE ObjectLists -----------------------------
(***************************************************************************)
(* The containers of the object-based class library that are one list:     *)
(* List and DoubleList themselves, Stack over a List, Deque and Queue over *)
(* a DoubleList, with their iterators (list.h, dbllist.h, stack.h,         *)
(* deque.h, queue.h).  Every container may own its objects; Stack, Deque   *)
(* and Queue hand a flush to their list, which goes by its own flag.       *)
(*                                                                         *)
(* The client adds objects it has, each in one place only.  It may go on   *)
(* between the steps of a walk, as long as it leaves alone the element the *)
(* iterator is at.                                                         *)
(***************************************************************************)
EXTENDS DoubleList

CONSTANTS
  Equal,              \* what the objects compare
  MaxCount            \* bound: what Stack, Deque and Queue count up to

ASSUME EqualAssumption == Equal \in [Objects -> Nat]

VARIABLES
  kind,               \* the class of the container
  owns,               \* its TShouldDelete::shouldDelete
  itemsInContainer,   \* the count Stack, Deque and Queue keep themselves
  alive, held,        \* the objects that exist, and those the client has
  got,                \* the last object that was got
  dir,                \* the iterator: "none", "forward" or "backward"
  at,                 \* currentElement
  start,              \* startingElement, Null once it is gone
  due, done           \* the objects in the list since the walk began: those
                      \* it has still to return and those it has returned

clientVars == <<kind, owns, itemsInContainer, alive, held, got>>
walkVars == <<dir, at, start, due, done>>
vars == <<listVars, prev, clientVars, walkVars>>

Init ==
  /\ Constructed
  /\ key = [o \in Objects \cup {NullObject} |-> IF o = NullObject THEN 0 ELSE Equal[o]]
  /\ kind \in {"List", "DoubleList", "Stack", "Deque", "Queue"}
  /\ owns = TRUE
  /\ itemsInContainer = 0
  /\ alive = Objects
  /\ held = Objects
  /\ got = NullObject
  /\ dir = "none" /\ at = Null /\ start = Null
  /\ due = {} /\ done = {}

Contained == ToSet(ObjectsOf(list))

isDouble == kind \in {"DoubleList", "Deque", "Queue"}
isWrapper == kind \in {"Stack", "Deque", "Queue"}

(* The list's own flag: nobody can reach that of a Stack's, Deque's or Queue's. *)
listOwns == isWrapper \/ owns
DeleteTypes == {"NoDelete", "DefDelete", "Delete"}
delObj(dt) == dt = "Delete" \/ (dt = "DefDelete" /\ listOwns)

-----------------------------------------------------------------------------
(* add, addAtHead, push, putLeft and the put of a Queue. *)
AddLeft(o) ==
  /\ o \in held
  /\ HasRoom /\ itemsInContainer < MaxCount
  /\ IF isDouble THEN addAtHead(o) ELSE Add(list, o) /\ UNCHANGED prev
  /\ itemsInContainer' = IF isWrapper THEN itemsInContainer + 1 ELSE 0
  /\ held' = held \ {o}
  /\ UNCHANGED <<kind, owns, alive, got, walkVars>>

(* addAtTail and putRight. *)
AddRight(o) ==
  /\ kind \in {"DoubleList", "Deque"}
  /\ o \in held
  /\ HasRoom /\ itemsInContainer < MaxCount
  /\ addAtTail(o)
  /\ itemsInContainer' = IF isWrapper THEN itemsInContainer + 1 ELSE 0
  /\ held' = held \ {o}
  /\ UNCHANGED <<kind, owns, alive, got, walkVars>>

(* The object of element e leaves the list; the iterator is not at e. *)
Leave(e, del) ==
  /\ e # at \/ e < 0
  /\ alive' = IF del THEN alive \ {data[e]} ELSE alive
  /\ held' = (IF del THEN held ELSE held \cup {data[e]}) \ {NullObject}
  /\ due' = due \ {data[e]}
  /\ done' = done \ {data[e]}
  /\ start' = IF e = start /\ e > 0 THEN Null ELSE start
  /\ UNCHANGED <<kind, owns, dir, at>>

(* pop and getLeft: what is first is looked at, and an object equal to it is
   detached from the head. *)
GetLeft ==
  /\ kind \in {"Stack", "Deque"}
  /\ LET first == next[headEntry]
         o == data[first]
     IN  /\ Leave(first, FALSE)
         /\ got' = IF o = NullObject THEN got ELSE o
         /\ IF o = NullObject
            THEN UNCHANGED <<listVars, prev, itemsInContainer>>
            ELSE /\ IF isDouble THEN Unlink(fromHead(o)) ELSE Detach(list, o) /\ UNCHANGED prev
                 /\ itemsInContainer' = itemsInContainer - 1

(* Mutant: the object is looked at from the right but detached from the head. *)
GetRightFromHead ==
  /\ kind \in {"Deque", "Queue"}
  /\ LET last == prev[tailEntry]
         o == data[last]
     IN  /\ Leave(last, FALSE)
         /\ got' = IF o = NullObject THEN got ELSE o
         /\ IF o = NullObject
            THEN UNCHANGED <<listVars, prev, itemsInContainer>>
            ELSE /\ Unlink(fromHead(o))
                 /\ itemsInContainer' = itemsInContainer - 1

(* getRight and the get of a Queue. *)
GetRight ==
  /\ kind \in {"Deque", "Queue"}
  /\ LET last == prev[tailEntry]
         o == data[last]
     IN  /\ Leave(last, FALSE)
         /\ got' = IF o = NullObject THEN got ELSE o
         /\ IF o = NullObject
            THEN UNCHANGED <<listVars, prev, itemsInContainer>>
            ELSE /\ Unlink(fromTail(o))
                 /\ itemsInContainer' = itemsInContainer - 1

(* detach, detachFromHead and, of a DoubleList, detachFromTail of an object
   equal to o. *)
DetachObject(o, dt) ==
  /\ kind \in {"List", "DoubleList"}
  /\ \/ /\ kind = "List"
        /\ Leave(next[findPred(list, o)], delObj(dt))
        /\ Detach(list, o) /\ UNCHANGED prev
     \/ kind = "DoubleList" /\ Leave(fromHead(o), delObj(dt)) /\ Unlink(fromHead(o))
     \/ kind = "DoubleList" /\ Leave(fromTail(o), delObj(dt)) /\ Unlink(fromTail(o))
  /\ UNCHANGED <<itemsInContainer, got>>

(* flush, by a client that has no iterator.  The count of a Stack, Deque or
   Queue is left as it is. *)
Flush(dt) ==
  /\ dir = "none"
  /\ FreeAll
  /\ alive' = IF delObj(dt) THEN alive \ Contained ELSE alive
  /\ held' = IF delObj(dt) THEN held ELSE held \cup Contained
  /\ UNCHANGED <<kind, owns, itemsInContainer, got, walkVars>>

OwnsElements(del) ==
  /\ owns' = del
  /\ UNCHANGED <<listVars, prev, kind, itemsInContainer, alive, held, got, walkVars>>

-----------------------------------------------------------------------------
(* operator int. *)
more == IF isDouble THEN next[at] # at /\ prev[at] # at ELSE next[at] # at

(* The objects from entry e on, on the way of the walk. *)
AheadOf(e) ==
  LET chain == Chain(list)
  IN  {data[chain[i]] : i \in {i \in DOMAIN chain :
         \E j \in DOMAIN chain :
           chain[j] = e /\ IF dir = "forward" THEN j <= i ELSE i <= j}}

(* initIterator, or initReverseIterator of a DoubleList. *)
StartWalk ==
  /\ dir = "none"
  /\ \/ dir' = "forward" /\ at' = next[headEntry]
     \/ kind = "DoubleList" /\ dir' = "backward" /\ at' = prev[tailEntry]
  /\ start' = at'
  /\ due' = Contained
  /\ done' = {}
  /\ UNCHANGED <<listVars, prev, clientVars>>

(* Mutant: the object is that of the element the iterator goes to. *)
AdvanceFirst ==
  /\ dir # "none"
  /\ more
  /\ at' = IF dir = "forward" THEN next[at] ELSE prev[at]
  /\ due' = due \ {data[at']}
  /\ done' = done \cup (due \cap {data[at']})
  /\ UNCHANGED <<listVars, prev, clientVars, dir, start>>

(* operator ++ ( int ) or -- ( int ). *)
Advance ==
  /\ dir # "none"
  /\ more
  /\ at' = IF dir = "forward" THEN next[at] ELSE prev[at]
  /\ due' = due \ {data[at]}
  /\ done' = done \cup (due \cap {data[at]})
  /\ UNCHANGED <<listVars, prev, clientVars, dir, start>>

(* restart goes back to the element the iterator was made at, and so past what
   has been added before it since, though classlib.doc:4374 has it go to the head
   of the list.  The client must not have taken that element out. *)
Restart ==
  /\ dir # "none"
  /\ start # Null
  /\ at' = start
  /\ due' = AheadOf(start)
  /\ done' = {}
  /\ UNCHANGED <<listVars, prev, clientVars, dir, start>>

EndWalk ==
  /\ dir # "none"
  /\ ~more
  /\ dir' = "none" /\ at' = Null /\ start' = Null
  /\ due' = {} /\ done' = {}
  /\ UNCHANGED <<listVars, prev, clientVars>>

Next ==
  \/ \E o \in Objects : AddLeft(o) \/ AddRight(o)
  \/ GetLeft \/ GetRight
  \/ \E o \in Objects, dt \in DeleteTypes : DetachObject(o, dt)
  \/ \E dt \in DeleteTypes : Flush(dt)
  \/ \E del \in BOOLEAN : OwnsElements(del)
  \/ StartWalk \/ Advance \/ Restart \/ EndWalk

Spec == Init /\ [][Next]_vars

(* What was left in cells that were freed, or in fields a List has not, makes
   no difference: nothing reads it. *)
View == <<[l \in exists |-> Chain(l)], ObjectsOf(list), FreeCells, cut, size,
          IF isDouble THEN [e \in ToSet(Chain(list)) \cup {headEntry, tailEntry} |-> prev[e]] ELSE << >>,
          clientVars, walkVars>>
-----------------------------------------------------------------------------
(* Every object is with the client, deleted, or in the list once; every cell is
   in the list or free; the list's count is right, and the count beside it never
   falls below it, so pop and get cannot make it wrap; and a list that is
   linked both ways is the same both ways. *)
ListWhole ==
  /\ PoolSound
  /\ isDouble => Mirrored
  /\ size[list] = Cardinality(Contained)
  /\ isWrapper => itemsInContainer >= size[list]
  /\ held \cap Contained = {}
  /\ alive = held \cup Contained

(* An iterator that is not at its end is at an object it has not returned yet,
   and one that got to its end has returned every object that was there all
   along since the walk began, whatever the client adds or takes out meanwhile.
   A walk that was restarted owes only those from the element the iterator was
   made at: less than classlib.doc:4374, which has it begin at the head. *)
WalkIsWhole ==
  dir # "none" => IF more THEN data[at] \in Contained \ done ELSE due = {}

(* Stack, Deque and Queue are a sequence with two ends, and what is got is what
   was at the end, though it is detached by its value. *)
Ends == INSTANCE DequeSpec WITH
          MaxItems <- Cardinality(Objects), Null <- NullObject,
          items <- IF isWrapper THEN ObjectsOf(list) ELSE << >>

AreEnds == Ends!Spec
=============================================================================
