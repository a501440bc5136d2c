----------------------------- MODULE HashTable ------------------------------
(***************************************************************************)
(* HashTable (hashtbl.h, hashtbl.cpp), the table of Bag, Set and           *)
(* Dictionary: a vector of Buckets pointers to Lists, constructed when     *)
(* their first object comes, with an external iterator (HashTableIterator, *)
(* over BI_IVectorIteratorImp and ListIterator).                           *)
(*                                                                         *)
(* The client adds objects it has, each in one place only, and detaches,   *)
(* looks up and flushes.  It may do so between the steps of a walk, as     *)
(* long as it leaves alone the element the iterator is at.                 *)
(***************************************************************************)
EXTENDS List

CONSTANTS
  Buckets,      \* the constructor's argument, aPrime
  Clients       \* what the table is used for: records of the kind of the
                \* container, "Bag" or, if it rejects equals, "Set", and the
                \* key and hash value of each object (an Association's are
                \* its key's)

(* Equal objects have the same hash value. *)
ASSUME HashTableAssumption ==
  /\ Buckets \in Nat \ {0}
  /\ Lists = 0 .. Buckets - 1
  /\ \A c \in Clients :
       /\ c.hash \in [Objects -> Nat]
       /\ \A o, p \in Objects : c.key[o] = c.key[p] => c.hash[o] = c.hash[p]

VARIABLES
  client,             \* which of the Clients
  itemsInContainer,
  owns,               \* TShouldDelete::shouldDelete = Delete
  alive, held,        \* the objects that exist, and those the client has
  pc,                 \* the iterator: "none", "ready" or in the loop of "scan"
  slot,               \* arrayIterator: Buckets at its end
  at,                 \* listIterator's element, Null for no list iterator
  due, done           \* the objects in the table since the walk began: those
                      \* it has still to return and those it has returned

tableVars == <<client, itemsInContainer, owns, alive, held>>
walkVars == <<pc, slot, at, due, done>>
vars == <<listVars, tableVars, walkVars>>

getHashValue(o) == client.hash[o] % Buckets

InTable == UNION {ToSet(ObjectsOf(b)) : b \in exists}

findMember(o) ==
  IF getHashValue(o) \in exists THEN FirstEqual(getHashValue(o), o) ELSE NullObject

hasMember(o) == findMember(o) # NullObject

DeleteTypes == {"NoDelete", "DefDelete", "Delete"}
delObj(dt) == dt = "Delete" \/ (dt = "DefDelete" /\ owns)

Init ==
  /\ NoLists
  /\ client \in Clients
  /\ key = client.key
  /\ itemsInContainer = 0
  /\ owns = TRUE
  /\ alive = Objects
  /\ held = Objects
  /\ pc = "none"
  /\ slot = 0
  /\ at = Null
  /\ due = {}
  /\ done = {}

-----------------------------------------------------------------------------
(* The client runs when the iterator is not in its loop. *)
Turn == pc # "scan"

(* int( arrayIterator ), which is the iterator's own operator int. *)
more == slot < Buckets

(* The element the client must leave alone. *)
Current == IF pc = "ready" /\ more THEN at ELSE Null

(* HashTable::add. *)
AddToTable(o) ==
  /\ Add(getHashValue(o), o)
  /\ itemsInContainer' = itemsInContainer + 1
  /\ held' = held \ {o}

(* Bag::add; Set::add if no equal object is there. *)
BagAdd(o) ==
  /\ Turn
  /\ o \in held
  /\ HasRoom
  /\ IF client.kind = "Set" /\ hasMember(o)
     THEN UNCHANGED <<listVars, itemsInContainer, held>>
     ELSE AddToTable(o)
  /\ UNCHANGED <<client, owns, alive, walkVars>>

(* Mutant: counts down whether or not there was an equal object. *)
BagDetachCounting(o, dt) ==
  LET b == getHashValue(o)
      gone == findMember(o)
  IN  /\ Turn
      /\ b \in exists => next[findPred(b, o)] \notin Elements \cap {Current}
      /\ IF b \in exists
         THEN /\ Detach(b, o)
              /\ itemsInContainer' = itemsInContainer - 1
         ELSE UNCHANGED <<listVars, itemsInContainer>>
      /\ alive' = IF delObj(dt) THEN alive \ {gone} ELSE alive
      /\ held' = (IF delObj(dt) THEN held ELSE held \cup {gone}) \ {NullObject}
      /\ due' = due \ {gone}
      /\ done' = done \ {gone}
      /\ UNCHANGED <<client, owns, pc, slot, at>>

(* detach of an object equal to o, and its destruction; if it is not destroyed
   the client has it back. *)
BagDetach(o, dt) ==
  LET b == getHashValue(o)
      gone == findMember(o)
  IN  /\ Turn
      /\ b \in exists => next[findPred(b, o)] \notin Elements \cap {Current}
      /\ IF b \in exists
         THEN /\ Detach(b, o)
              /\ itemsInContainer' =
                   IF size'[b] # size[b] THEN itemsInContainer - 1 ELSE itemsInContainer
         ELSE UNCHANGED <<listVars, itemsInContainer>>
      /\ alive' = IF delObj(dt) THEN alive \ {gone} ELSE alive
      /\ held' = (IF delObj(dt) THEN held ELSE held \cup {gone}) \ {NullObject}
      /\ due' = due \ {gone}
      /\ done' = done \ {gone}
      /\ UNCHANGED <<client, owns, pc, slot, at>>

(* flush: the lists take over the ownership, then the vector deletes them. *)
Flush(dt) ==
  /\ pc = "none"
  /\ DestroyAll
  /\ itemsInContainer' = 0
  /\ alive' = IF delObj(dt) THEN alive \ InTable ELSE alive
  /\ held' = IF delObj(dt) THEN held ELSE held \cup InTable
  /\ UNCHANGED <<client, owns, walkVars>>

OwnsElements(del) ==
  /\ Turn
  /\ owns' = del
  /\ UNCHANGED <<client, itemsInContainer, alive, held, listVars, walkVars>>

-----------------------------------------------------------------------------
(* The first slot from s on that has a list: BI_IVectorIteratorImp::bump. *)
bump(s) ==
  CHOOSE t \in s .. Buckets :
    /\ t = Buckets \/ t \in exists
    /\ \A u \in s .. t - 1 : u \notin exists

(* arrayIterator->current(): past the end, the last slot. *)
SlotShown(s) == IF s < Buckets THEN s ELSE Buckets - 1

(* ListIterator on the list of slot s, if there is one. *)
ListIteratorAt(s) == IF s \in exists THEN next[head(s)] ELSE Null

(* Mutant: restart without the scan for a first object. *)
RestartUnscanned ==
  /\ Turn
  /\ slot' = bump(0)
  /\ at' = IF slot' < Buckets THEN ListIteratorAt(slot') ELSE Null
  /\ pc' = "ready"
  /\ due' = InTable
  /\ done' = {}
  /\ UNCHANGED <<listVars, tableVars>>

(* The iterator's constructor, and restart.  An empty list at the start is
   left to the loop of scan. *)
Restart ==
  /\ Turn
  /\ slot' = bump(0)
  /\ at' = IF slot' < Buckets THEN ListIteratorAt(slot') ELSE Null
  /\ pc' = IF slot' < Buckets THEN "scan" ELSE "ready"
  /\ due' = InTable
  /\ done' = {}
  /\ UNCHANGED <<listVars, tableVars>>

(* operator ++ ( int ) of an iterator that is not at its end: the object, and
   the list iterator's ++. *)
Increment ==
  /\ pc = "ready"
  /\ more
  /\ due' = due \ {data[at]}
  /\ done' = done \cup (due \cap {data[at]})
  /\ at' = next[at]
  /\ pc' = "scan"
  /\ UNCHANGED <<listVars, tableVars, slot>>

(* Mutant: the vector's iterator stays where it is. *)
ScanStuck ==
  /\ pc = "scan"
  /\ IF at # Null /\ data[at] = NullObject
     THEN /\ slot' = bump(slot)
          /\ at' = ListIteratorAt(SlotShown(slot'))
          /\ pc' = "scan"
     ELSE pc' = "ready" /\ UNCHANGED <<slot, at>>
  /\ UNCHANGED <<listVars, tableVars, due, done>>

(* One turn of the loop of scan: at the end of a list, go on to the next. *)
Scan ==
  /\ pc = "scan"
  /\ IF at # Null /\ data[at] = NullObject
     THEN /\ slot' = IF more THEN bump(slot + 1) ELSE slot
          /\ at' = ListIteratorAt(SlotShown(slot'))
          /\ pc' = "scan"
     ELSE pc' = "ready" /\ UNCHANGED <<slot, at>>
  /\ UNCHANGED <<listVars, tableVars, due, done>>

(* The loop while( iterator != 0 ) ends and the iterator is deleted. *)
EndWalk ==
  /\ pc = "ready"
  /\ ~more
  /\ pc' = "none"
  /\ slot' = 0
  /\ at' = Null
  /\ due' = {}
  /\ done' = {}
  /\ UNCHANGED <<listVars, tableVars>>

Walk == Increment \/ Scan \/ EndWalk

Next ==
  \/ \E o \in Objects : BagAdd(o)
  \/ \E o \in Objects, dt \in DeleteTypes : BagDetach(o, dt)
  \/ \E dt \in DeleteTypes : Flush(dt)
  \/ \E del \in BOOLEAN : OwnsElements(del)
  \/ Restart
  \/ Walk

(* The program that walks a table goes on with its loop. *)
Spec == Init /\ [][Next]_vars /\ WF_vars(Walk)

-----------------------------------------------------------------------------
(* What the buckets hold is what was added and not taken out: every object is
   with the client, destroyed or in just one place of the table, that of its
   own hash value; the counts of the table and of its lists agree; a Set has
   no two equal objects; no list holds an object that was destroyed; and
   findMember finds whatever is there (add, detach, flush, findMember). *)
NothingLost ==
  /\ PoolSound
  /\ itemsInContainer = Cardinality(InTable)
  /\ cut = itemsInContainer + Len(FreeCells)
  /\ held \cap InTable = {}
  /\ alive = held \cup InTable
  /\ \A b \in exists : \A o \in ToSet(ObjectsOf(b)) : getHashValue(o) = b
  /\ client.kind = "Set" => \A o, p \in InTable : Same(o, p) => o = p
  /\ \A o \in Objects : hasMember(o) <=> \E p \in InTable : Same(o, p)

(* An iterator that is not at its end is at an object of the table, and one
   that got to its end has returned every object that was there all along
   once: whatever the client adds or detaches meanwhile, other than the
   object the iterator is at (operator ++, restart, scan). *)
WalksTheTable ==
  pc = "ready" =>
    IF more THEN at \in Elements /\ data[at] \in InTable \ done ELSE due = {}

(* The last bucket has a list from which everything was detached. *)
LastDrained == Buckets - 1 \in exists /\ size[Buckets - 1] = 0

(* A walk comes to its end, unless the last bucket is drained: the client can
   hold it up only as long as it has objects to add ahead of it, or starts it
   afresh for ever (scan). *)
WalkEnds ==
  <>[][~Restart]_vars => (pc # "none" ~> (pc = "none" \/ LastDrained))
=============================================================================
