------------------------------ MODULE Vectors -------------------------------
(***************************************************************************)
(* The containers of the template library that hold pointers in a counted  *)
(* vector (vectimp.h) and may own what they point at: BI_IArrayAsVector,   *)
(* BI_IBagAsVector, BI_ISetAsVector and the sorted BI_ISObjectArray        *)
(* (arrays.h, bags.h, sets.h, bsortary.cpp).  One container is modelled,   *)
(* of any of these kinds, with the vector it grows in steps of delta.      *)
(* The lower bound of an array is taken to be zero.                        *)
(***************************************************************************)
EXTENDS VectorSearch, FiniteSets

CONSTANTS Sizes,    \* the sizes a vector may be made with
          Deltas,   \* the steps an array may grow by
          MaxSize   \* bound: how large a client lets it grow

(* The sum of two indexes of a vector does not overflow. *)
ASSUME VectorsAssumption ==
  /\ Sizes \cup Deltas \subseteq Nat
  /\ MaxSize \in Nat /\ 2 * MaxSize <= UIntMax

VARIABLES
  kind,    \* "array", "bag", "set" or "sorted"
  lim,     \* the number of slots
  delta,
  owns,    \* shouldDelete
  live,    \* the objects that exist
  deleteIt \* what a search is for: to detach with or without deleting

vars == <<vectorVars, searchVars, kind, lim, delta, owns, live, deleteIt>>
idleVars == <<searchVars, deleteIt>>

Init ==
  /\ kind \in {"array", "bag", "set", "sorted"}
  /\ lim \in Sizes
  /\ delta \in IF kind \in {"bag", "set"} THEN {1} ELSE Deltas
  /\ data = [i \in 0 .. lim - 1 |-> Null]
  /\ count = 0
  /\ tested = (kind = "sorted")
  /\ owns = TRUE
  /\ live = {}
  /\ deleteIt = FALSE
  /\ AtRest

Contained == {data[i] : i \in DOMAIN data} \ {Null}

DeleteTypes == {"NoDelete", "DefDelete", "Delete"}
delObj(dt) == dt = "Delete" \/ (dt = "DefDelete" /\ owns)

nextDelta(sz) == IF sz % delta # 0 THEN ((sz + delta) \div delta) * delta ELSE sz

(* resize to at least size slots; new ones are null. *)
Resized(size) == IF size <= lim \/ delta = 0 THEN lim ELSE lim + nextDelta(size - lim)

Grown(newLim) == [i \in 0 .. newLim - 1 |-> IF i < lim THEN data[i] ELSE Null]

(* data[loc] = o in a vector that resize has been asked to make size large.  A
   slot that is not there makes the function longer than the vector. *)
Put(o, loc, size) == /\ lim' = Resized(size)
                     /\ data' = [i \in (0 .. lim' - 1) \cup {loc} |->
                                  IF i = loc THEN o ELSE Grown(lim')[i]]

(* BI_InternalICVectorImp::add goes to the first free slot after the count. *)
FirstFree ==
  IF \E i \in count .. lim - 1 : data[i] = Null
  THEN CHOOSE i \in count .. lim - 1 : data[i] = Null /\ \A j \in count .. i - 1 : data[j] # Null
  ELSE IF lim > count THEN lim ELSE count

(* Mutant: an object goes to the slot after the count. *)
AddAtCount(o) == /\ count' = count + 1
                 /\ Put(o, count, count + 1)

AddLast(o) == /\ count' = FirstFree + 1
              /\ Put(o, FirstFree, FirstFree + 1)

(* BI_ISObjectVector::add: behind all that are not greater. *)
Place(o) == Cardinality({i \in 0 .. count - 1 : value[data[i]] <= value[o]})

(* Mutant: the objects that are moved up overwrite one another. *)
AddSortedOver(o) ==
  /\ count' = count + 1
  /\ lim' = Resized(count + 1)
  /\ data' = [i \in 0 .. IF count < lim' THEN lim' - 1 ELSE count |->
                IF i = Place(o) THEN o
                ELSE IF i > Place(o) /\ i <= count THEN Grown(lim')[Place(o)]
                ELSE Grown(lim')[i]]

AddSorted(o) ==
  /\ count' = count + 1
  /\ lim' = Resized(count + 1)
  /\ data' = [i \in 0 .. IF count < lim' THEN lim' - 1 ELSE count |->
                IF i = Place(o) THEN o
                ELSE IF i > Place(o) /\ i <= count THEN data[i - 1]
                ELSE Grown(lim')[i]]

(* find of an array, bag or set: over all slots. *)
IsEqual(i, v) == data[i] # Null /\ value[data[i]] = v
LinearFind(v) ==
  IF \E i \in 0 .. lim - 1 : IsEqual(i, v)
  THEN CHOOSE i \in 0 .. lim - 1 : IsEqual(i, v) /\ \A j \in 0 .. i - 1 : ~IsEqual(j, v)
  ELSE UIntMax

-----------------------------------------------------------------------------
(* A client adds an object that is in no slot, and only where there is room:
   it has seen isFull() false, and after addAt it knows of a free slot, since
   isFull() looks at the count alone. *)
isFull == delta = 0 /\ count >= lim

HasRoom == /\ ~isFull
           /\ count < MaxSize
           /\ kind = "array" => delta # 0 \/ FirstFree < lim

Add(o) ==
  /\ pc = "idle"
  /\ o \notin Contained
  /\ HasRoom
  /\ live' = live \cup {o}
  /\ IF kind = "set" /\ LinearFind(value[o]) # UIntMax
     THEN UNCHANGED <<data, count, lim>>
     ELSE IF kind = "sorted" THEN AddSorted(o) ELSE AddLast(o)
  /\ UNCHANGED <<tested, idleVars, kind, delta, owns>>

(* addAt of an array, and a store through its operator [], grow it alike; what
   was in the slot is the client's again. *)
AddAt(o, loc) ==
  /\ pc = "idle"
  /\ kind = "array"
  /\ o \notin Contained
  /\ loc < MaxSize
  /\ loc < lim \/ delta # 0
  /\ live' = live \cup {o}
  /\ Put(o, loc, loc + 1)
  /\ UNCHANGED <<count, tested, idleVars, kind, delta, owns>>

-----------------------------------------------------------------------------
(* Mutant: the slot that the count gives up keeps its pointer. *)
DetachAtKept(loc, del) ==
  IF loc >= lim THEN UNCHANGED <<data, count, live>>
  ELSE /\ live' = IF del THEN live \ {data[loc]} ELSE live
       /\ IF loc >= count
          THEN data' = [data EXCEPT ![loc] = Null] /\ UNCHANGED count
          ELSE /\ count' = count - 1
               /\ data' = [i \in DOMAIN data |->
                    IF i \in loc .. count - 2 THEN data[i + 1] ELSE data[i]]

(* BI_CVectorImp::detach( unsigned, int ). *)
DetachAt(loc, del) ==
  IF loc >= lim THEN UNCHANGED <<data, count, live>>
  ELSE /\ live' = IF del THEN live \ {data[loc]} ELSE live
       /\ IF loc >= count
          THEN data' = [data EXCEPT ![loc] = Null] /\ UNCHANGED count
          ELSE /\ count' = count - 1
               /\ data' = [i \in DOMAIN data |->
                    IF i = count - 1 THEN Null
                    ELSE IF i \in loc .. count - 2 THEN data[i + 1] ELSE data[i]]

(* detach by index. *)
Detach(loc, dt) ==
  /\ pc = "idle"
  /\ kind \in {"array", "sorted"}
  /\ DetachAt(loc, delObj(dt))
  /\ UNCHANGED <<tested, idleVars, kind, lim, delta, owns>>

(* detach of an object takes out one that is equal to it; a sorted vector looks
   for it with the search of VectorSearch. *)
DetachObject(o, dt) ==
  /\ pc = "idle"
  /\ IF kind = "sorted"
     THEN Find(value[o]) /\ deleteIt' = delObj(dt) /\ UNCHANGED <<data, count, live>>
     ELSE DetachAt(LinearFind(value[o]), delObj(dt)) /\ UNCHANGED idleVars
  /\ UNCHANGED <<tested, kind, lim, delta, owns>>

Search == /\ Turn \/ Finish
          /\ UNCHANGED <<vectorVars, kind, lim, delta, owns, live, deleteIt>>

DetachFound ==
  /\ Stop
  /\ DetachAt(found, deleteIt)
  /\ deleteIt' = FALSE
  /\ UNCHANGED <<tested, kind, lim, delta, owns>>

(* flush: up to the count of a bag or set, else all slots. *)
Flush(dt) ==
  LET upr == IF kind \in {"bag", "set"} THEN count ELSE lim
  IN  /\ pc = "idle"
      /\ count' = 0
      /\ live' = IF delObj(dt) THEN live \ {data[i] : i \in 0 .. upr - 1} ELSE live
      /\ data' = [i \in DOMAIN data |-> IF i < upr THEN Null ELSE data[i]]
      /\ UNCHANGED <<tested, idleVars, kind, lim, delta, owns>>

OwnsElements(del) ==
  /\ pc = "idle"
  /\ owns' = del
  /\ UNCHANGED <<vectorVars, idleVars, kind, lim, delta, live>>

(* A client deletes an object that is in no slot. *)
Destroy(o) ==
  /\ pc = "idle"
  /\ o \in live \ Contained
  /\ live' = live \ {o}
  /\ UNCHANGED <<vectorVars, idleVars, kind, lim, delta, owns>>

Next ==
  \/ \E o \in Objects :
       \/ Add(o) \/ Destroy(o)
       \/ \E loc \in 0 .. MaxSize - 1 : AddAt(o, loc)
       \/ \E dt \in DeleteTypes : DetachObject(o, dt)
  \/ \E loc \in 0 .. MaxSize, dt \in DeleteTypes : Detach(loc, dt)
  \/ \E dt \in DeleteTypes : Flush(dt)
  \/ \E del \in BOOLEAN : OwnsElements(del)
  \/ Search \/ DetachFound

Spec == Init /\ [][Next]_vars /\ WF_vars(Search \/ DetachFound)
-----------------------------------------------------------------------------
(* The slots are those that were allocated, and no object is in two of them.
   Below the count every slot has an object: in order of value in a sorted
   array, no two equal in a set.  Above it only addAt has put any, so the count
   of a bag, set or sorted array is the number of its objects. *)
Packed ==
  /\ DOMAIN data = 0 .. lim - 1
  /\ \A i, j \in DOMAIN data : data[i] = data[j] /\ data[i] # Null => i = j
  /\ count <= lim
  /\ \A i \in 0 .. count - 1 : data[i] # Null
  /\ kind # "array" => \A i \in count .. lim - 1 : data[i] = Null
  /\ kind = "sorted" => InOrder
  /\ kind = "set" => \A i, j \in 0 .. count - 1 :
                       value[data[i]] = value[data[j]] => i = j

(* No slot points at an object that was deleted, by the container or by anyone
   else, so none is deleted twice. *)
NoneDangling == Contained \subseteq live

(* An add takes no other object out of the container, wherever addAt has put
   some and whatever holes are between them. *)
AddsKeep == [][count' > count => Contained \subseteq Contained']_vars

(* A search comes to an end. *)
SearchEnds == pc # "idle" ~> pc = "idle"
=============================================================================
