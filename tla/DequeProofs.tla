---------------------------- MODULE DequeProofs -----------------------------
(***************************************************************************)
(* For every set of objects and every capacity: the ring of Deque has the  *)
(* types of TypeOK, lets nothing dangle, and implements DequeSpec.  The    *)
(* first lemmas say where an operation of the ring leaves the slots of the *)
(* objects; the rest follows from them without arithmetic.                 *)
(***************************************************************************)
EXTENDS DequeIterator, SequenceTheorems, TLAPS

Filled == 1 .. getItemsInContainer

(* The slots of the objects are different slots of the vector, the first is
   left and the last is before right. *)
LEMMA Slots ==
  ASSUME TypeOK
  PROVE  /\ getItemsInContainer \in 0 .. MaxItems
         /\ isEmpty <=> getItemsInContainer = 0
         /\ isFull <=> getItemsInContainer = MaxItems
         /\ prev(left) \in 0 .. limit - 1
         /\ next(left) \in 0 .. limit - 1
         /\ prev(right) \in 0 .. limit - 1
         /\ next(right) \in 0 .. limit - 1
         /\ \A i \in Filled : Slot(i) \in 0 .. limit - 1
         /\ \A i, j \in Filled : Slot(i) = Slot(j) => i = j
         /\ ~isEmpty => Slot(1) = left
         /\ ~isEmpty => Slot(getItemsInContainer) = prev(right)
BY DequeAssumption DEF TypeOK, getItemsInContainer, isEmpty, isFull, prev, next,
   Filled, Slot, limit

(* putRight appends the slot right to those of the objects. *)
LEMMA SlotsPutRight ==
  ASSUME TypeOK, ~isFull, left' = left, right' = next(right)
  PROVE  /\ getItemsInContainer' = getItemsInContainer + 1
         /\ Slot(getItemsInContainer)' = right
         /\ \A i \in Filled : Slot(i)' = Slot(i) /\ Slot(i) # right
BY DequeAssumption DEF TypeOK, getItemsInContainer, isFull, prev, next, Filled,
   Slot, limit

(* putLeft puts the slot before left in front of them. *)
LEMMA SlotsPutLeft ==
  ASSUME TypeOK, ~isFull, left' = prev(left), right' = right
  PROVE  /\ getItemsInContainer' = getItemsInContainer + 1
         /\ Slot(1)' = prev(left)
         /\ \A i \in Filled : Slot(i + 1)' = Slot(i) /\ Slot(i) # prev(left)
BY DequeAssumption DEF TypeOK, getItemsInContainer, isFull, prev, next, Filled,
   Slot, limit

(* getLeft drops the first. *)
LEMMA SlotsGetLeft ==
  ASSUME TypeOK, ~isEmpty, left' = next(left), right' = right
  PROVE  /\ getItemsInContainer' = getItemsInContainer - 1
         /\ \A i \in 1 .. getItemsInContainer - 1 : Slot(i)' = Slot(i + 1)
BY DequeAssumption DEF TypeOK, getItemsInContainer, isEmpty, prev, next, Slot,
   limit

(* getRight drops the last. *)
LEMMA SlotsGetRight ==
  ASSUME TypeOK, ~isEmpty, left' = left, right' = prev(right)
  PROVE  /\ getItemsInContainer' = getItemsInContainer - 1
         /\ \A i \in 1 .. getItemsInContainer - 1 : Slot(i)' = Slot(i)
BY DequeAssumption DEF TypeOK, getItemsInContainer, isEmpty, prev, next, Slot,
   limit

(* What flush deletes is in slots of objects. *)
LEMMA SlotsFlush ==
  ASSUME TypeOK, NEW s \in Flushed
  PROVE  \E i \in Filled : s = Slot(i)
<1>1. CASE left <= s
  <2>1. s - left + 1 \in Filled /\ s = Slot(s - left + 1)
    BY <1>1, DequeAssumption DEF TypeOK, Flushed, getItemsInContainer, Filled,
       Slot, limit
  <2>. QED BY <2>1
<1>2. CASE s < left
  <2>1. s - left + limit + 1 \in Filled /\ s = Slot(s - left + limit + 1)
    BY <1>2, DequeAssumption DEF TypeOK, Flushed, getItemsInContainer, Filled,
       Slot, limit
  <2>. QED BY <2>1
<1>. QED BY <1>1, <1>2, DequeAssumption DEF TypeOK, Flushed, limit
-----------------------------------------------------------------------------
(* What each operation does to the objects, one by one. *)
LEMMA ObjectsAreContents ==
  \A i \in Filled : Contents[i] = data[Slot(i)] /\ Contents[i] \in InDeque
BY DEF Contents, Filled, InDeque

LEMMA PutRightContents ==
  ASSUME TypeOK, NEW o, putRight(o)
  PROVE  /\ getItemsInContainer' = getItemsInContainer + 1
         /\ \A i \in Filled : Contents'[i] = Contents[i]
         /\ Contents'[getItemsInContainer + 1] = o
<1>1. /\ getItemsInContainer \in Nat
      /\ getItemsInContainer' = getItemsInContainer + 1
      /\ Slot(getItemsInContainer)' = right
      /\ \A i \in Filled : Slot(i)' = Slot(i) /\ Slot(i) # right
      /\ \A i \in Filled : Slot(i) \in 0 .. limit - 1
  BY Slots, SlotsPutRight DEF putRight
<1>2. data \in [0 .. limit - 1 -> Objects \cup {Null}] /\ right \in 0 .. limit - 1
  BY DEF TypeOK
<1>3. data' = [data EXCEPT ![right] = o]
  BY DEF putRight
<1>4. Contents' = [i \in 1 .. getItemsInContainer + 1 |-> data'[Slot(i)']]
  BY <1>1 DEF Contents
<1>5. ASSUME NEW i \in Filled PROVE Contents'[i] = Contents[i]
  <2>1. i \in 1 .. getItemsInContainer + 1
    BY <1>1 DEF Filled
  <2>. QED BY <2>1, <1>1, <1>2, <1>3, <1>4, ObjectsAreContents
<1>6. Contents'[getItemsInContainer + 1] = o
  <2>1. Contents'[getItemsInContainer'] = data'[Slot(getItemsInContainer)']
    BY <1>1 DEF Contents
  <2>. QED BY <2>1, <1>1, <1>2, <1>3
<1>. QED BY <1>1, <1>5, <1>6

LEMMA PutLeftContents ==
  ASSUME TypeOK, NEW o, putLeft(o)
  PROVE  /\ getItemsInContainer' = getItemsInContainer + 1
         /\ Contents'[1] = o
         /\ \A i \in Filled : Contents'[i + 1] = Contents[i]
<1>1. /\ getItemsInContainer \in Nat
      /\ getItemsInContainer' = getItemsInContainer + 1
      /\ Slot(1)' = prev(left)
      /\ prev(left) \in 0 .. limit - 1
      /\ \A i \in Filled : Slot(i + 1)' = Slot(i) /\ Slot(i) # prev(left)
      /\ \A i \in Filled : Slot(i) \in 0 .. limit - 1
  BY Slots, SlotsPutLeft DEF putLeft
<1>2. data \in [0 .. limit - 1 -> Objects \cup {Null}]
  BY DEF TypeOK
<1>3. data' = [data EXCEPT ![prev(left)] = o]
  BY DEF putLeft
<1>4. \A i \in 1 .. getItemsInContainer + 1 : Contents'[i] = data'[Slot(i)']
  BY <1>1 DEF Contents
<1>5. ASSUME NEW i \in Filled PROVE Contents'[i + 1] = Contents[i]
  <2>1. i + 1 \in 1 .. getItemsInContainer + 1
    BY <1>1 DEF Filled
  <2>. QED BY <2>1, <1>1, <1>2, <1>3, <1>4, ObjectsAreContents
<1>6. Contents'[1] = o
  <2>1. 1 \in 1 .. getItemsInContainer + 1
    BY <1>1
  <2>. QED BY <2>1, <1>1, <1>2, <1>3, <1>4
<1>. QED BY <1>1, <1>5, <1>6

LEMMA GetLeftContents ==
  ASSUME TypeOK, getLeft
  PROVE  /\ getItemsInContainer \in Nat \ {0}
         /\ getItemsInContainer' = getItemsInContainer - 1
         /\ got' = Contents[1]
         /\ \A i \in 1 .. getItemsInContainer - 1 : Contents'[i] = Contents[i + 1]
<1>1. /\ getItemsInContainer \in Nat \ {0}
      /\ getItemsInContainer' = getItemsInContainer - 1
      /\ Slot(1) = left
      /\ \A i \in 1 .. getItemsInContainer - 1 : Slot(i)' = Slot(i + 1)
  BY Slots, SlotsGetLeft DEF getLeft
<1>2. data' = data /\ got' = data[left]
  BY DEF getLeft, Takes
<1>3. 1 \in Filled
  BY <1>1 DEF Filled
<1>4. ASSUME NEW i \in 1 .. getItemsInContainer - 1
      PROVE  Contents'[i] = Contents[i + 1]
  <2>1. Contents'[i] = data'[Slot(i)']
    BY <1>1 DEF Contents
  <2>2. i + 1 \in Filled
    BY <1>1 DEF Filled
  <2>. QED BY <2>1, <2>2, <1>1, <1>2, ObjectsAreContents
<1>. QED BY <1>1, <1>2, <1>3, <1>4, ObjectsAreContents

LEMMA GetRightContents ==
  ASSUME TypeOK, getRight
  PROVE  /\ getItemsInContainer \in Nat \ {0}
         /\ getItemsInContainer' = getItemsInContainer - 1
         /\ got' = Contents[getItemsInContainer]
         /\ \A i \in 1 .. getItemsInContainer - 1 : Contents'[i] = Contents[i]
<1>1. /\ getItemsInContainer \in Nat \ {0}
      /\ getItemsInContainer' = getItemsInContainer - 1
      /\ Slot(getItemsInContainer) = prev(right)
      /\ \A i \in 1 .. getItemsInContainer - 1 : Slot(i)' = Slot(i)
  BY Slots, SlotsGetRight DEF getRight
<1>2. data' = data /\ got' = data[prev(right)]
  BY DEF getRight, Takes
<1>3. getItemsInContainer \in Filled
  BY <1>1 DEF Filled
<1>4. ASSUME NEW i \in 1 .. getItemsInContainer - 1
      PROVE  Contents'[i] = Contents[i]
  <2>1. Contents'[i] = data'[Slot(i)']
    BY <1>1 DEF Contents
  <2>2. i \in Filled
    BY <1>1 DEF Filled
  <2>. QED BY <2>1, <2>2, <1>1, <1>2, ObjectsAreContents
<1>. QED BY <1>1, <1>2, <1>3, <1>4, ObjectsAreContents

LEMMA FlushContents ==
  ASSUME TypeOK, NEW dt \in DeleteTypes, flush(dt)
  PROVE  getItemsInContainer' = 0
BY DEF flush, getItemsInContainer

LEMMA SameContents ==
  ASSUME UNCHANGED <<data, left, right>>
  PROVE  /\ getItemsInContainer' = getItemsInContainer
         /\ Contents' = Contents
         /\ InDeque' = InDeque
BY DEF getItemsInContainer, Contents, InDeque, Slot
-----------------------------------------------------------------------------
(* TypeOK alone is not inductive: that a client gets an object, not Null, is
   NoneDangling's part. *)
Sound == TypeOK /\ NoneDangling

LEMMA SoundInit == Init => Sound
<1>. SUFFICES ASSUME Init PROVE Sound
  OBVIOUS
<1>1. getItemsInContainer = 0
  BY DEF Init, getItemsInContainer
<1>2. InDeque = {}
  BY <1>1 DEF InDeque
<1>3. TypeOK
  BY DequeAssumption DEF Init, TypeOK, limit
<1>4. NoneDangling
  BY <1>1, <1>2 DEF NoneDangling, Init
<1>. QED BY <1>3, <1>4 DEF Sound

(* A put: the object was a client's or is new. *)
LEMMA SoundPut ==
  ASSUME Sound, NEW o \in Objects, putLeft(o) \/ putRight(o)
  PROVE  Sound'
<1>1. TypeOK /\ NoneDangling
  BY DEF Sound
<1>2. /\ alive' = alive \cup {o}
      /\ held' = held \ {o}
      /\ o \in held \/ o \notin alive
      /\ owns' = owns /\ got' = got
  BY DEF putLeft, putRight, Gives
<1>3. TypeOK'
  <2>1. prev(left) \in 0 .. limit - 1 /\ next(right) \in 0 .. limit - 1
    BY <1>1, Slots
  <2>2. left' \in 0 .. limit - 1 /\ right' \in 0 .. limit - 1
    BY <2>1, <1>1 DEF TypeOK, putLeft, putRight
  <2>3. data' \in [0 .. limit - 1 -> Objects \cup {Null}]
    BY <1>1 DEF TypeOK, putLeft, putRight
  <2>. QED BY <1>1, <1>2, <2>2, <2>3 DEF TypeOK, limit
<1>4. o \notin InDeque
  BY <1>1, <1>2 DEF NoneDangling
<1>5. getItemsInContainer \in Nat
  BY <1>1, Slots
<1>6. CASE putRight(o)
  <2>1. /\ getItemsInContainer' = getItemsInContainer + 1
        /\ \A i \in Filled : Contents'[i] = Contents[i]
        /\ Contents'[getItemsInContainer + 1] = o
    BY <1>1, <1>6, PutRightContents
  <2>2. \A i \in 1 .. getItemsInContainer' :
          i \in Filled \/ i = getItemsInContainer + 1
    BY <1>5, <2>1 DEF Filled
  <2>3. InDeque' \subseteq InDeque \cup {o}
    BY <2>1, <2>2, ObjectsAreContents DEF InDeque
  <2>4. \A i, j \in 1 .. getItemsInContainer' :
          Contents'[i] = Contents'[j] => i = j
    BY <2>1, <2>2, <1>1, <1>4, ObjectsAreContents DEF NoneDangling, Filled
  <2>. QED BY <1>1, <1>2, <1>3, <2>3, <2>4 DEF Sound, NoneDangling
<1>7. CASE putLeft(o)
  <2>1. /\ getItemsInContainer' = getItemsInContainer + 1
        /\ Contents'[1] = o
        /\ \A i \in Filled : Contents'[i + 1] = Contents[i]
    BY <1>1, <1>7, PutLeftContents
  <2>2. \A i \in 1 .. getItemsInContainer' :
          i = 1 \/ (i - 1 \in Filled /\ Contents'[i] = Contents[i - 1])
    BY <1>5, <2>1 DEF Filled
  <2>3. InDeque' \subseteq InDeque \cup {o}
    BY <2>1, <2>2, ObjectsAreContents DEF InDeque
  <2>4. \A i, j \in 1 .. getItemsInContainer' :
          Contents'[i] = Contents'[j] => i = j
    <3>. SUFFICES ASSUME NEW i \in 1 .. getItemsInContainer',
                         NEW j \in 1 .. getItemsInContainer',
                         Contents'[i] = Contents'[j]
                  PROVE  i = j
      OBVIOUS
    <3>1. i = 1 <=> j = 1
      BY <2>1, <2>2, <1>4, ObjectsAreContents
    <3>2. CASE i # 1 /\ j # 1
      <4>1. i - 1 = j - 1
        BY <3>2, <2>2, <1>1 DEF NoneDangling, Filled
      <4>. QED BY <4>1, <1>5, <2>1
    <3>. QED BY <3>1, <3>2
  <2>. QED BY <1>1, <1>2, <1>3, <2>3, <2>4 DEF Sound, NoneDangling
<1>. QED BY <1>6, <1>7

(* A get: the object leaves the deque for the client. *)
LEMMA SoundGet ==
  ASSUME Sound, getLeft \/ getRight
  PROVE  Sound'
<1>1. TypeOK /\ NoneDangling
  BY DEF Sound
<1>2. getItemsInContainer \in Nat \ {0}
  BY <1>1, GetLeftContents, GetRightContents
<1>3. /\ got' \in InDeque
      /\ got' \notin InDeque'
      /\ InDeque' \subseteq InDeque
      /\ \A i, j \in 1 .. getItemsInContainer' :
           Contents'[i] = Contents'[j] => i = j
  <2>1. CASE getLeft
    <3>1. /\ getItemsInContainer' = getItemsInContainer - 1
          /\ got' = Contents[1]
          /\ \A i \in 1 .. getItemsInContainer - 1 :
               Contents'[i] = Contents[i + 1]
      BY <1>1, <2>1, GetLeftContents
    <3>2. 1 \in Filled
      BY <1>2 DEF Filled
    <3>3. \A i \in 1 .. getItemsInContainer' :
            i + 1 \in Filled /\ i + 1 # 1 /\ Contents'[i] = Contents[i + 1]
      BY <1>2, <3>1 DEF Filled
    <3>4. InDeque' \subseteq {Contents[i + 1] : i \in 1 .. getItemsInContainer'}
      BY <3>3 DEF InDeque
    <3>5. \A i \in 1 .. getItemsInContainer' : Contents[i + 1] # Contents[1]
      BY <1>1, <3>2, <3>3 DEF NoneDangling, Filled
    <3>6. \A i, j \in 1 .. getItemsInContainer' :
            Contents'[i] = Contents'[j] => i = j
      <4>1. \A i, j \in 1 .. getItemsInContainer' :
              Contents'[i] = Contents'[j] => i + 1 = j + 1
        BY <1>1, <3>3 DEF NoneDangling, Filled
      <4>. QED BY <4>1
    <3>. QED BY <3>1, <3>2, <3>3, <3>4, <3>5, <3>6, ObjectsAreContents
  <2>2. CASE getRight
    <3>1. /\ getItemsInContainer' = getItemsInContainer - 1
          /\ got' = Contents[getItemsInContainer]
          /\ \A i \in 1 .. getItemsInContainer - 1 : Contents'[i] = Contents[i]
      BY <1>1, <2>2, GetRightContents
    <3>2. getItemsInContainer \in Filled
      BY <1>2 DEF Filled
    <3>3. \A i \in 1 .. getItemsInContainer' :
            i \in Filled /\ i # getItemsInContainer /\ Contents'[i] = Contents[i]
      BY <1>2, <3>1 DEF Filled
    <3>4. InDeque' \subseteq {Contents[i] : i \in 1 .. getItemsInContainer'}
      BY <3>3 DEF InDeque
    <3>5. \A i \in 1 .. getItemsInContainer' :
            Contents[i] # Contents[getItemsInContainer]
      BY <1>1, <3>2, <3>3 DEF NoneDangling, Filled
    <3>. QED BY <1>1, <3>1, <3>2, <3>3, <3>4, <3>5, ObjectsAreContents
             DEF NoneDangling, Filled
  <2>. QED BY <2>1, <2>2
<1>4. /\ data' = data /\ owns' = owns /\ alive' = alive
      /\ held' = held \cup {got'}
  BY DEF getLeft, getRight, Takes
<1>5. TypeOK'
  <2>1. next(left) \in 0 .. limit - 1 /\ prev(right) \in 0 .. limit - 1
    BY <1>1, Slots
  <2>2. left' \in 0 .. limit - 1 /\ right' \in 0 .. limit - 1
    BY <2>1, <1>1 DEF TypeOK, getLeft, getRight
  <2>3. got' \in Objects
    BY <1>1, <1>3 DEF NoneDangling, TypeOK
  <2>. QED BY <1>1, <1>4, <2>2, <2>3 DEF TypeOK, limit
<1>. QED BY <1>1, <1>3, <1>4, <1>5 DEF Sound, NoneDangling

(* A flush: what it deletes are objects of the deque, so no client's. *)
LEMMA SoundFlush ==
  ASSUME Sound, NEW dt \in DeleteTypes, flush(dt)
  PROVE  Sound'
<1>1. TypeOK /\ NoneDangling
  BY DEF Sound
<1>2. getItemsInContainer' = 0 /\ InDeque' = {}
  BY <1>1, FlushContents DEF InDeque
<1>3. {data[s] : s \in Flushed} \subseteq InDeque
  BY <1>1, SlotsFlush, ObjectsAreContents
<1>4. left' = 0 /\ right' = 0 /\ owns' = owns /\ got' = got
  BY DEF flush
<1>5. 0 \in 0 .. limit - 1
  BY DequeAssumption DEF limit
<1>6. CASE delObj(dt)
  <2>1. /\ alive' = alive \ {data[s] : s \in Flushed}
        /\ held' = held
        /\ data' = [s \in 0 .. limit - 1 |->
                      IF s \in Flushed THEN Null ELSE data[s]]
    BY <1>6 DEF flush
  <2>2. data' \in [0 .. limit - 1 -> Objects \cup {Null}]
    BY <1>1, <2>1 DEF TypeOK
  <2>3. TypeOK'
    BY <1>1, <1>4, <1>5, <2>1, <2>2 DEF TypeOK, limit
  <2>. QED BY <1>1, <1>2, <1>3, <2>1, <2>3 DEF Sound, NoneDangling
<1>7. CASE ~delObj(dt)
  <2>1. held' = held \cup InDeque /\ alive' = alive /\ data' = data
    BY <1>7 DEF flush
  <2>2. TypeOK'
    BY <1>1, <1>4, <1>5, <2>1 DEF TypeOK, NoneDangling, limit
  <2>. QED BY <1>1, <1>2, <2>1, <2>2 DEF Sound, NoneDangling
<1>. QED BY <1>6, <1>7

(* The other steps leave the ring alone. *)
LEMMA SoundClient ==
  ASSUME Sound,
         \/ \E del \in BOOLEAN : ownsElements(del)
         \/ \E o \in Objects : ClientDeletes(o)
         \/ UNCHANGED vars
  PROVE  Sound'
<1>1. TypeOK /\ NoneDangling
  BY DEF Sound
<1>2. UNCHANGED <<data, left, right>>
  BY DEF ownsElements, ClientDeletes, vars
<1>3. /\ getItemsInContainer' = getItemsInContainer
      /\ Contents' = Contents
      /\ InDeque' = InDeque
  BY <1>2, SameContents
<1>4. TypeOK'
  BY <1>1 DEF TypeOK, ownsElements, ClientDeletes, vars, limit
<1>5. /\ held' \subseteq alive'
      /\ InDeque \subseteq alive' \ held'
  BY <1>1 DEF NoneDangling, ownsElements, ClientDeletes, vars
<1>. QED BY <1>1, <1>3, <1>4, <1>5 DEF Sound, NoneDangling

LEMMA SoundStep == Sound /\ [Next]_vars => Sound'
BY SoundPut, SoundGet, SoundFlush, SoundClient DEF Next

(* Sound is an invariant of the ring. *)
THEOREM DequeSound == Spec => []Sound
BY SoundInit, SoundStep, PTL DEF Spec

(* Type correctness of the ring, for every capacity. *)
THEOREM DequeType == Spec => []TypeOK
<1>1. Sound => TypeOK
  BY DEF Sound
<1>. QED BY <1>1, DequeSound, PTL

(* No object of a client or of the deque is ever deleted, none is in two
   places, for every capacity and whatever the ring's stale slots hold. *)
THEOREM DequeNoneDangling == Spec => []NoneDangling
<1>1. Sound => NoneDangling
  BY DEF Sound
<1>. QED BY <1>1, DequeSound, PTL
-----------------------------------------------------------------------------
(* The sequence the ring stands for. *)
ContentsTyped ==
  /\ Contents \in Seq(Objects)
  /\ Len(Contents) = getItemsInContainer
  /\ Contents = << >> <=> getItemsInContainer = 0

LEMMA ContentsType == Sound => ContentsTyped
<1>. SUFFICES ASSUME Sound PROVE ContentsTyped
  OBVIOUS
<1>1. getItemsInContainer \in Nat
  BY Slots DEF Sound
<1>2. \A i \in Filled : Contents[i] \in Objects
  BY ObjectsAreContents DEF Sound, NoneDangling, TypeOK
<1>3. Contents = [i \in Filled |-> Contents[i]]
  BY DEF Contents, Filled
<1>4. Contents \in Seq(Objects) /\ Len(Contents) = getItemsInContainer
  BY <1>1, <1>2, <1>3 DEF Filled
<1>. QED BY <1>4, EmptySeq DEF ContentsTyped

LEMMA ContentsTypeNext == Sound' => ContentsTyped'
BY ContentsType, PTL

LEMMA PromiseInit == Init => Promise!Init
<1>. SUFFICES ASSUME Init PROVE Promise!Init
  OBVIOUS
<1>1. getItemsInContainer = 0
  BY DEF Init, getItemsInContainer
<1>2. Contents = << >>
  BY <1>1, ContentsType, SoundInit DEF ContentsTyped
<1>. QED BY <1>2 DEF Init, Promise!Init

LEMMA PromisePutLeft ==
  ASSUME Sound, Sound', NEW o \in Objects, putLeft(o)
  PROVE  Promise!PutLeft(o)
<1>1. /\ Contents \in Seq(Objects) /\ Contents' \in Seq(Objects)
      /\ Len(Contents) = getItemsInContainer
      /\ Len(Contents') = getItemsInContainer'
  BY ContentsType, ContentsTypeNext DEF ContentsTyped
<1>2. /\ getItemsInContainer' = getItemsInContainer + 1
      /\ Contents'[1] = o
      /\ \A i \in Filled : Contents'[i + 1] = Contents[i]
  BY PutLeftContents DEF Sound
<1>3. getItemsInContainer \in 0 .. MaxItems /\ getItemsInContainer # MaxItems
  BY Slots DEF Sound, putLeft
<1>4. Contents' = <<o>> \o Contents
  <2>1. <<o>> \in Seq(Objects) /\ Len(<<o>>) = 1
    OBVIOUS
  <2>2. /\ <<o>> \o Contents \in Seq(Objects)
        /\ Len(<<o>> \o Contents) = 1 + getItemsInContainer
        /\ \A i \in 1 .. 1 + getItemsInContainer :
             (<<o>> \o Contents)[i] = IF i <= 1 THEN <<o>>[i] ELSE Contents[i - 1]
    BY <1>1, <2>1, ConcatProperties
  <2>3. \A i \in 1 .. getItemsInContainer' :
          Contents'[i] = IF i <= 1 THEN o ELSE Contents[i - 1]
    <3>1. \A i \in 1 .. getItemsInContainer' :
            i = 1 \/ (i > 1 /\ i - 1 \in Filled /\ Contents'[i] = Contents[i - 1])
      BY <1>2, <1>3 DEF Filled
    <3>. QED BY <1>2, <3>1
  <2>4. \A i \in 1 .. getItemsInContainer' :
          Contents'[i] = (<<o>> \o Contents)[i]
    BY <1>2, <1>3, <2>2, <2>3
  <2>5. Len(Contents') = Len(<<o>> \o Contents)
    BY <1>1, <1>2, <1>3, <2>2
  <2>. QED BY <1>1, <2>2, <2>4, <2>5, SeqEqual
<1>5. got' = got /\ Len(Contents) < MaxItems
  BY <1>1, <1>3, DequeAssumption DEF putLeft, Gives
<1>. QED BY <1>4, <1>5 DEF Promise!PutLeft

LEMMA PromisePutRight ==
  ASSUME Sound, Sound', NEW o \in Objects, putRight(o)
  PROVE  Promise!PutRight(o)
<1>1. /\ Contents \in Seq(Objects) /\ Contents' \in Seq(Objects)
      /\ Len(Contents) = getItemsInContainer
      /\ Len(Contents') = getItemsInContainer'
  BY ContentsType, ContentsTypeNext DEF ContentsTyped
<1>2. /\ getItemsInContainer' = getItemsInContainer + 1
      /\ \A i \in Filled : Contents'[i] = Contents[i]
      /\ Contents'[getItemsInContainer + 1] = o
  BY PutRightContents DEF Sound
<1>3. getItemsInContainer \in 0 .. MaxItems /\ getItemsInContainer # MaxItems
  BY Slots DEF Sound, putRight
<1>4. Contents' = Append(Contents, o)
  <2>1. /\ Append(Contents, o) \in Seq(Objects)
        /\ Len(Append(Contents, o)) = getItemsInContainer + 1
        /\ \A i \in Filled : Append(Contents, o)[i] = Contents[i]
        /\ Append(Contents, o)[getItemsInContainer + 1] = o
    BY <1>1, AppendProperties DEF Filled
  <2>2. \A i \in 1 .. getItemsInContainer' :
          i \in Filled \/ i = getItemsInContainer + 1
    BY <1>2, <1>3 DEF Filled
  <2>3. \A i \in 1 .. getItemsInContainer' :
          Contents'[i] = Append(Contents, o)[i]
    BY <1>2, <2>1, <2>2
  <2>. QED BY <1>1, <1>2, <2>1, <2>3, SeqEqual
<1>5. got' = got /\ Len(Contents) < MaxItems
  BY <1>1, <1>3, DequeAssumption DEF putRight, Gives
<1>. QED BY <1>4, <1>5 DEF Promise!PutRight

LEMMA PromiseGetLeft ==
  ASSUME Sound, Sound', getLeft
  PROVE  Promise!GetLeft
<1>1. /\ Contents \in Seq(Objects) /\ Contents' \in Seq(Objects)
      /\ Len(Contents) = getItemsInContainer
      /\ Len(Contents') = getItemsInContainer'
      /\ Contents = << >> <=> getItemsInContainer = 0
  BY ContentsType, ContentsTypeNext DEF ContentsTyped
<1>2. /\ getItemsInContainer \in Nat \ {0}
      /\ getItemsInContainer' = getItemsInContainer - 1
      /\ got' = Contents[1]
      /\ \A i \in 1 .. getItemsInContainer - 1 : Contents'[i] = Contents[i + 1]
  BY GetLeftContents DEF Sound
<1>3. Contents # << >>
  BY <1>1, <1>2
<1>4. Contents' = Tail(Contents)
  <2>1. /\ Tail(Contents) \in Seq(Objects)
        /\ Len(Tail(Contents)) = getItemsInContainer - 1
        /\ \A i \in 1 .. Len(Tail(Contents)) : Tail(Contents)[i] = Contents[i + 1]
    BY <1>1, <1>3, HeadTailProperties
  <2>. QED BY <1>1, <1>2, <2>1, SeqEqual
<1>5. got' = Head(Contents)
  BY <1>1, <1>2, <1>3
<1>. QED BY <1>3, <1>4, <1>5 DEF Promise!GetLeft

LEMMA PromiseGetRight ==
  ASSUME Sound, Sound', getRight
  PROVE  Promise!GetRight
<1>1. /\ Contents \in Seq(Objects) /\ Contents' \in Seq(Objects)
      /\ Len(Contents) = getItemsInContainer
      /\ Len(Contents') = getItemsInContainer'
      /\ Contents = << >> <=> getItemsInContainer = 0
  BY ContentsType, ContentsTypeNext DEF ContentsTyped
<1>2. /\ getItemsInContainer \in Nat \ {0}
      /\ getItemsInContainer' = getItemsInContainer - 1
      /\ got' = Contents[getItemsInContainer]
      /\ \A i \in 1 .. getItemsInContainer - 1 : Contents'[i] = Contents[i]
  BY GetRightContents DEF Sound
<1>3. Contents' = SubSeq(Contents, 1, Len(Contents) - 1)
  <2>. DEFINE n == getItemsInContainer - 1
  <2>1. n \in Int /\ 1 \in Int
    BY <1>2
  <2>2. \A i \in 1 .. n : Contents[i] \in Objects
    BY <1>1, <1>2
  <2>3. /\ SubSeq(Contents, 1, n) \in Seq(Objects)
        /\ Len(SubSeq(Contents, 1, n)) = IF 1 <= n THEN n - 1 + 1 ELSE 0
        /\ \A i \in 1 .. n - 1 + 1 :
             SubSeq(Contents, 1, n)[i] = Contents[1 + i - 1]
    <3>. HIDE DEF n
    <3>. QED BY <2>1, <2>2, SubSeqProperties
  <2>4. Len(SubSeq(Contents, 1, n)) = n
    BY <1>2, <2>3
  <2>5. \A i \in 1 .. n : SubSeq(Contents, 1, n)[i] = Contents[i]
    BY <1>2, <2>3
  <2>. QED BY <1>1, <1>2, <2>3, <2>4, <2>5, SeqEqual
<1>. QED BY <1>1, <1>2, <1>3 DEF Promise!GetRight

LEMMA PromiseFlush ==
  ASSUME Sound', Sound, NEW dt \in DeleteTypes, flush(dt)
  PROVE  Promise!Flush
<1>1. Contents' = << >>
  BY ContentsTypeNext, FlushContents DEF Sound, ContentsTyped
<1>. QED BY <1>1 DEF flush, Promise!Flush

LEMMA PromiseStep ==
  ASSUME Sound, Sound', [Next]_vars
  PROVE  [Promise!Next]_(Promise!vars)
<1>1. CASE \E o \in Objects : putLeft(o) \/ putRight(o)
  BY <1>1, PromisePutLeft, PromisePutRight DEF Promise!Next
<1>2. CASE getLeft \/ getRight
  BY <1>2, PromiseGetLeft, PromiseGetRight DEF Promise!Next
<1>3. CASE \E dt \in DeleteTypes : flush(dt)
  BY <1>3, PromiseFlush DEF Promise!Next
<1>4. CASE \/ \E del \in BOOLEAN : ownsElements(del)
           \/ \E o \in Objects : ClientDeletes(o)
           \/ UNCHANGED vars
  <2>1. UNCHANGED <<data, left, right, got>>
    BY <1>4 DEF ownsElements, ClientDeletes, vars
  <2>. QED BY <2>1, SameContents DEF Promise!vars
<1>. QED BY <1>1, <1>2, <1>3, <1>4 DEF Next

(* The ring of every capacity implements the deque: each put, get and flush
   is that of DequeSpec on Contents, each other step a stutter. *)
THEOREM DequeImplementsSpec == Spec => IsDeque
<1>1. Sound /\ Sound' /\ [Next]_vars => [Promise!Next]_(Promise!vars)
  BY PromiseStep
<1>. QED BY <1>1, PromiseInit, DequeSound, PTL DEF Spec, IsDeque, Promise!Spec

-----------------------------------------------------------------------------
(* A walk over the ring of any capacity, over any objects and after any history
   of the ring, visits just the contents in order, as long as they do not wrap.
   All that has to be carried along a walk is where its iterator is; Sound gives
   the rest, that every slot between left and right has an object and so none
   is passed over. *)
IterType == [left : Int, right : Int, cur : Int, upper : Int, second : BOOLEAN]

(* The iterator of an unwrapped ring at slot c, and what it has returned. *)
IsAt(iter, c) ==
  /\ iter \in IterType
  /\ iter.left = left /\ iter.right = right
  /\ iter.cur = c /\ iter.upper = right
  /\ iter.second = FALSE

Visited(c) == [i \in 1 .. c - left |-> data[left + i - 1]]

OnTheWay == \E c \in left .. right : IsAt(it, c) /\ seen = Visited(c)

(* The inductive invariant. *)
WalkInv ==
  /\ Sound
  /\ walking \in BOOLEAN
  /\ walking /\ left <= right => OnTheWay

-----------------------------------------------------------------------------
(* The contents of an unwrapped ring are the slots from left to right. *)
LEMMA UnwrappedContents ==
  ASSUME Sound, left <= right
  PROVE  /\ left \in Nat /\ right \in Nat /\ right < limit
         /\ Contents = Visited(right)
         /\ \A s \in left .. right - 1 : data[s] \in Objects
<1>1. /\ left \in Nat /\ right \in Nat /\ right < limit
      /\ getItemsInContainer = right - left
  BY DequeAssumption DEF Sound, TypeOK, limit, getItemsInContainer
<1>2. \A i \in 1 .. right - left : Slot(i) = left + i - 1
  BY <1>1, DequeAssumption DEF Slot, limit
<1>3. Contents = Visited(right)
  BY <1>1, <1>2 DEF Contents, Visited
<1>4. ASSUME NEW s \in left .. right - 1
      PROVE  data[s] \in Objects
  <2>1. s - left + 1 \in Filled /\ Slot(s - left + 1) = s
    BY <1>1, <1>2 DEF Filled
  <2>2. data[s] \in InDeque
    BY <2>1 DEF InDeque, Contents, Filled
  <2>. QED BY <2>2 DEF Sound, NoneDangling, TypeOK
<1>. QED BY <1>1, <1>3, <1>4

(* No slot is null, so bump stays where it is. *)
LEMMA BumpStays ==
  ASSUME Sound, left <= right, NEW c \in left .. right, NEW iter, IsAt(iter, c)
  PROVE  IsAt(bump(iter), c)
<1>. DEFINE filled == {s \in c .. right - 1 : data[s] # Null}
            to == IF filled = {} THEN right
                  ELSE CHOOSE s \in filled : \A t \in filled : s <= t
<1>1. left \in Nat /\ right \in Nat
  BY UnwrappedContents
<1>2. filled = c .. right - 1
  BY <1>1, UnwrappedContents, DequeAssumption
<1>3. to = c
  <2>1. CASE c = right
    BY <2>1, <1>1, <1>2
  <2>2. CASE c < right
    <3>1. c \in filled /\ \A t \in filled : c <= t
      BY <2>2, <1>1, <1>2
    <3>2. \A s \in filled : (\A t \in filled : s <= t) => s = c
      BY <3>1, <1>1, <1>2
    <3>3. filled # {}
      BY <3>1
    <3>. HIDE DEF filled
    <3>. QED BY <3>1, <3>2, <3>3
  <2>. QED BY <2>1, <2>2, <1>1
<1>4. bump(iter) = [iter EXCEPT !.cur = to]
  BY DEF bump, IsAt
<1>. HIDE DEF to
<1>. QED BY <1>1, <1>3, <1>4 DEF IsAt, IterType

(* A walk begins at left. *)
LEMMA WalkStarts ==
  ASSUME WalkInv, StartWalk, left <= right
  PROVE  IsAt(it', left) /\ seen' = Visited(left)
<1>. DEFINE fresh == [NoIterator EXCEPT !.left = left, !.right = right]
            block == [fresh EXCEPT !.cur = left, !.upper = right]
<1>1. left \in Nat /\ right \in Nat
  BY UnwrappedContents DEF WalkInv
<1>2. /\ fresh \in IterType /\ fresh.left = left /\ fresh.right = right
      /\ fresh.second = FALSE
  <2>1. NoIterator \in IterType /\ NoIterator.second = FALSE
    BY DEF NoIterator, IterType
  <2>2. left \in Int /\ right \in Int
    BY <1>1
  <2>3. fresh \in IterType
    BY <2>1, <2>2 DEF IterType
  <2>4. fresh.left = left
    BY <2>1, <2>2 DEF IterType
  <2>5. fresh.right = right
    BY <2>1, <2>2 DEF IterType
  <2>6. fresh.second = FALSE
    BY <2>1, <2>2 DEF IterType
  <2>. QED BY <2>3, <2>4, <2>5, <2>6
<1>3. IsAt(block, left)
  <2>. HIDE DEF fresh
  <2>. QED BY <1>1, <1>2 DEF IsAt, IterType
<1>4. IsAt(restartBlock(fresh, left, right), left)
  <2>1. restartBlock(fresh, left, right) = bump(block)
    BY DEF restartBlock
  <2>. HIDE DEF block
  <2>. QED BY <1>1, <1>3, <2>1, BumpStays DEF WalkInv
<1>5. restart(fresh) = [restartBlock(fresh, left, right) EXCEPT !.second = FALSE]
  <2>. HIDE DEF fresh
  <2>. QED BY <1>2 DEF restart
<1>6. it' = restart(fresh)
  BY DEF StartWalk
<1>7. IsAt(it', left)
  <2>. HIDE DEF fresh
  <2>. QED BY <1>4, <1>5, <1>6 DEF IsAt, IterType
<1>8. Visited(left) = << >>
  BY <1>1 DEF Visited
<1>. QED BY <1>7, <1>8 DEF StartWalk

(* A step goes on by one slot. *)
LEMMA WalkAdvances ==
  ASSUME WalkInv, Advance, left <= right,
         NEW c \in left .. right, IsAt(it, c), seen = Visited(c)
  PROVE  /\ c + 1 \in left .. right
         /\ IsAt(it', c + 1)
         /\ seen' = Visited(c + 1)
<1>. DEFINE iter == [it EXCEPT !.cur = c + 1]
<1>1. left \in Nat /\ right \in Nat
  BY UnwrappedContents DEF WalkInv
<1>2. c < right
  BY <1>1 DEF Advance, more, IsAt
<1>3. nextBlock(it) = it
  BY <1>1 DEF nextBlock, IsAt
<1>4. seen' = Append(seen, data[c]) /\ it' = bump(iter)
  BY <1>3 DEF Advance, IsAt
<1>5. c + 1 \in left .. right
  BY <1>1, <1>2
<1>6. IsAt(iter, c + 1)
  BY <1>1 DEF IsAt, IterType
<1>7. IsAt(it', c + 1)
  <2>. HIDE DEF iter
  <2>. QED BY <1>4, <1>5, <1>6, BumpStays DEF WalkInv
<1>8. Append(Visited(c), data[c]) = Visited(c + 1)
  BY <1>1, <1>5 DEF Visited
<1>. QED BY <1>4, <1>5, <1>7, <1>8

-----------------------------------------------------------------------------
LEMMA WalkInvInit == WalkInit => WalkInv
BY SoundInit DEF WalkInit, WalkInv

LEMMA WalkInvStep == WalkInv /\ [WalkNext]_<<vars, walkVars>> => WalkInv'
<1>. SUFFICES ASSUME WalkInv, [WalkNext]_<<vars, walkVars>>
              PROVE  WalkInv'
  OBVIOUS
<1>1. Sound'
  BY SoundStep DEF WalkInv, WalkNext, StartWalk, Advance, EndWalk, vars
<1>2. CASE ~walking /\ Next /\ UNCHANGED walkVars
  BY <1>1, <1>2 DEF WalkInv, walkVars
<1>3. CASE StartWalk
  <2>1. left' = left /\ right' = right /\ data' = data
    BY <1>3 DEF StartWalk, vars
  <2>2. ASSUME left <= right
        PROVE  OnTheWay'
    <3>1. left \in left .. right
      BY <2>2, UnwrappedContents DEF WalkInv
    <3>. QED BY <2>1, <2>2, <3>1, <1>3, WalkStarts DEF OnTheWay, IsAt, Visited
  <2>. QED BY <1>1, <1>3, <2>1, <2>2 DEF WalkInv, StartWalk
<1>4. CASE Advance
  <2>1. left' = left /\ right' = right /\ data' = data /\ walking /\ walking'
    BY <1>4 DEF Advance
  <2>2. ASSUME left <= right
        PROVE  OnTheWay'
    <3>1. PICK c \in left .. right : IsAt(it, c) /\ seen = Visited(c)
      BY <2>1, <2>2 DEF WalkInv, OnTheWay
    <3>2. c + 1 \in left .. right /\ IsAt(it', c + 1) /\ seen' = Visited(c + 1)
      BY <2>2, <3>1, <1>4, WalkAdvances
    <3>3. IsAt(it, c + 1)' /\ seen' = Visited(c + 1)'
      BY <2>1, <3>2 DEF IsAt, Visited
    <3>. QED BY <2>1, <3>2, <3>3 DEF OnTheWay
  <2>. QED BY <1>1, <2>1, <2>2 DEF WalkInv
<1>5. CASE EndWalk
  BY <1>1, <1>5 DEF WalkInv, EndWalk
<1>6. CASE UNCHANGED <<vars, walkVars>>
  BY <1>1, <1>6 DEF WalkInv, OnTheWay, IsAt, Visited, vars, walkVars
<1>. QED BY <1>2, <1>3, <1>4, <1>5, <1>6 DEF WalkNext

(* What has been visited is the beginning of the contents, and at the end of
   the walk all of them. *)
LEMMA WalkInvImplies == WalkInv => WalksUnwrapped
<1>. SUFFICES ASSUME WalkInv, walking, left <= right
              PROVE  /\ IsPrefix(seen, Contents)
                     /\ ~more(it) => seen = Contents
  BY DEF WalksUnwrapped
<1>1. PICK c \in left .. right : IsAt(it, c) /\ seen = Visited(c)
  BY DEF WalkInv, OnTheWay
<1>2. left \in Nat /\ right \in Nat /\ Contents = Visited(right)
  BY UnwrappedContents DEF WalkInv
<1>3. \A d \in left .. right : /\ Visited(d) \in Seq({data[s] : s \in left .. right - 1})
                               /\ Len(Visited(d)) = d - left
  <2>. TAKE d \in left .. right
  <2>1. d - left \in Nat
    BY <1>2
  <2>2. \A i \in 1 .. d - left : data[left + i - 1] \in {data[s] : s \in left .. right - 1}
    BY <1>2
  <2>. QED BY <2>1, <2>2 DEF Visited
<1>4. SubSeq(Visited(right), 1, c - left) = Visited(c)
  <2>1. c - left \in Nat /\ c - left <= right - left
    BY <1>2
  <2>. QED BY <1>2, <1>3, <2>1 DEF Visited
<1>5. SubSeq(Visited(c), 1, c - left) = Visited(c)
  BY <1>2, <1>3 DEF Visited
<1>6. IsPrefix(seen, Contents)
  <2>1. c \in left .. right /\ right \in left .. right /\ c - left <= right - left
    BY <1>2
  <2>2. Len(seen) = c - left /\ Len(Contents) = right - left
    BY <1>1, <1>2, <1>3, <2>1
  <2>. QED BY <1>1, <1>2, <1>4, <1>5, <2>1, <2>2 DEF IsPrefix
<1>7. ~more(it) => c = right
  BY <1>1, <1>2 DEF more, IsAt
<1>. QED BY <1>1, <1>2, <1>6, <1>7

(* A walk of a ring that does not wrap visits its objects, from left to right,
   and all of them (restart and operator ++ of the iterator). *)
THEOREM WalksAreRight == WalkSpec => []WalksUnwrapped
BY WalkInvInit, WalkInvStep, WalkInvImplies, PTL DEF WalkSpec
=============================================================================
