--------------------------- MODULE VectorsProofs ----------------------------
(***************************************************************************)
(* Arrays, bags, sets and sorted arrays of every size, growth and objects: *)
(* no write past the vector, no object in two slots, dangling or pushed    *)
(* out by an add.  What the searches answer does not matter for this, only *)
(* that it is an index; that they answer rightly is proved at the end.     *)
(***************************************************************************)
EXTENDS Vectors, Induction

-----------------------------------------------------------------------------
(* The inductive invariant. *)
Typed ==
  /\ kind \in {"array", "bag", "set", "sorted"}
  /\ lim \in Nat /\ delta \in Nat /\ count \in Nat /\ found \in Nat
  /\ lower \in Nat /\ upper \in Nat
  /\ data \in [0 .. lim - 1 -> Objects \cup {Null}]
  /\ kind \in {"bag", "set"} => delta = 1
  /\ kind # "array" => count <= MaxSize

VInv == Typed /\ Packed /\ NoneDangling

LEMMA ConstantsAreNumbers ==
  /\ UIntMax \in Nat /\ UIntMax > 0
  /\ MaxSize \in Nat /\ 2 * MaxSize <= UIntMax
  /\ Null \notin Objects
  /\ \A o \in Objects : value[o] \in Int
BY UIntAssumption, ObjectsAssumption, VectorsAssumption DEF Null

-----------------------------------------------------------------------------
(* A vector grows to what it is asked for unless it must not grow. *)
LEMMA RoundedUp ==
  ASSUME NEW d \in Nat \ {0}, NEW sz \in Nat
  PROVE  /\ ((sz + d) \div d) * d \in Nat
         /\ ((sz + d) \div d) * d >= sz
<1>. DEFINE q == (sz + d) \div d
            r == (sz + d) % d
<1>1. q \in Int /\ r \in 0 .. d - 1 /\ sz + d = d * q + r
  OBVIOUS
<1>. HIDE DEF q, r
<1>2. q * d \in Int /\ d * q = q * d
  BY <1>1
<1>3. q * d >= sz
  BY <1>1, <1>2
<1>. QED BY <1>2, <1>3 DEF q

LEMMA ResizedIsEnough ==
  ASSUME lim \in Nat, delta \in Nat, NEW size \in Nat
  PROVE  /\ Resized(size) \in Nat
         /\ Resized(size) >= lim
         /\ delta # 0 \/ size <= lim => Resized(size) >= size
<1>1. CASE size <= lim \/ delta = 0
  BY <1>1 DEF Resized
<1>2. CASE ~(size <= lim \/ delta = 0)
  <2>1. size - lim \in Nat /\ delta \in Nat \ {0}
    BY <1>2
  <2>2. nextDelta(size - lim) \in Nat /\ nextDelta(size - lim) >= size - lim
    BY <2>1, RoundedUp DEF nextDelta
  <2>. QED BY <1>2, <2>1, <2>2 DEF Resized
<1>. QED BY <1>1, <1>2

(* Put stays inside a vector that can grow or is long enough. *)
LEMMA PutInside ==
  ASSUME VInv, NEW o \in Objects, NEW loc \in Nat, delta # 0 \/ loc < lim,
         Put(o, loc, loc + 1)
  PROVE  \E l \in Nat :
           /\ lim' = l /\ l >= lim /\ loc < l
           /\ data' = [i \in 0 .. l - 1 |-> IF i = loc THEN o
                                            ELSE IF i < lim THEN data[i] ELSE Null]
<1>1. lim \in Nat /\ delta \in Nat
  BY DEF VInv, Typed
<1>2. PICK l \in Nat : lim' = l /\ l >= lim /\ l >= loc + 1
  BY <1>1, ResizedIsEnough DEF Put
<1>3. (0 .. l - 1) \cup {loc} = 0 .. l - 1
  BY <1>2
<1>. QED BY <1>1, <1>2, <1>3 DEF Put, Grown

(* The slot AddLast takes: all from the count up to it are in use. *)
LEMMA FirstFreeIsFree ==
  ASSUME VInv
  PROVE  /\ FirstFree \in count .. lim
         /\ FirstFree < lim => data[FirstFree] = Null
         /\ \A j \in 0 .. FirstFree - 1 : data[j] # Null
<1>. DEFINE Free == {i \in count .. lim - 1 : data[i] = Null}
<1>1. lim \in Nat /\ count \in Nat /\ count <= lim
  BY DEF VInv, Typed, Packed
<1>2. \A j \in 0 .. count - 1 : data[j] # Null
  BY DEF VInv, Packed
<1>3. CASE Free # {}
  <2>1. PICK m \in Free : \A y \in Free : m <= y
    <3>1. Free \in SUBSET Nat
      BY <1>1
    <3>. HIDE DEF Free
    <3>. QED BY <1>3, <3>1, Least
  <2>2. m \in count .. lim - 1 /\ data[m] = Null /\ \A j \in count .. m - 1 : data[j] # Null
    BY <1>1, <2>1
  <2>3. FirstFree = CHOOSE i \in count .. lim - 1 :
                      data[i] = Null /\ \A j \in count .. i - 1 : data[j] # Null
    BY <1>3 DEF FirstFree
  <2>4. /\ FirstFree \in count .. lim - 1
        /\ data[FirstFree] = Null
        /\ \A j \in count .. FirstFree - 1 : data[j] # Null
    BY <2>2, <2>3
  <2>. QED BY <1>1, <1>2, <2>4
<1>4. CASE Free = {}
  <2>1. FirstFree = lim
    BY <1>1, <1>4 DEF FirstFree
  <2>. QED BY <1>1, <1>2, <1>4, <2>1
<1>. QED BY <1>3, <1>4

-----------------------------------------------------------------------------
(* find of an array, bag or set answers an index, and UINT_MAX only where a set
   has no equal. *)
LEMMA LinearFindIsIndex ==
  ASSUME VInv, NEW v
  PROVE  /\ LinearFind(v) \in Nat
         /\ kind = "set" /\ LinearFind(v) = UIntMax =>
              \A i \in 0 .. lim - 1 : ~IsEqual(i, v)
<1>. DEFINE Equals == {i \in 0 .. lim - 1 : IsEqual(i, v)}
<1>1. CASE Equals = {}
  BY <1>1, ConstantsAreNumbers DEF LinearFind
<1>2. CASE Equals # {}
  <2>1. PICK m \in Equals : \A y \in Equals : m <= y
    <3>1. Equals \in SUBSET Nat
      OBVIOUS
    <3>. HIDE DEF Equals
    <3>. QED BY <1>2, <3>1, Least
  <2>2. m \in 0 .. lim - 1 /\ IsEqual(m, v) /\ \A j \in 0 .. m - 1 : ~IsEqual(j, v)
    BY <2>1 DEF VInv, Typed
  <2>3. LinearFind(v) = CHOOSE i \in 0 .. lim - 1 :
                          IsEqual(i, v) /\ \A j \in 0 .. i - 1 : ~IsEqual(j, v)
    BY <1>2 DEF LinearFind
  <2>4. LinearFind(v) \in 0 .. lim - 1 /\ IsEqual(LinearFind(v), v)
    BY <2>2, <2>3
  <2>5. kind = "set" => LinearFind(v) < count /\ count <= MaxSize
    BY <2>4 DEF VInv, Typed, Packed, IsEqual
  <2>. QED BY <2>4, <2>5, ConstantsAreNumbers DEF VInv, Typed
<1>. QED BY <1>1, <1>2

(* What an add leaves alone. *)
SameKind == UNCHANGED <<kind, delta, found, lower, upper>>

(* AddLast: into a free slot or a new one, behind those in use. *)
LEMMA AddLastKeeps ==
  ASSUME VInv, NEW o \in Objects, o \notin Contained, HasRoom, kind # "sorted",
         kind = "set" => \A i \in 0 .. lim - 1 : ~IsEqual(i, value[o]),
         AddLast(o), live' = live \cup {o}, SameKind
  PROVE  VInv' /\ Contained \subseteq Contained'
<1>1. /\ lim \in Nat /\ count \in Nat /\ count <= lim /\ delta \in Nat
      /\ data \in [0 .. lim - 1 -> Objects \cup {Null}]
      /\ \A i \in 0 .. lim - 1 : data[i] # o
  <2>1. /\ lim \in Nat /\ count \in Nat /\ count <= lim /\ delta \in Nat
        /\ data \in [0 .. lim - 1 -> Objects \cup {Null}]
    BY DEF VInv, Typed, Packed
  <2>2. \A i \in 0 .. lim - 1 : data[i] # o
    BY <2>1, ConstantsAreNumbers DEF Contained
  <2>. QED BY <2>1, <2>2
<1>f. PICK f \in Nat : FirstFree = f
  BY <1>1, FirstFreeIsFree
<1>2. /\ f \in count .. lim
      /\ f < lim => data[f] = Null
      /\ \A j \in 0 .. f - 1 : data[j] # Null
  BY <1>f, FirstFreeIsFree
<1>3. kind # "array" => f = count
  BY <1>1, <1>2 DEF VInv, Typed, Packed
<1>4. delta # 0 \/ f < lim
  BY <1>f, <1>1, <1>2 DEF HasRoom, VInv, Typed
<1>5. PICK l \in Nat :
        /\ lim' = l /\ l >= lim /\ f < l
        /\ data' = [i \in 0 .. l - 1 |-> IF i = f THEN o
                                         ELSE IF i < lim THEN data[i] ELSE Null]
  BY <1>f, <1>4, PutInside DEF AddLast
<1>6. count' = f + 1
  BY <1>f DEF AddLast
<1>7. Typed'
  <2>1. data' \in [0 .. l - 1 -> Objects \cup {Null}]
    BY <1>1, <1>5
  <2>2. kind # "array" => count' <= MaxSize
    BY <1>1, <1>3, <1>6, ConstantsAreNumbers DEF HasRoom
  <2>. QED BY <2>1, <2>2, <1>4, <1>5, <1>6 DEF VInv, Typed, SameKind
<1>8. Packed'
  <2>1. DOMAIN data' = 0 .. l - 1 /\ count' <= l
    BY <1>4, <1>5, <1>6
  <2>2. \A i, j \in 0 .. l - 1 : data'[i] = data'[j] /\ data'[i] # Null => i = j
    BY <1>1, <1>5, ConstantsAreNumbers DEF VInv, Packed
  <2>3. ASSUME NEW i \in 0 .. f
        PROVE  data'[i] # Null
    <3>1. i \in 0 .. l - 1 /\ (i = f \/ i \in 0 .. f - 1)
      BY <1>4, <1>5, <1>6
    <3>2. CASE i = f
      BY <1>5, <3>1, <3>2, ConstantsAreNumbers
    <3>3. CASE i \in 0 .. f - 1
      BY <1>1, <1>2, <1>4, <1>5, <3>1, <3>3
    <3>. QED BY <3>1, <3>2, <3>3
  <2>4. kind' # "array" => \A i \in f + 1 .. l - 1 : data'[i] = Null
    BY <1>1, <1>3, <1>5, <1>6 DEF VInv, Packed, SameKind
  <2>5. ASSUME kind' = "set", NEW i \in 0 .. f, NEW j \in 0 .. f,
               value[data'[i]] = value[data'[j]]
        PROVE  i = j
    <3>1. kind = "set" /\ f = count
      BY <2>5, <1>3 DEF SameKind
    <3>2. \A k \in 0 .. count - 1 : data[k] # Null /\ value[data[k]] # value[o]
      BY <3>1, <1>1 DEF VInv, Packed, IsEqual
    <3>3. \A k \in 0 .. f :
            /\ k < count => data'[k] = data[k]
            /\ ~(k < count) => k = count /\ data'[k] = o
      BY <1>1, <1>4, <1>5, <1>6, <3>1
    <3>4. i < count <=> j < count
      BY <2>5, <3>2, <3>3, <1>1, <1>6, <3>1
    <3>5. CASE i < count
      <4>1. i \in 0 .. count - 1 /\ j \in 0 .. count - 1
        BY <3>4, <3>5, <1>1, <1>6, <3>1
      <4>2. value[data[i]] = value[data[j]]
        BY <2>5, <3>3, <4>1
      <4>. QED BY <4>1, <4>2, <3>1 DEF VInv, Packed
    <3>. QED BY <3>3, <3>4, <3>5
  <2>6. kind' # "sorted"
    BY DEF SameKind
  <2>7. count' - 1 = f /\ lim' - 1 = l - 1
    BY <1>5, <1>6
  <2>8. /\ DOMAIN data' = 0 .. lim' - 1
        /\ \A i, j \in DOMAIN data' : data'[i] = data'[j] /\ data'[i] # Null => i = j
        /\ count' <= lim'
        /\ \A i \in 0 .. count' - 1 : data'[i] # Null
    BY <2>1, <2>2, <2>3, <2>7, <1>5
  <2>9. kind' # "array" => \A i \in count' .. lim' - 1 : data'[i] = Null
    BY <2>4, <2>7, <1>6
  <2>10. kind' = "set" => \A i, j \in 0 .. count' - 1 :
                            value[data'[i]] = value[data'[j]] => i = j
    BY <2>5, <2>7
  <2>. QED BY <2>6, <2>8, <2>9, <2>10 DEF Packed
<1>9. Contained' = Contained \cup {o}
  <2>1. ASSUME NEW i \in 0 .. lim - 1, data[i] # Null
        PROVE  i \in 0 .. l - 1 /\ data'[i] = data[i]
    BY <2>1, <1>1, <1>2, <1>5
  <2>2. ASSUME NEW i \in 0 .. l - 1, data'[i] # Null, data'[i] # o
        PROVE  i \in 0 .. lim - 1 /\ data'[i] = data[i]
    BY <2>2, <1>1, <1>5
  <2>3. f \in 0 .. l - 1 /\ data'[f] = o /\ o # Null
    BY <1>5, ConstantsAreNumbers
  <2>4. DOMAIN data = 0 .. lim - 1 /\ DOMAIN data' = 0 .. l - 1
    BY <1>1, <1>5
  <2>. QED BY <2>1, <2>2, <2>3, <2>4 DEF Contained
<1>10. NoneDangling'
  BY <1>9 DEF VInv, NoneDangling
<1>. QED BY <1>7, <1>8, <1>9, <1>10 DEF VInv

(* AddSorted goes behind all that are not greater, which are the first. *)
LEMMA PlaceInOrder ==
  ASSUME VInv, kind = "sorted", NEW o \in Objects
  PROVE  \E p \in Nat :
           /\ Place(o) = p /\ p <= count
           /\ \A i \in 0 .. p - 1 : value[data[i]] <= value[o]
           /\ \A i \in p .. count - 1 : value[data[i]] > value[o]
<1>. DEFINE U == {i \in 0 .. count - 1 : value[data[i]] <= value[o]}
<1>1. /\ count \in Nat /\ value[o] \in Int
      /\ \A i \in 0 .. count - 1 : value[data[i]] \in Int
      /\ \A i, j \in 0 .. count - 1 : i <= j => value[data[i]] <= value[data[j]]
  BY ConstantsAreNumbers DEF VInv, Typed, Packed, InOrder, InUse
<1>2. U \in SUBSET Nat /\ U \in SUBSET (0 .. count - 1)
  BY <1>1
<1>3. IsFiniteSet(U)
  <2>1. 0 \in Int /\ count - 1 \in Int
    BY <1>1
  <2>. HIDE DEF U
  <2>. QED BY <1>2, <2>1, FS_Interval, FS_Subset
<1>4. ASSUME NEW i \in U, NEW j \in 0 .. i
      PROVE  j \in U
  <2>1. i \in 0 .. count - 1 /\ j \in 0 .. count - 1 /\ j <= i
    BY <1>1
  <2>2. value[data[j]] <= value[data[i]] /\ value[data[i]] <= value[o]
    BY <1>1, <2>1
  <2>. QED BY <1>1, <2>1, <2>2
<1>5. PICK p \in Nat : Place(o) = p /\ U = 0 .. p - 1
  <2>1. Place(o) = Cardinality(U)
    BY DEF Place
  <2>. HIDE DEF U
  <2>. QED BY <1>2, <1>3, <1>4, <2>1, DownClosed
<1>6. p <= count
  <2>. HIDE DEF U
  <2>. QED BY <1>1, <1>2, <1>5
<1>7. \A i \in 0 .. p - 1 : value[data[i]] <= value[o]
  BY <1>5
<1>8. \A i \in p .. count - 1 : value[data[i]] > value[o]
  BY <1>1, <1>5
<1>. QED BY <1>5, <1>6, <1>7, <1>8

LEMMA AddSortedKeeps ==
  ASSUME VInv, NEW o \in Objects, o \notin Contained, HasRoom, kind = "sorted",
         AddSorted(o), live' = live \cup {o}, SameKind
  PROVE  VInv' /\ Contained \subseteq Contained'
<1>1. /\ lim \in Nat /\ count \in Nat /\ count <= lim /\ delta \in Nat
      /\ data \in [0 .. lim - 1 -> Objects \cup {Null}]
      /\ count < MaxSize
      /\ delta # 0 \/ count < lim
  BY ConstantsAreNumbers DEF VInv, Typed, Packed, HasRoom, isFull
<1>2. /\ \A i \in 0 .. count - 1 : data[i] \in Objects
      /\ \A i \in count .. lim - 1 : data[i] = Null
      /\ \A i, j \in 0 .. count - 1 : data[i] = data[j] => i = j
      /\ \A i, j \in 0 .. count - 1 : i <= j => value[data[i]] <= value[data[j]]
      /\ \A i \in 0 .. lim - 1 : data[i] # o
  <2>1. /\ \A i \in 0 .. count - 1 : data[i] \in Objects
        /\ \A i, j \in 0 .. count - 1 : i <= j => value[data[i]] <= value[data[j]]
    BY DEF VInv, Packed, InOrder, InUse
  <2>2. \A i \in count .. lim - 1 : data[i] = Null
    BY DEF VInv, Packed
  <2>3. \A i, j \in 0 .. count - 1 : data[i] = data[j] => i = j
    BY <1>1, <2>1, ConstantsAreNumbers DEF VInv, Packed
  <2>4. \A i \in 0 .. lim - 1 : data[i] # o
    BY <1>1, ConstantsAreNumbers DEF Contained
  <2>. QED BY <2>1, <2>2, <2>3, <2>4
<1>3. PICK p \in Nat :
        /\ Place(o) = p /\ p <= count
        /\ \A i \in 0 .. p - 1 : value[data[i]] <= value[o]
        /\ \A i \in p .. count - 1 : value[data[i]] > value[o]
  BY PlaceInOrder
<1>4. PICK l \in Nat : lim' = l /\ l >= lim /\ count < l
  <2>1. lim' = Resized(count + 1)
    BY DEF AddSorted
  <2>. QED BY <1>1, <2>1, ResizedIsEnough
<1>5. count' = count + 1
  BY DEF AddSorted
<1>6. data' = [i \in 0 .. l - 1 |->
                 IF i = p THEN o
                 ELSE IF i > p /\ i <= count THEN data[i - 1]
                 ELSE IF i < lim THEN data[i] ELSE Null]
  BY <1>1, <1>3, <1>4 DEF AddSorted, Grown
<1>7. /\ \A i \in 0 .. p - 1 : i \in 0 .. count - 1 /\ data'[i] = data[i]
      /\ data'[p] = o
      /\ \A i \in p + 1 .. count : i - 1 \in p .. count - 1 /\ data'[i] = data[i - 1]
      /\ \A i \in count + 1 .. l - 1 : data'[i] = Null
      /\ DOMAIN data' = 0 .. l - 1
  BY <1>1, <1>2, <1>3, <1>4, <1>6
<1>8. data' \in [0 .. l - 1 -> Objects \cup {Null}]
  BY <1>1, <1>2, <1>3, <1>4, <1>6
<1>9. Typed'
  BY <1>1, <1>4, <1>5, <1>8, ConstantsAreNumbers DEF VInv, Typed, SameKind
<1>10. \A i \in 0 .. count : data'[i] \in Objects
  <2>. TAKE i \in 0 .. count
  <2>1. i \in 0 .. p - 1 \/ i = p \/ i \in p + 1 .. count
    BY <1>1, <1>3
  <2>. QED BY <1>1, <1>2, <1>3, <1>7, <2>1
<1>11. \A i, j \in 0 .. count : data'[i] = data'[j] => i = j
  <2>. TAKE i, j \in 0 .. count
  <2>1. /\ i \in 0 .. p - 1 \/ i = p \/ i \in p + 1 .. count
        /\ j \in 0 .. p - 1 \/ j = p \/ j \in p + 1 .. count
    BY <1>1, <1>3
  <2>. QED BY <1>1, <1>2, <1>3, <1>7, <2>1
<1>12. \A i, j \in 0 .. count : i <= j => value[data'[i]] <= value[data'[j]]
  <2>. TAKE i, j \in 0 .. count
  <2>1. /\ i \in 0 .. p - 1 \/ i = p \/ i \in p + 1 .. count
        /\ j \in 0 .. p - 1 \/ j = p \/ j \in p + 1 .. count
    BY <1>1, <1>3
  <2>2. /\ value[o] \in Int
        /\ \A k \in 0 .. count - 1 : value[data[k]] \in Int
    BY <1>2, ConstantsAreNumbers
  <2>3. CASE i \in 0 .. p - 1
    <3>1. value[data'[i]] = value[data[i]] /\ i \in 0 .. count - 1 /\ value[data[i]] <= value[o]
      BY <1>3, <1>7, <2>3
    <3>2. CASE j \in 0 .. p - 1
      BY <1>2, <1>7, <3>1, <3>2
    <3>3. CASE j = p
      BY <1>7, <3>1, <3>3
    <3>4. CASE j \in p + 1 .. count
      <4>1. /\ j - 1 \in 0 .. count - 1 /\ i <= j - 1
            /\ value[data'[j]] = value[data[j - 1]]
        BY <1>1, <1>3, <1>7, <2>3, <3>4
      <4>. QED BY <1>2, <3>1, <4>1
    <3>. QED BY <2>1, <3>2, <3>3, <3>4
  <2>4. CASE i = p
    <3>1. value[data'[i]] = value[o]
      BY <1>7, <2>4
    <3>2. CASE j \in 0 .. p - 1
      BY <1>3, <2>4, <3>2
    <3>3. CASE j = p
      BY <1>7, <2>2, <3>1, <3>3
    <3>4. CASE j \in p + 1 .. count
      <4>1. /\ j - 1 \in p .. count - 1 /\ j - 1 \in 0 .. count - 1
            /\ value[data'[j]] = value[data[j - 1]]
        BY <1>1, <1>3, <1>7, <3>4
      <4>. QED BY <1>3, <2>2, <3>1, <4>1
    <3>. QED BY <2>1, <3>2, <3>3, <3>4
  <2>5. CASE i \in p + 1 .. count
    <3>1. /\ i - 1 \in 0 .. count - 1
          /\ value[data'[i]] = value[data[i - 1]]
      BY <1>1, <1>3, <1>7, <2>5
    <3>2. CASE j \in p + 1 .. count
      <4>1. /\ j - 1 \in 0 .. count - 1
            /\ value[data'[j]] = value[data[j - 1]]
        BY <1>1, <1>3, <1>7, <3>2
      <4>2. i <= j => i - 1 <= j - 1
        BY <1>1, <1>3
      <4>. QED BY <1>2, <3>1, <4>1, <4>2
    <3>3. CASE j \notin p + 1 .. count
      BY <1>3, <2>1, <2>5, <3>3
    <3>. QED BY <3>2, <3>3
  <2>. QED BY <2>1, <2>3, <2>4, <2>5
<1>13. count' - 1 = count /\ lim' - 1 = l - 1
  BY <1>1, <1>4, <1>5
<1>14. InOrder'
  <2>1. count' \in Nat /\ 2 * count' <= UIntMax
    BY <1>1, <1>5, ConstantsAreNumbers
  <2>2. \A i \in 0 .. count : i \in 0 .. l - 1
    BY <1>1, <1>4
  <2>. QED BY <1>7, <1>10, <1>12, <1>13, <2>1, <2>2 DEF InOrder, InUse
<1>15. Packed'
  <2>1. \A i, j \in 0 .. l - 1 : data'[i] = data'[j] /\ data'[i] # Null => i = j
    <3>. TAKE i, j \in 0 .. l - 1
    <3>1. /\ i \in 0 .. count \/ i \in count + 1 .. l - 1
          /\ j \in 0 .. count \/ j \in count + 1 .. l - 1
      BY <1>1
    <3>. QED BY <1>7, <1>11, <3>1
  <2>2. DOMAIN data' = 0 .. lim' - 1 /\ count' <= lim'
    BY <1>1, <1>4, <1>5, <1>7
  <2>3. /\ \A i \in 0 .. count' - 1 : data'[i] # Null
        /\ \A i \in count' .. lim' - 1 : data'[i] = Null
    BY <1>5, <1>7, <1>10, <1>13, ConstantsAreNumbers
  <2>4. \A i, j \in DOMAIN data' : data'[i] = data'[j] /\ data'[i] # Null => i = j
    BY <1>7, <2>1
  <2>5. kind' = "sorted"
    BY DEF SameKind
  <2>. QED BY <1>14, <2>2, <2>3, <2>4, <2>5 DEF Packed
<1>16. Contained \subseteq Contained' /\ Contained' \subseteq Contained \cup {o}
  <2>1. DOMAIN data = 0 .. lim - 1
    BY <1>1
  <2>2. ASSUME NEW i \in 0 .. lim - 1, data[i] # Null
        PROVE  \E j \in 0 .. l - 1 : data'[j] = data[i]
    <3>1. i \in 0 .. count - 1
      BY <1>1, <1>2, <2>2
    <3>2. CASE i < p
      BY <1>1, <1>4, <1>7, <3>1, <3>2
    <3>3. CASE ~(i < p)
      <4>1. i + 1 \in p + 1 .. count /\ (i + 1) - 1 = i /\ i + 1 \in 0 .. l - 1
        BY <1>1, <1>3, <1>4, <3>1, <3>3
      <4>. QED BY <1>7, <4>1
    <3>. QED BY <3>2, <3>3
  <2>3. ASSUME NEW i \in 0 .. l - 1, data'[i] # Null, data'[i] # o
        PROVE  \E j \in 0 .. lim - 1 : data[j] = data'[i]
    <3>1. i \in 0 .. p - 1 \/ i \in p + 1 .. count
      BY <1>1, <1>3, <1>7, <2>3
    <3>. QED BY <1>1, <1>3, <1>7, <3>1
  <2>4. DOMAIN data' = 0 .. l - 1
    BY <1>7
  <2>5. Contained \subseteq Contained'
    BY <2>1, <2>2, <2>4 DEF Contained
  <2>6. Contained' \subseteq Contained \cup {o}
    BY <2>1, <2>3, <2>4 DEF Contained
  <2>. QED BY <2>5, <2>6
<1>17. NoneDangling'
  BY <1>16 DEF VInv, NoneDangling
<1>. QED BY <1>9, <1>15, <1>16, <1>17 DEF VInv

-----------------------------------------------------------------------------
(* A step that leaves the vector and the objects as they are. *)
LEMMA SameVector ==
  ASSUME VInv, UNCHANGED <<data, count, live, kind, lim, delta>>,
         found' \in Nat, lower' \in Nat, upper' \in Nat
  PROVE  VInv'
<1>1. Typed'
  BY DEF VInv, Typed
<1>2. Packed' /\ NoneDangling'
  BY DEF VInv, Packed, NoneDangling, Contained, InOrder, InUse
<1>. QED BY <1>1, <1>2 DEF VInv

LEMMA AddAtKeeps ==
  ASSUME VInv, NEW o \in Objects, NEW loc \in Nat, o \notin Contained, kind = "array",
         loc < lim \/ delta # 0, Put(o, loc, loc + 1), live' = live \cup {o},
         count' = count, SameKind
  PROVE  VInv'
<1>1. /\ lim \in Nat /\ count \in Nat /\ count <= lim
      /\ data \in [0 .. lim - 1 -> Objects \cup {Null}]
  BY DEF VInv, Typed, Packed
<1>2. \A i \in 0 .. lim - 1 : data[i] # o
  BY <1>1, ConstantsAreNumbers DEF Contained
<1>3. PICK l \in Nat :
        /\ lim' = l /\ l >= lim /\ loc < l
        /\ data' = [i \in 0 .. l - 1 |-> IF i = loc THEN o
                                         ELSE IF i < lim THEN data[i] ELSE Null]
  BY PutInside
<1>4. data' \in [0 .. l - 1 -> Objects \cup {Null}]
  BY <1>1, <1>3
<1>5. Typed'
  BY <1>1, <1>3, <1>4 DEF VInv, Typed, SameKind
<1>6. Packed'
  <2>1. \A i, j \in 0 .. l - 1 : data'[i] = data'[j] /\ data'[i] # Null => i = j
    BY <1>1, <1>2, <1>3, ConstantsAreNumbers DEF VInv, Packed
  <2>2. \A i \in 0 .. count - 1 : data'[i] # Null
    BY <1>1, <1>3, ConstantsAreNumbers DEF VInv, Packed
  <2>3. DOMAIN data' = 0 .. lim' - 1 /\ count' <= lim'
    BY <1>1, <1>3
  <2>4. \A i, j \in DOMAIN data' : data'[i] = data'[j] /\ data'[i] # Null => i = j
    BY <1>3, <2>1
  <2>5. kind' = "array"
    BY DEF SameKind
  <2>. QED BY <2>2, <2>3, <2>4, <2>5 DEF Packed
<1>7. Contained' \subseteq Contained \cup {o}
  <2>1. ASSUME NEW i \in 0 .. l - 1, data'[i] # Null, data'[i] # o
        PROVE  i \in 0 .. lim - 1 /\ data'[i] = data[i]
    BY <2>1, <1>1, <1>3
  <2>2. DOMAIN data = 0 .. lim - 1 /\ DOMAIN data' = 0 .. l - 1
    BY <1>1, <1>3
  <2>. QED BY <2>1, <2>2 DEF Contained
<1>8. NoneDangling'
  BY <1>7 DEF VInv, NoneDangling
<1>. QED BY <1>5, <1>6, <1>8 DEF VInv

(* detach takes out one object, and the rest stay as they are in order. *)
LEMMA DetachKeeps ==
  ASSUME VInv, NEW loc \in Nat, NEW del, DetachAt(loc, del),
         UNCHANGED <<kind, lim, delta>>,
         found' \in Nat, lower' \in Nat, upper' \in Nat
  PROVE  VInv' /\ count' <= count
<1>1. /\ lim \in Nat /\ count \in Nat /\ count <= lim
      /\ data \in [0 .. lim - 1 -> Objects \cup {Null}]
  BY DEF VInv, Typed, Packed
<1>2. CASE loc >= lim
  <2>1. UNCHANGED <<data, count, live>>
    BY <1>2 DEF DetachAt
  <2>. QED BY <1>1, <2>1, SameVector
<1>3. CASE loc < lim /\ loc >= count
  <2>1. /\ data' = [data EXCEPT ![loc] = Null]
        /\ count' = count
        /\ live \ {data[loc]} \subseteq live'
    BY <1>1, <1>3 DEF DetachAt
  <2>2. /\ data' \in [0 .. lim - 1 -> Objects \cup {Null}]
        /\ data'[loc] = Null
        /\ \A i \in 0 .. lim - 1 : i # loc => data'[i] = data[i]
    BY <1>1, <1>3, <2>1
  <2>3. Typed'
    BY <1>1, <2>1, <2>2 DEF VInv, Typed
  <2>4. \A i \in 0 .. count - 1 : data'[i] = data[i]
    BY <1>1, <1>3, <2>2
  <2>5. Packed'
    <3>1. DOMAIN data' = 0 .. lim' - 1 /\ count' <= lim'
      BY <1>1, <2>1, <2>2
    <3>2. \A i, j \in DOMAIN data' : data'[i] = data'[j] /\ data'[i] # Null => i = j
      BY <1>1, <2>2, <3>1 DEF VInv, Packed
    <3>3. \A i \in 0 .. count - 1 : data'[i] # Null
      BY <2>4 DEF VInv, Packed
    <3>4. kind # "array" => \A i \in count .. lim - 1 : data'[i] = Null
      BY <1>1, <2>2 DEF VInv, Packed
    <3>5. kind = "sorted" => InOrder'
      BY <1>1, <2>1, <2>2, <2>4 DEF VInv, Packed, InOrder, InUse
    <3>6. kind = "set" => \A i, j \in 0 .. count - 1 :
                            value[data'[i]] = value[data'[j]] => i = j
      BY <2>4 DEF VInv, Packed
    <3>. QED BY <2>1, <3>1, <3>2, <3>3, <3>4, <3>5, <3>6 DEF Packed
  <2>6. Contained' \subseteq Contained \ {data[loc]}
    <3>1. DOMAIN data' = 0 .. lim - 1 /\ DOMAIN data = 0 .. lim - 1
      BY <1>1, <2>2
    <3>2. ASSUME NEW i \in 0 .. lim - 1, data'[i] # Null
          PROVE  data'[i] = data[i] /\ data[i] # data[loc]
      BY <1>1, <1>3, <2>2, <3>2 DEF VInv, Packed
    <3>. QED BY <3>1, <3>2 DEF Contained
  <2>7. NoneDangling'
    BY <2>1, <2>6 DEF VInv, NoneDangling
  <2>. QED BY <1>1, <2>1, <2>3, <2>5, <2>7 DEF VInv
<1>4. CASE loc < count
  <2>1. /\ data' = [i \in 0 .. lim - 1 |->
                      IF i = count - 1 THEN Null
                      ELSE IF i \in loc .. count - 2 THEN data[i + 1] ELSE data[i]]
        /\ count' = count - 1
        /\ live \ {data[loc]} \subseteq live'
    BY <1>1, <1>4 DEF DetachAt
  <2>c. PICK c \in Nat : c = count - 1
    BY <1>1, <1>4
  <2>d. count' = c /\ count = c + 1 /\ loc <= c /\ c < lim
    BY <1>1, <1>4, <2>1, <2>c
  <2>2. /\ data' \in [0 .. lim - 1 -> Objects \cup {Null}]
        /\ \A i \in 0 .. loc - 1 : i \in 0 .. c /\ data'[i] = data[i]
        /\ \A i \in loc .. c - 1 : i + 1 \in loc + 1 .. c /\ data'[i] = data[i + 1]
        /\ data'[c] = Null
        /\ \A i \in c + 1 .. lim - 1 : data'[i] = data[i]
    BY <1>1, <2>1, <2>d
  <2>3. Typed'
    BY <1>1, <2>d, <2>2, ConstantsAreNumbers DEF VInv, Typed
  <2>4. (* every slot that is in use has got its object from one, in order *)
        ASSUME NEW i \in 0 .. lim - 1, i # c
        PROVE  \E k \in 0 .. lim - 1 :
                 /\ k # loc
                 /\ data'[i] = data[k]
                 /\ \/ (i < loc \/ i > c) /\ k = i
                    \/ (loc <= i /\ i < c) /\ k = i + 1
    <3>1. CASE i < loc \/ i > c
      BY <1>1, <2>2, <2>d, <2>4, <3>1
    <3>2. CASE loc <= i /\ i < c
      <4>1. i \in loc .. c - 1 /\ i + 1 \in 0 .. lim - 1 /\ i + 1 # loc
        BY <1>1, <2>d, <3>2
      <4>. QED BY <2>2, <3>2, <4>1
    <3>. QED BY <1>1, <2>d, <2>4, <3>1, <3>2
  <2>5. \A i, j \in 0 .. lim - 1 : data'[i] = data'[j] /\ data'[i] # Null => i = j
    <3>. SUFFICES ASSUME NEW i \in 0 .. lim - 1, NEW j \in 0 .. lim - 1,
                         data'[i] = data'[j], data'[i] # Null
                  PROVE  i = j
      OBVIOUS
    <3>1. i # c /\ j # c
      BY <2>2
    <3>2. PICK k \in 0 .. lim - 1 :
            /\ data'[i] = data[k]
            /\ \/ (i < loc \/ i > c) /\ k = i
               \/ (loc <= i /\ i < c) /\ k = i + 1
      BY <2>4, <3>1
    <3>3. PICK m \in 0 .. lim - 1 :
            /\ data'[j] = data[m]
            /\ \/ (j < loc \/ j > c) /\ m = j
               \/ (loc <= j /\ j < c) /\ m = j + 1
      BY <2>4, <3>1
    <3>4. k = m
      BY <1>1, <3>2, <3>3 DEF VInv, Packed
    <3>. QED BY <1>1, <2>d, <3>2, <3>3, <3>4
  <2>6. (* and those below the count from one below the count *)
        ASSUME NEW i \in 0 .. c - 1
        PROVE  \E k \in 0 .. count - 1 :
                 /\ data'[i] = data[k] /\ data[k] \in Objects \cup {Null}
                 /\ (i < loc /\ k = i) \/ (loc <= i /\ k = i + 1)
    <3>1. CASE i < loc
      <4>1. i \in 0 .. count - 1 /\ data'[i] = data[i] /\ i \in 0 .. lim - 1
        BY <1>1, <2>2, <2>d, <3>1
      <4>. QED BY <1>1, <3>1, <4>1
    <3>2. CASE loc <= i
      <4>1. i + 1 \in 0 .. count - 1 /\ data'[i] = data[i + 1] /\ i + 1 \in 0 .. lim - 1
        BY <1>1, <2>2, <2>d, <3>2
      <4>. QED BY <1>1, <3>2, <4>1
    <3>. QED BY <2>d, <3>1, <3>2
  <2>7. Packed'
    <3>1. DOMAIN data' = 0 .. lim' - 1 /\ count' <= lim'
      BY <1>1, <2>d, <2>2
    <3>2. \A i, j \in DOMAIN data' : data'[i] = data'[j] /\ data'[i] # Null => i = j
      BY <2>2, <2>5
    <3>3. \A i \in 0 .. c - 1 : data'[i] # Null
      BY <2>6 DEF VInv, Packed
    <3>4. kind # "array" => \A i \in c .. lim - 1 : data'[i] = Null
      <4>1. kind # "array" => \A i \in c + 1 .. lim - 1 : data[i] = Null
        BY <2>d DEF VInv, Packed
      <4>2. \A i \in c .. lim - 1 : i = c \/ i \in c + 1 .. lim - 1
        BY <1>1, <2>d
      <4>. QED BY <2>2, <4>1, <4>2
    <3>5. ASSUME kind = "sorted"
          PROVE  InOrder'
      <4>1. /\ 2 * count <= UIntMax
            /\ \A i \in 0 .. count - 1 : data[i] \in Objects
            /\ \A i, j \in 0 .. count - 1 : i <= j => value[data[i]] <= value[data[j]]
        BY <3>5 DEF VInv, Packed, InOrder, InUse
      <4>2. 2 * c <= UIntMax
        BY <2>d, <4>1, ConstantsAreNumbers
      <4>3. \A i \in 0 .. c - 1 : i \in 0 .. lim - 1 /\ data'[i] \in Objects
        BY <1>1, <2>6, <2>d, <4>1
      <4>4. ASSUME NEW i \in 0 .. c - 1, NEW j \in 0 .. c - 1, i <= j
            PROVE  value[data'[i]] <= value[data'[j]]
        <5>1. PICK k \in 0 .. count - 1 :
                data'[i] = data[k] /\ ((i < loc /\ k = i) \/ (loc <= i /\ k = i + 1))
          BY <2>6
        <5>2. PICK m \in 0 .. count - 1 :
                data'[j] = data[m] /\ ((j < loc /\ m = j) \/ (loc <= j /\ m = j + 1))
          BY <2>6
        <5>3. k <= m
          BY <2>d, <4>4, <5>1, <5>2
        <5>. QED BY <4>1, <5>1, <5>2, <5>3
      <4>5. DOMAIN data' = 0 .. lim - 1
        BY <2>2
      <4>. QED BY <2>d, <4>2, <4>3, <4>4, <4>5 DEF InOrder, InUse
    <3>6. ASSUME kind = "set", NEW i \in 0 .. c - 1, NEW j \in 0 .. c - 1,
                 value[data'[i]] = value[data'[j]]
          PROVE  i = j
      <4>1. PICK k \in 0 .. count - 1 :
              data'[i] = data[k] /\ ((i < loc /\ k = i) \/ (loc <= i /\ k = i + 1))
        BY <2>6
      <4>2. PICK m \in 0 .. count - 1 :
              data'[j] = data[m] /\ ((j < loc /\ m = j) \/ (loc <= j /\ m = j + 1))
        BY <2>6
      <4>3. k = m
        BY <3>6, <4>1, <4>2 DEF VInv, Packed
      <4>. QED BY <1>1, <2>d, <4>1, <4>2, <4>3
    <3>. QED BY <2>d, <3>1, <3>2, <3>3, <3>4, <3>5, <3>6 DEF Packed
  <2>8. Contained' \subseteq Contained \ {data[loc]}
    <3>1. DOMAIN data' = 0 .. lim - 1 /\ DOMAIN data = 0 .. lim - 1
      BY <1>1, <2>2
    <3>2. ASSUME NEW i \in 0 .. lim - 1, data'[i] # Null
          PROVE  \E k \in 0 .. lim - 1 : data'[i] = data[k] /\ data[k] # data[loc]
      <4>1. i # c
        BY <2>2, <3>2
      <4>2. PICK k \in 0 .. lim - 1 : k # loc /\ data'[i] = data[k]
        BY <2>4, <4>1
      <4>3. data[k] # data[loc]
        BY <1>1, <2>d, <3>2, <4>2 DEF VInv, Packed
      <4>. QED BY <4>2, <4>3
    <3>. QED BY <3>1, <3>2 DEF Contained
  <2>9. NoneDangling'
    BY <2>1, <2>8 DEF VInv, NoneDangling
  <2>. QED BY <2>d, <2>3, <2>7, <2>9 DEF VInv
<1>. QED BY <1>1, <1>2, <1>3, <1>4

LEMMA FlushKeeps ==
  ASSUME VInv, NEW dt \in DeleteTypes, Flush(dt)
  PROVE  VInv' /\ count' <= count
<1>. DEFINE upr == IF kind \in {"bag", "set"} THEN count ELSE lim
<1>1. /\ lim \in Nat /\ count \in Nat /\ count <= lim
      /\ data \in [0 .. lim - 1 -> Objects \cup {Null}]
  BY DEF VInv, Typed, Packed
<1>2. PICK u \in Nat : u = upr
  BY <1>1
<1>3. u <= lim /\ (kind \notin {"bag", "set"} => u = lim) /\ (kind \in {"bag", "set"} => u = count)
  BY <1>1, <1>2
<1>4. /\ count' = 0
      /\ data' = [i \in 0 .. lim - 1 |-> IF i < u THEN Null ELSE data[i]]
      /\ live \ {data[i] : i \in 0 .. u - 1} \subseteq live'
      /\ UNCHANGED <<kind, lim, delta, found, lower, upper>>
  BY <1>1, <1>2 DEF Flush, idleVars, searchVars
<1>5. Typed'
  BY <1>1, <1>4, ConstantsAreNumbers DEF VInv, Typed
<1>6. /\ \A i \in 0 .. u - 1 : data'[i] = Null
      /\ \A i \in u .. lim - 1 : data'[i] = data[i]
      /\ DOMAIN data' = 0 .. lim - 1 /\ DOMAIN data = 0 .. lim - 1
  BY <1>1, <1>3, <1>4
<1>7. \A i \in 0 .. lim - 1 : i \in 0 .. u - 1 \/ i \in u .. lim - 1
  BY <1>1
<1>8. Packed'
  <2>1. \A i, j \in 0 .. lim - 1 : data'[i] = data'[j] /\ data'[i] # Null => i = j
    BY <1>1, <1>6, <1>7 DEF VInv, Packed
  <2>2. kind # "array" => \A i \in 0 .. lim - 1 : data'[i] = Null
    <3>1. CASE kind \in {"bag", "set"}
      <4>1. \A i \in u .. lim - 1 : data[i] = Null
        BY <1>3, <3>1 DEF VInv, Packed
      <4>. QED BY <1>6, <1>7, <4>1
    <3>2. CASE kind \notin {"bag", "set"}
      BY <1>3, <1>6, <3>2
    <3>. QED BY <3>1, <3>2
  <2>3. /\ count' = 0 /\ 0 .. count' - 1 = {}
        /\ 2 * count' <= UIntMax /\ count' <= lim
    BY <1>1, <1>4, ConstantsAreNumbers
  <2>4. InOrder'
    BY <2>3 DEF InOrder, InUse
  <2>. QED BY <1>4, <1>6, <2>1, <2>2, <2>3, <2>4 DEF Packed
<1>9. NoneDangling'
  <2>1. ASSUME NEW i \in 0 .. lim - 1, data'[i] # Null
        PROVE  /\ data'[i] = data[i] /\ data[i] \in live
               /\ \A k \in 0 .. u - 1 : data[k] # data[i]
    <3>1. i \in u .. lim - 1
      BY <1>6, <1>7, <2>1
    <3>2. data'[i] = data[i] /\ data[i] # Null
      BY <1>6, <2>1, <3>1
    <3>3. data[i] \in live
      BY <1>6, <3>2 DEF VInv, NoneDangling, Contained
    <3>4. ASSUME NEW k \in 0 .. u - 1, data[k] = data[i]
          PROVE  FALSE
      <4>1. k \in 0 .. lim - 1 /\ k # i
        BY <1>1, <1>3, <3>1
      <4>. QED BY <1>6, <3>2, <3>4, <4>1 DEF VInv, Packed
    <3>. QED BY <3>2, <3>3, <3>4
  <2>2. \A i \in 0 .. lim - 1 : data'[i] # Null => data'[i] \in live'
    BY <1>4, <2>1
  <2>. QED BY <1>6, <2>2 DEF NoneDangling, Contained
<1>10. count' <= count
  BY <1>1, <1>4
<1>. QED BY <1>5, <1>8, <1>9, <1>10 DEF VInv

-----------------------------------------------------------------------------
(* A search moves its own variables among the indexes. *)
LEMMA SearchTyped ==
  ASSUME lower \in Nat, upper \in Nat, found \in Nat,
         Turn \/ Finish
  PROVE  found' \in Nat /\ lower' \in Nat /\ upper' \in Nat
<1>1. middle \in Nat /\ middle + 1 \in Nat
  BY DEF middle
<1>2. UIntMax \in Nat
  BY ConstantsAreNumbers
<1>3. CASE Turn
  <2>1. CASE Answer(middle)
    BY <1>1, <2>1 DEF Answer
  <2>2. CASE lower' = middle + 1 /\ UNCHANGED <<sought, upper, found, pc>>
    BY <1>1, <2>2
  <2>3. CASE /\ upper' = IF middle = 0 THEN UIntMax ELSE middle - 1
             /\ UNCHANGED <<sought, lower, found, pc>>
    <3>1. (IF middle = 0 THEN UIntMax ELSE middle - 1) \in Nat
      <4>. HIDE DEF middle
      <4>. QED BY <1>1, <1>2
    <3>. QED BY <2>3, <3>1
  <2>. QED BY <1>3, <2>1, <2>2, <2>3 DEF Turn
<1>4. CASE Finish
  BY <1>2, <1>4 DEF Finish, Answer
<1>. QED BY <1>3, <1>4

LEMMA VInvInit == Init => VInv
<1>. SUFFICES ASSUME Init PROVE VInv
  OBVIOUS
<1>1. lim \in Nat /\ count = 0 /\ data = [i \in 0 .. lim - 1 |-> Null]
  BY VectorsAssumption DEF Init
<1>2. Typed
  BY <1>1, ConstantsAreNumbers, VectorsAssumption DEF Init, AtRest, Typed
<1>3. Packed
  BY <1>1, ConstantsAreNumbers DEF Packed, InOrder, InUse
<1>4. NoneDangling
  BY <1>1 DEF NoneDangling, Contained
<1>. QED BY <1>2, <1>3, <1>4 DEF VInv

(* What each step does: the invariant, and what an add keeps. *)
LEMMA VInvStep ==
  ASSUME VInv, [Next]_vars
  PROVE  VInv' /\ (count' > count => Contained \subseteq Contained')
<1>. DEFINE Goal == VInv' /\ (count' > count => Contained \subseteq Contained')
<1>0. /\ count \in Nat /\ lim \in Nat /\ ~(count > count)
      /\ found \in Nat /\ lower \in Nat /\ upper \in Nat
  BY DEF VInv, Typed
<1>1. ASSUME NEW o \in Objects, Add(o)
      PROVE  Goal
  <2>1. /\ o \notin Contained /\ HasRoom /\ live' = live \cup {o}
        /\ SameKind
    BY <1>1 DEF Add, SameKind, idleVars, searchVars
  <2>2. CASE kind = "set" /\ LinearFind(value[o]) # UIntMax
    <3>1. /\ UNCHANGED <<data, count, lim, kind>>
          /\ UNCHANGED <<delta, found, lower, upper>>
      BY <1>1, <2>1, <2>2 DEF Add, SameKind
    <3>2. Typed'
      BY <3>1 DEF VInv, Typed
    <3>3. Packed'
      BY <3>1 DEF VInv, Packed, InOrder, InUse
    <3>4. NoneDangling'
      BY <2>1, <3>1 DEF VInv, NoneDangling, Contained
    <3>. QED BY <1>0, <3>1, <3>2, <3>3, <3>4 DEF VInv
  <2>3. CASE kind = "sorted"
    <3>1. AddSorted(o)
      BY <1>1, <2>3 DEF Add
    <3>. QED BY <2>1, <2>3, <3>1, AddSortedKeeps
  <2>4. CASE kind # "sorted" /\ ~(kind = "set" /\ LinearFind(value[o]) # UIntMax)
    <3>1. AddLast(o)
      BY <1>1, <2>4 DEF Add
    <3>2. kind = "set" => \A i \in 0 .. lim - 1 : ~IsEqual(i, value[o])
      BY <2>4, LinearFindIsIndex
    <3>. QED BY <2>1, <2>4, <3>1, <3>2, AddLastKeeps
  <2>. QED BY <2>2, <2>3, <2>4
<1>2. ASSUME NEW o \in Objects, NEW loc \in 0 .. MaxSize - 1, AddAt(o, loc)
      PROVE  Goal
  <2>1. /\ loc \in Nat /\ o \notin Contained /\ kind = "array"
        /\ loc < lim \/ delta # 0
        /\ Put(o, loc, loc + 1) /\ live' = live \cup {o}
        /\ count' = count /\ SameKind
    BY <1>2, ConstantsAreNumbers DEF AddAt, SameKind, idleVars, searchVars
  <2>. QED BY <1>0, <2>1, AddAtKeeps
<1>3. ASSUME NEW loc \in Nat, NEW del, DetachAt(loc, del),
             UNCHANGED <<kind, lim, delta>>,
             found' \in Nat, lower' \in Nat, upper' \in Nat
      PROVE  Goal
  <2>1. VInv' /\ count' <= count
    BY <1>3, DetachKeeps
  <2>2. count' \in Nat
    BY <2>1 DEF VInv, Typed
  <2>. QED BY <1>0, <2>1, <2>2
<1>4. ASSUME UNCHANGED <<data, count, live, kind, lim, delta>>,
             found' \in Nat, lower' \in Nat, upper' \in Nat
      PROVE  Goal
  <2>1. VInv'
    BY <1>4, SameVector
  <2>. QED BY <1>0, <1>4, <2>1
<1>5. ASSUME NEW dt \in DeleteTypes
      PROVE  delObj(dt) \in BOOLEAN
  BY DEF delObj
<1>6. ASSUME NEW loc \in 0 .. MaxSize, NEW dt \in DeleteTypes, Detach(loc, dt)
      PROVE  Goal
  <2>1. /\ loc \in Nat /\ DetachAt(loc, delObj(dt))
        /\ UNCHANGED <<kind, lim, delta>>
        /\ found' \in Nat /\ lower' \in Nat /\ upper' \in Nat
    BY <1>0, <1>6, ConstantsAreNumbers DEF Detach, idleVars, searchVars
  <2>. QED BY <1>3, <1>5, <2>1
<1>7. ASSUME NEW o \in Objects, NEW dt \in DeleteTypes, DetachObject(o, dt)
      PROVE  Goal
  <2>1. CASE kind = "sorted"
    <3>1. /\ UNCHANGED <<data, count, live, kind, lim, delta>>
          /\ found' = found /\ lower' = 0
          /\ upper' = IF count = 0 THEN UIntMax ELSE count - 1
      BY <1>7, <2>1 DEF DetachObject, Find
    <3>2. found' \in Nat /\ lower' \in Nat /\ upper' \in Nat
      <4>1. (IF count = 0 THEN UIntMax ELSE count - 1) \in Nat
        BY <1>0, ConstantsAreNumbers
      <4>. QED BY <1>0, <3>1, <4>1
    <3>. QED BY <1>4, <3>1, <3>2
  <2>2. CASE kind # "sorted"
    <3>1. /\ DetachAt(LinearFind(value[o]), delObj(dt))
          /\ UNCHANGED <<kind, lim, delta>>
          /\ found' \in Nat /\ lower' \in Nat /\ upper' \in Nat
      BY <1>0, <1>7, <2>2 DEF DetachObject, idleVars, searchVars
    <3>2. LinearFind(value[o]) \in Nat
      BY LinearFindIsIndex
    <3>. QED BY <1>3, <1>5, <3>1, <3>2
  <2>. QED BY <2>1, <2>2
<1>8. ASSUME NEW dt \in DeleteTypes, Flush(dt)
      PROVE  Goal
  <2>1. VInv' /\ count' <= count
    BY <1>8, FlushKeeps
  <2>2. count' \in Nat
    BY <2>1 DEF VInv, Typed
  <2>. QED BY <1>0, <2>1, <2>2
<1>9. ASSUME NEW del \in BOOLEAN, OwnsElements(del)
      PROVE  Goal
  BY <1>0, <1>4, <1>9 DEF OwnsElements, vectorVars, idleVars, searchVars
<1>10. ASSUME Search
       PROVE  Goal
  <2>1. Turn \/ Finish
    BY <1>10 DEF Search
  <2>2. found' \in Nat /\ lower' \in Nat /\ upper' \in Nat
    BY <1>0, <2>1, SearchTyped
  <2>. QED BY <1>4, <1>10, <2>2 DEF Search, vectorVars
<1>11. ASSUME DetachFound
       PROVE  Goal
  <2>1. /\ DetachAt(found, deleteIt)
        /\ UNCHANGED <<kind, lim, delta>>
        /\ found' \in Nat /\ lower' \in Nat /\ upper' \in Nat
    BY <1>11, ConstantsAreNumbers DEF DetachFound, Stop
  <2>. QED BY <1>0, <1>3, <2>1
<1>12. ASSUME NEW o \in Objects, Destroy(o)
       PROVE  Goal
  <2>1. /\ o \notin Contained /\ live' = live \ {o}
        /\ UNCHANGED <<data, count, kind, lim, delta, found, lower, upper>>
    BY <1>12 DEF Destroy, vectorVars, idleVars, searchVars
  <2>2. Typed'
    BY <2>1 DEF VInv, Typed
  <2>3. Packed'
    BY <2>1 DEF VInv, Packed, InOrder, InUse
  <2>4. NoneDangling'
    BY <2>1 DEF VInv, NoneDangling, Contained
  <2>. QED BY <1>0, <2>1, <2>2, <2>3, <2>4 DEF VInv
<1>13. CASE UNCHANGED vars
  BY <1>0, <1>4, <1>13 DEF vars, vectorVars, searchVars
<1>14. CASE Next
  <2>1. Goal
    <3>. HIDE DEF Goal
    <3>. QED BY <1>1, <1>2, <1>6, <1>7, <1>8, <1>9, <1>10, <1>11, <1>12, <1>14 DEF Next
  <2>. QED BY <2>1
<1>. QED BY <1>13, <1>14

-----------------------------------------------------------------------------
LEMMA VInvAlways == Spec => []VInv
<1>1. VInv /\ [Next]_vars => VInv'
  BY VInvStep
<1>. QED BY VInvInit, <1>1, PTL DEF Spec

(* An array, bag, set or sorted array of every first size and growth writes to
   its own slots only, has no object twice, no hole below its count, and is in
   order or free of equals when it is sorted or a set. *)
THEOREM VectorsPacked == Spec => []Packed
<1>1. VInv => Packed
  BY DEF VInv
<1>. QED BY <1>1, VInvAlways, PTL

(* Whatever is detached, flushed or deleted, by a container that owns its
   objects or one that does not, no slot is left with a deleted object. *)
THEOREM VectorsNoneDangling == Spec => []NoneDangling
<1>1. VInv => NoneDangling
  BY DEF VInv
<1>. QED BY <1>1, VInvAlways, PTL

(* An add, which may make the vector grow and move objects up, loses none. *)
THEOREM VectorsAddsKeep == Spec => AddsKeep
<1>1. VInv /\ [Next]_vars => [count' > count => Contained \subseteq Contained']_vars
  BY VInvStep
<1>. QED BY <1>1, VInvAlways, PTL DEF Spec, AddsKeep

-----------------------------------------------------------------------------
(* The binary search of a sorted vector is right for vectors of every length
   that an unsigned can index twice over, every order of objects, and every
   sound search of VectorSearch. *)
LEMMA UIntMaxIsNat == UIntMax \in Nat /\ UIntMax > 0
  BY UIntAssumption

(* What the slots below the count compare like: numbers, in order. *)
ValueAt(i) == value[data[i]]

LEMMA ValuesInOrder ==
  ASSUME InOrder
  PROVE  /\ count \in Nat
         /\ \A i \in 0 .. count - 1 : ValueAt(i) \in Int
         /\ \A i, j \in 0 .. count - 1 : i <= j => ValueAt(i) <= ValueAt(j)
  BY ObjectsAssumption DEF InOrder, InUse, ValueAt

(* A comparison with a slot in use has one answer. *)
LEMMA ComparisonInUse ==
  ASSUME InOrder, NEW i \in 0 .. count - 1
  PROVE  /\ "equal" \in Comparison(i) <=> ValueAt(i) = sought
         /\ Comparison(i) = {"equal"} <=> ValueAt(i) = sought
         /\ "less" \in Comparison(i) => ValueAt(i) < sought
         /\ "greater" \in Comparison(i) => ~(ValueAt(i) < sought) /\ ValueAt(i) # sought
  BY DEF InOrder, Comparison, ValueAt

-----------------------------------------------------------------------------
(* The inductive invariant.  What is below lower is less and what is above
   upper is greater; upper has wrapped only when the first slot is greater. *)
Bounds ==
  /\ sought \in Int
  /\ lower \in Nat
  /\ upper \in Nat
  /\ IF upper = UIntMax
     THEN lower = 0 /\ (count # 0 => ValueAt(0) > sought)
     ELSE upper < count /\ lower <= upper + 1
  /\ \A i \in 0 .. count - 1 : i < lower => ValueAt(i) < sought
  /\ upper # UIntMax => \A i \in 0 .. count - 1 : i > upper => ValueAt(i) > sought

Answered ==
  IF \E i \in 0 .. count - 1 : ValueAt(i) = sought
  THEN found \in 0 .. count - 1 /\ ValueAt(found) = sought
  ELSE found = UIntMax

SearchInv ==
  /\ InOrder
  /\ tested \in BOOLEAN
  /\ pc \in {"idle", "search", "found"}
  /\ Sound => (pc = "search" => Bounds) /\ (pc = "found" => Answered)

(* A search that can be relied on does not look on with a wrapped bound, so it
   looks at slots in use only. *)
LEMMA LookingIsInside ==
  ASSUME InOrder, tested \in BOOLEAN, Sound, Bounds, Looking
  PROVE  /\ count # 0
         /\ upper # UIntMax
         /\ middle \in Nat
         /\ lower <= middle
         /\ middle < upper
         /\ middle \in 0 .. count - 1
         /\ middle = 0 => lower = 0
<1>1. count # 0 /\ lower < upper /\ (tested => upper # UIntMax)
  BY DEF Looking
<1>2. upper # UIntMax
  <2>1. CASE tested
    BY <1>1, <2>1
  <2>2. CASE ~tested
    <3>1. ValueAt(0) <= sought
      BY <1>1, <2>2 DEF Sound, ValueAt
    <3>2. ValueAt(0) \in Int /\ sought \in Int
      BY <1>1, ValuesInOrder DEF Bounds
    <3> QED BY <1>1, <3>1, <3>2 DEF Bounds
  <2> QED BY <2>1, <2>2
<1>3. upper < count /\ lower \in Nat /\ upper \in Nat /\ count \in Nat
  BY <1>2, ValuesInOrder DEF Bounds
<1> QED BY <1>1, <1>2, <1>3 DEF middle

(* When it ends there is nothing between the bounds but the slot it may still
   look at. *)
LEMMA AtTheEnd ==
  ASSUME InOrder, tested \in BOOLEAN, Sound, Bounds, ~Looking
  PROVE  /\ lower = upper => lower \in 0 .. count - 1
         /\ \A i \in 0 .. count - 1 : ValueAt(i) = sought => i = lower /\ i = upper
<1>1. count \in Nat /\ lower \in Nat /\ upper \in Nat /\ sought \in Int
  BY ValuesInOrder DEF Bounds
<1>2. CASE count = 0
  <2>1. upper = UIntMax /\ lower = 0
    BY <1>1, <1>2 DEF Bounds
  <2> QED BY <1>2, <2>1, UIntMaxIsNat
<1>3. CASE count # 0 /\ upper = UIntMax
  <2>1. lower = 0 /\ ValueAt(0) > sought
    BY <1>3 DEF Bounds
  <2>2. \A i \in 0 .. count - 1 : ValueAt(i) \in Int /\ ValueAt(0) <= ValueAt(i)
    BY <1>1, <1>3, ValuesInOrder
  <2>3. 0 \in 0 .. count - 1
    BY <1>1, <1>3
  <2>4. \A i \in 0 .. count - 1 : ValueAt(i) # sought
    BY <1>1, <2>1, <2>2, <2>3
  <2> QED BY <1>3, <2>1, <2>4, UIntMaxIsNat
<1>4. CASE count # 0 /\ upper # UIntMax
  <2>1. upper < count /\ lower <= upper + 1 /\ ~(lower < upper)
    BY <1>4 DEF Bounds, Looking
  <2>2. \A i \in 0 .. count - 1 : (i < lower => ValueAt(i) < sought)
                               /\ (i > upper => ValueAt(i) > sought)
    BY <1>4 DEF Bounds
  <2>3. \A i \in 0 .. count - 1 : ValueAt(i) \in Int
    BY ValuesInOrder
  <2>4. lower = upper => lower \in 0 .. count - 1
    BY <1>1, <2>1
  <2>5. ASSUME NEW i \in 0 .. count - 1, ValueAt(i) = sought
        PROVE  i = lower /\ i = upper
    <3>1. ~(i < lower) /\ ~(i > upper)
      BY <1>1, <2>2, <2>3, <2>5
    <3> QED BY <1>1, <2>1, <3>1
  <2> QED BY <2>4, <2>5
<1> QED BY <1>2, <1>3, <1>4

-----------------------------------------------------------------------------
LEMMA InitSearchInv == SearchInit => SearchInv
  BY DEF SearchInit, SearchInv, AtRest

(* What the steps of a search leave alone. *)
LEMMA VectorStays ==
  ASSUME InOrder, UNCHANGED vectorVars
  PROVE  /\ InOrder'
         /\ \A i : ValueAt(i)' = ValueAt(i)
         /\ count' = count /\ tested' = tested
  BY DEF vectorVars, InOrder, InUse, ValueAt

LEMMA FindStarts ==
  ASSUME SearchInv, UNCHANGED vectorVars, NEW v \in Int, Find(v)
  PROVE  SearchInv'
<1>1. InOrder /\ tested \in BOOLEAN /\ count \in Nat
  BY ValuesInOrder DEF SearchInv
<1>2. InOrder' /\ count' = count /\ tested' = tested
  BY <1>1, VectorStays
<1>3. Bounds'
  BY <1>1, <1>2, UIntAssumption DEF Find, Bounds, InOrder
<1> QED BY <1>1, <1>2, <1>3 DEF SearchInv, Find

(* The answer that Turn or Finish gives at a slot with an equal object. *)
LEMMA EqualIsAnswered ==
  ASSUME InOrder, UNCHANGED vectorVars, NEW loc \in 0 .. count - 1,
         ValueAt(loc) = sought, Answer(loc)
  PROVE  Answered'
<1>1. count' = count /\ sought' = sought /\ found' = loc
  BY DEF vectorVars, Answer
<1>2. \A i : ValueAt(i)' = ValueAt(i)
  BY VectorStays
<1>3. ValueAt(found)' = sought'
  BY <1>1 DEF ValueAt, vectorVars
<1> QED BY <1>1, <1>2, <1>3 DEF Answered

LEMMA TurnKeepsBounds ==
  ASSUME InOrder, tested \in BOOLEAN, Sound, Bounds, UNCHANGED vectorVars,
         Looking, pc' = "search", Turn
  PROVE  Bounds'
<1>1. /\ count \in Nat /\ lower \in Nat /\ upper \in Nat /\ sought \in Int
      /\ \A i \in 0 .. count - 1 : ValueAt(i) \in Int
      /\ \A i, j \in 0 .. count - 1 : i <= j => ValueAt(i) <= ValueAt(j)
  BY ValuesInOrder DEF Bounds
<1>2. /\ count # 0 /\ upper # UIntMax /\ middle \in Nat /\ lower <= middle
      /\ middle < upper /\ middle \in 0 .. count - 1 /\ (middle = 0 => lower = 0)
  BY LookingIsInside
<1>3. upper < count /\ 2 * count <= UIntMax
  BY <1>2 DEF Bounds, InOrder
<1>4. /\ \A i \in 0 .. count - 1 : i < lower => ValueAt(i) < sought
      /\ \A i \in 0 .. count - 1 : i > upper => ValueAt(i) > sought
  BY <1>2 DEF Bounds
<1>5. count' = count /\ \A i : ValueAt(i)' = ValueAt(i)
  BY VectorStays
<1>6. CASE /\ "less" \in Comparison(middle)
           /\ lower' = middle + 1
           /\ UNCHANGED <<sought, upper>>
  <2>1. ValueAt(middle) < sought
    BY <1>2, <1>6, ComparisonInUse
  <2>2. \A i \in 0 .. count - 1 : i < middle + 1 => ValueAt(i) < sought
    BY <1>1, <1>2, <2>1
  <2> QED BY <1>1, <1>2, <1>3, <1>4, <1>5, <1>6, <2>2 DEF Bounds
<1>7. CASE /\ "greater" \in Comparison(middle)
           /\ upper' = IF middle = 0 THEN UIntMax ELSE middle - 1
           /\ UNCHANGED <<sought, lower>>
  <2>1. ValueAt(middle) > sought
    BY <1>1, <1>2, <1>7, ComparisonInUse
  <2>2. \A i \in 0 .. count - 1 : i >= middle => ValueAt(i) > sought
    BY <1>1, <1>2, <2>1
  <2>3. CASE middle = 0
    BY <1>1, <1>2, <1>4, <1>5, <1>7, <2>1, <2>3, UIntMaxIsNat DEF Bounds
  <2>4. CASE middle # 0
    <3>1. upper' = middle - 1 /\ upper' # UIntMax /\ upper' \in Nat
      BY <1>1, <1>2, <1>3, <1>7, <2>4, UIntMaxIsNat
    <3>2. \A i \in 0 .. count - 1 : i > middle - 1 => ValueAt(i) > sought
      BY <1>1, <1>2, <2>2
    <3> QED BY <1>1, <1>2, <1>4, <1>5, <1>7, <3>1, <3>2 DEF Bounds
  <2> QED BY <2>3, <2>4
<1> QED BY <1>6, <1>7 DEF Turn, Answer

LEMMA SearchInvStep == SearchInv /\ [SearchNext]_<<vectorVars, searchVars>> => SearchInv'
<1> SUFFICES ASSUME SearchInv, [SearchNext]_<<vectorVars, searchVars>>
             PROVE  SearchInv'
  OBVIOUS
<1>1. InOrder /\ tested \in BOOLEAN
  BY DEF SearchInv
<1>2. UNCHANGED vectorVars
  BY DEF SearchNext
<1>3. InOrder' /\ tested' \in BOOLEAN /\ count' = count /\ \A i : ValueAt(i)' = ValueAt(i)
  BY <1>1, <1>2, VectorStays
<1>4. CASE Turn
  <2>1. pc = "search" /\ pc' \in {"search", "found"} /\ sought' = sought /\ Looking
    BY <1>4 DEF Turn, Answer
  <2>2. Sound' <=> Sound
    BY <1>2, <2>1 DEF Sound, vectorVars
  <2>3. ASSUME Sound, pc' = "search" PROVE Bounds'
    BY <1>1, <1>2, <1>4, <2>1, <2>3, TurnKeepsBounds DEF SearchInv
  <2>4. ASSUME Sound, pc' = "found" PROVE Answered'
    <3>1. middle \in 0 .. count - 1
      BY <1>1, <2>1, <2>4, LookingIsInside DEF SearchInv
    <3>2. "equal" \in Comparison(middle) /\ Answer(middle)
      BY <1>4, <2>1, <2>4 DEF Turn
    <3>3. ValueAt(middle) = sought
      BY <1>1, <3>1, <3>2, ComparisonInUse
    <3> QED BY <1>1, <1>2, <3>1, <3>2, <3>3, EqualIsAnswered
  <2> QED BY <1>3, <2>1, <2>2, <2>3, <2>4 DEF SearchInv
<1>5. CASE Finish
  <2>1. pc = "search" /\ pc' = "found" /\ sought' = sought /\ ~Looking
    BY <1>5 DEF Finish, Answer
  <2>2. Sound' <=> Sound
    BY <1>2, <2>1 DEF Sound, vectorVars
  <2>3. ASSUME Sound PROVE Answered'
    <3>1. Bounds
      BY <2>1, <2>3 DEF SearchInv
    <3>2. /\ lower = upper => lower \in 0 .. count - 1
          /\ \A i \in 0 .. count - 1 : ValueAt(i) = sought => i = lower /\ i = upper
      BY <1>1, <2>1, <2>3, <3>1, AtTheEnd
    <3>3. CASE lower = upper /\ "equal" \in Comparison(lower) /\ Answer(lower)
      <4>1. ValueAt(lower) = sought
        BY <1>1, <3>2, <3>3, ComparisonInUse
      <4> QED BY <1>1, <1>2, <3>2, <3>3, <4>1, EqualIsAnswered
    <3>4. CASE ~(lower = upper /\ Comparison(lower) = {"equal"}) /\ Answer(UIntMax)
      <4>1. \A i \in 0 .. count - 1 : ValueAt(i) # sought
        BY <1>1, <3>2, <3>4, ComparisonInUse
      <4> QED BY <1>3, <2>1, <3>4, <4>1 DEF Answered, Answer
    <3> QED BY <1>5, <3>3, <3>4 DEF Finish
  <2> QED BY <1>3, <2>1, <2>2, <2>3 DEF SearchInv
<1>6. CASE Stop
  BY <1>3, <1>6 DEF SearchInv, Stop
<1>7. CASE \E v \in Int : Find(v)
  BY <1>2, <1>7, FindStarts
<1>8. CASE UNCHANGED <<vectorVars, searchVars>>
  <2>1. pc' = pc /\ sought' = sought /\ (Sound' <=> Sound)
    BY <1>8 DEF searchVars, vectorVars, Sound
  <2>2. Bounds' <=> Bounds
    BY <1>8 DEF searchVars, vectorVars, Bounds, ValueAt
  <2>3. Answered' <=> Answered
    BY <1>8 DEF searchVars, vectorVars, Answered, ValueAt
  <2> QED BY <1>3, <2>1, <2>2, <2>3 DEF SearchInv
<1> QED BY <1>4, <1>5, <1>6, <1>7, <1>8 DEF SearchNext

LEMMA InvIsRight == SearchInv => SearchRight
<1> SUFFICES ASSUME SearchInv, Sound PROVE SearchRight
  BY DEF SearchRight
<1>1. InOrder /\ tested \in BOOLEAN /\ count \in Nat
  BY ValuesInOrder DEF SearchInv
<1>2. pc = "search" /\ Looking => middle < count
  BY <1>1, LookingIsInside DEF SearchInv
<1>3. pc = "search" /\ ~Looking /\ lower = upper => lower < count
  BY <1>1, AtTheEnd DEF SearchInv
<1>4. pc = "found" => Answered
  BY DEF SearchInv
<1> QED BY <1>2, <1>3, <1>4 DEF SearchRight, Answered, ValueAt

(* The search never compares with a slot that holds no object, and its answer
   is the index of an equal object, or UINT_MAX when there is none: for every
   vector in order and every search that is sound. *)
THEOREM SearchIsRight == SearchSpec => []SearchRight
<1>1. SearchSpec => []SearchInv
  BY InitSearchInv, SearchInvStep, PTL DEF SearchSpec
<1> QED BY <1>1, InvIsRight, PTL
=============================================================================
