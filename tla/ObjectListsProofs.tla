------------------------- MODULE ObjectListsProofs --------------------------
(***************************************************************************)
(* Proofs about the containers of the object-based class library that are  *)
(* one list (module ObjectLists): lists of any length in a pool of any     *)
(* size, with any objects, of which any may be equal.                      *)
(***************************************************************************)
EXTENDS ObjectLists, Induction

(* The sentinels, as the lemmas about linked lists take them. *)
heads == [l \in Lists |-> head(l)]
tails == [l \in Lists |-> tail(l)]
Chains == [l \in exists |-> Chain(l)]

(* The list and the free cells: every used cell is in one of them. *)
LinksInv ==
  /\ exists = {list}
  /\ next \in [Entries -> Entries \cup {Null}]
  /\ Linked(Chains, FreeCells, next, freeList, cut, heads, tails, MaxElements)
  /\ size = [l \in Lists |-> Len(Chain(list))]

(* The links back through the elements s of the list. *)
Backed(s, prv) ==
  /\ prv \in [Entries -> Entries \cup {Null}]
  /\ prv[headEntry] = headEntry
  /\ prv[tailEntry] = IF Len(s) = 0 THEN headEntry ELSE s[Len(s)]
  /\ \A i \in 1 .. Len(s) : prv[s[i]] = IF i = 1 THEN headEntry ELSE s[i - 1]

BackInv == isDouble => Backed(Chain(list), prev)

(* Where the objects are.  No object is in the list twice. *)
DataInv ==
  /\ data \in [Entries -> Objects \cup {NullObject}]
  /\ data[headEntry] = NullObject /\ data[tailEntry] = NullObject
  /\ ObjectsOf(list) \in Seq(Objects) /\ Distinct(ObjectsOf(list))
  /\ held \subseteq Objects
  /\ held \cap Contained = {}
  /\ alive = held \cup Contained
  /\ itemsInContainer \in Nat
  /\ isWrapper => itemsInContainer >= Len(Chain(list))
  /\ kind \in {"List", "DoubleList", "Stack", "Deque", "Queue"}

(* The iterator is at an element of the list or at the end it walks to.  What
   is due lies ahead, and what is done does not. *)
Stops == ToSet(Chain(list)) \cup {IF dir = "forward" THEN tailEntry ELSE headEntry}

WalkInv ==
  /\ dir \in {"none", "forward", "backward"}
  /\ dir = "backward" => kind = "DoubleList"
  /\ due \subseteq Contained /\ done \subseteq Contained
  /\ dir = "none" => due = {} /\ done = {}
  /\ dir # "none" =>
       /\ at \in Stops /\ start \in Stops \cup {Null}
       /\ \A y \in due : Lies(Chain(list), data, at, dir, y)
       /\ \A y \in done : ~Lies(Chain(list), data, at, dir, y)

IInv == LinksInv /\ BackInv /\ DataInv /\ WalkInv

-----------------------------------------------------------------------------
(* The entries: cells are positive, sentinels negative. *)
LEMMA EntriesAre ==
  /\ MaxElements \in Nat /\ Elements = 1 .. MaxElements
  /\ headEntry < 0 /\ tailEntry < 0 /\ headEntry # tailEntry
  /\ headEntry \in Int /\ tailEntry \in Int
  /\ Entries = Elements \cup {headEntry, tailEntry}
  /\ Lists = {list} /\ heads[list] = headEntry /\ tails[list] = tailEntry
  /\ Sentinels(heads, tails, Lists, MaxElements)
  /\ Entries = Nodes(heads, tails, Lists, MaxElements)
<1>1. Lists = {list} /\ list \in Nat /\ MaxElements \in Nat
  BY ListAssumption, DoubleListAssumption
<1>2. /\ headEntry < 0 /\ tailEntry < 0 /\ headEntry # tailEntry
      /\ headEntry \in Int /\ tailEntry \in Int
  BY <1>1 DEF headEntry, tailEntry, head, tail
<1>3. heads[list] = headEntry /\ tails[list] = tailEntry
  BY <1>1 DEF heads, tails, headEntry, tailEntry
<1>4. Entries = Elements \cup {headEntry, tailEntry}
  BY <1>1 DEF Entries, headEntry, tailEntry
<1>5. Sentinels(heads, tails, Lists, MaxElements)
  BY <1>1, <1>2, <1>3 DEF Sentinels
<1>6. Nodes(heads, tails, Lists, MaxElements) = Elements \cup {headEntry, tailEntry}
  BY <1>1, <1>3 DEF Nodes, Elements
<1> QED BY <1>1, <1>2, <1>3, <1>4, <1>5, <1>6 DEF Elements

LEMMA SentinelsApart ==
  /\ \A x \in Elements : x \in Entries /\ x # headEntry /\ x # tailEntry /\ x # Null
  /\ headEntry \in Entries /\ tailEntry \in Entries
  /\ headEntry # tailEntry /\ headEntry # Null /\ tailEntry # Null
<1>1. \A x \in Elements : x > 0 /\ x \in Int
  BY EntriesAre
<1> QED BY <1>1, EntriesAre DEF Null

(* The lists with s as the only list. *)
Only(s) == [l \in {list} |-> s]

(* What elements the recursive definition of the model collects. *)
LEMMA Collected ==
  ASSUME NEW s, NEW f, NEW nxt \in [Entries -> Entries \cup {Null}], NEW fl, NEW ct,
         Linked(Only(s), f, nxt, fl, ct, heads, tails, MaxElements)
  PROVE  /\ Collector(nxt, Elements, Entries \cup {Null})[fl] = f
         /\ Collector(nxt, Elements, Entries \cup {Null})[nxt[headEntry]] = s
<1> DEFINE E == Entries \cup {Null}
           g == Collector(nxt, 1 .. MaxElements, E)
<1>1. DOMAIN Only(s) = {list} /\ Only(s)[list] = s
  BY DEF Only
<1>2. /\ Nodes(heads, tails, Lists, MaxElements) \cup {0} \subseteq E
      /\ \A x \in 1 .. MaxElements : nxt[x] \in E
  BY EntriesAre DEF Null
<1>3. g[fl] = f /\ \A l \in DOMAIN Only(s) : g[nxt[heads[l]]] = Only(s)[l]
  <2>1. /\ MaxElements \in Nat /\ Sentinels(heads, tails, Lists, MaxElements)
        /\ DOMAIN Only(s) \subseteq Lists
    BY <1>1, EntriesAre
  <2> HIDE DEF E
  <2> QED BY <1>2, <2>1, LinkedCollected
<1>4. g[fl] = f /\ g[nxt[headEntry]] = s
  <2> HIDE DEF g
  <2> QED BY <1>1, <1>3, EntriesAre
<1> QED BY <1>4, EntriesAre

(* The list and the free cells after a step, from the links it leaves. *)
LEMMA ListAfter ==
  ASSUME NEW s, NEW f, next' \in [Entries -> Entries \cup {Null}], exists' = {list},
         Linked(Only(s), f, next', freeList', cut', heads, tails, MaxElements)
  PROVE  Chain(list)' = s /\ FreeCells' = f /\ Chains' = Only(s)
<1> DEFINE g == Collector(next', Elements, Entries \cup {Null})
<1>1. g[freeList'] = f /\ g[next'[headEntry]] = s
  BY Collected
<1>2. Chain(list)' = g[next'[headEntry]] /\ FreeCells' = g[freeList']
  BY DEF Chain, FreeCells, ElementsFrom, Collector, Collects, headEntry
<1>3. Chain(list)' = s
  BY <1>1, <1>2
<1>4. Chains' = Only(s)
  BY <1>3 DEF Chains, Only
<1> QED BY <1>1, <1>2, <1>3, <1>4

-----------------------------------------------------------------------------
LEMMA ToSetHas ==
  ASSUME NEW L, NEW s \in Seq(L)
  PROVE  \A x : x \in ToSet(s) <=> Has(s, x)
BY DEF ToSet, Has

(* What the invariant says of the elements of the list. *)
LEMMA TheList ==
  ASSUME LinksInv
  PROVE  /\ cut \in 0 .. MaxElements /\ cut \in Nat
         /\ Chains = Only(Chain(list))
         /\ Linked(Only(Chain(list)), FreeCells, next, freeList, cut, heads, tails, MaxElements)
         /\ IsChain(Chain(list), next, next[headEntry], 1 .. cut, tailEntry)
         /\ IsChain(FreeCells, next, freeList, 1 .. cut, Null)
         /\ next[tailEntry] = tailEntry
         /\ Chain(list) \in Seq(1 .. cut) /\ Len(Chain(list)) \in 0 .. cut
         /\ Distinct(Chain(list))
         /\ \A i \in 1 .. Len(Chain(list)) :
              /\ Chain(list)[i] \in 1 .. cut /\ Chain(list)[i] \in Elements
              /\ Chain(list)[i] \in Entries /\ Chain(list)[i] > 0
         /\ FreeCells \in Seq(1 .. cut)
         /\ size[list] = Len(Chain(list))
<1> DEFINE s == Chain(list)
<1>1. Chains = Only(s)
  BY DEF LinksInv, Chains, Only
<1>2. /\ Linked(Only(s), FreeCells, next, freeList, cut, heads, tails, MaxElements)
      /\ DOMAIN Only(s) = {list} /\ Only(s)[list] = s
  BY <1>1 DEF LinksInv, Only
<1>3. /\ cut \in 0 .. MaxElements
      /\ IsChain(s, next, next[headEntry], 1 .. cut, tailEntry)
      /\ IsChain(FreeCells, next, freeList, 1 .. cut, Null)
      /\ next[tailEntry] = tailEntry
  <2> HIDE DEF s
  <2> QED BY <1>2, EntriesAre DEF Linked, Null
<1>4. cut \in Nat /\ s \in Seq(1 .. cut) /\ Len(s) \in Nat /\ FreeCells \in Seq(1 .. cut)
  <2>1. cut \in Nat
    BY <1>3, EntriesAre
  <2> HIDE DEF s
  <2> QED BY <1>3, <2>1, ChainIn
<1>5. Distinct(s)
  <2>1. DOMAIN Only(s) \subseteq Lists
    BY <1>2, EntriesAre
  <2>2. \A l \in DOMAIN Only(s) : Distinct(Only(s)[l])
    <3> HIDE DEF s
    <3> QED BY <1>2, <2>1, EntriesAre, LinkedApart
  <2> QED BY <1>2, <2>2
<1>6. Len(s) <= cut
  BY <1>4, <1>5, DistinctLen
<1>7. \A i \in 1 .. Len(s) : s[i] \in 1 .. cut
  <2> HIDE DEF s
  <2> QED BY <1>3, ChainIn
<1>8. size[list] = Len(s)
  BY EntriesAre DEF LinksInv
<1> HIDE DEF s
<1>9. \A i \in 1 .. Len(s) : s[i] \in Elements /\ s[i] \in Entries /\ s[i] > 0
  BY <1>3, <1>7, EntriesAre
<1> QED
  BY <1>1, <1>2, <1>3, <1>4, <1>5, <1>6, <1>7, <1>8, <1>9 DEF s

LEMMA TheObjects ==
  ASSUME LinksInv, DataInv
  PROVE  /\ ObjectsOf(list) \in Seq(Objects) /\ Len(ObjectsOf(list)) = Len(Chain(list))
         /\ \A i \in 1 .. Len(Chain(list)) :
              /\ ObjectsOf(list)[i] = data[Chain(list)[i]]
              /\ ObjectsOf(list)[i] \in Objects /\ ObjectsOf(list)[i] # NullObject
         /\ \A o : o \in Contained <=> Has(ObjectsOf(list), o)
<1>1. /\ DOMAIN Chain(list) = 1 .. Len(Chain(list)) /\ Len(Chain(list)) \in Nat
  BY TheList
<1>2. ObjectsOf(list) = [i \in 1 .. Len(Chain(list)) |-> data[Chain(list)[i]]]
  BY <1>1 DEF ObjectsOf
<1>3. ObjectsOf(list) \in Seq(Objects)
  BY DEF DataInv
<1>4. Len(ObjectsOf(list)) = Len(Chain(list))
  BY <1>1, <1>2, <1>3
<1>5. \A o : o \in Contained <=> Has(ObjectsOf(list), o)
  BY <1>3, ToSetHas DEF Contained
<1>6. \A i \in 1 .. Len(Chain(list)) : ObjectsOf(list)[i] \in Objects /\ ObjectsOf(list)[i] # NullObject
  BY <1>3, <1>4, ListAssumption DEF NullObject
<1> QED BY <1>2, <1>3, <1>4, <1>5, <1>6

(* The sequence with two ends has as many objects as it holds. *)
LEMMA CardinalityLen ==
  ASSUME NEW L, NEW q \in Seq(L), Distinct(q)
  PROVE  IsFiniteSet(ToSet(q)) /\ Cardinality(ToSet(q)) = Len(q)
<1>1. Len(q) \in Nat /\ q \in [1 .. Len(q) -> ToSet(q)]
  BY DEF ToSet
<1>2. q \in Bijection(1 .. Len(q), ToSet(q))
  BY <1>1 DEF Distinct, Bijection, Injection, Surjection, IsInjective, ToSet
<1>3. IsFiniteSet(1 .. Len(q)) /\ Cardinality(1 .. Len(q)) = Len(q)
  BY <1>1, FS_Interval
<1> QED BY <1>2, <1>3, FS_Bijection DEF ExistsBijection

(* The invariant has what ListWhole says. *)
LEMMA WholeFollows ==
  ASSUME LinksInv, BackInv, DataInv
  PROVE  ListWhole
<1> DEFINE s == Chain(list)
<1>1. PoolSound
  <2>1. exists = {list}
    BY DEF LinksInv
  <2>2. /\ size[list] = Len(s) /\ next[tail(list)] = tail(list)
        /\ next[IF s = << >> THEN head(list) ELSE Last(s)] = tail(list)
    <3>1. /\ s \in Seq(1 .. cut) /\ Len(s) \in Nat
          /\ size[list] = Len(s) /\ next[tailEntry] = tailEntry
          /\ IsChain(s, next, next[headEntry], 1 .. cut, tailEntry)
      BY TheList
    <3>2. CASE s = << >>
      BY <3>1, <3>2 DEF IsChain, headEntry, tailEntry
    <3>3. CASE s # << >>
      <4> HIDE DEF s
      <4>1. Len(s) \in 1 .. Len(s)
        BY <3>1, <3>3
      <4> QED BY <3>1, <3>3, <4>1 DEF IsChain, tailEntry, Last
    <3> QED BY <3>1, <3>2, <3>3 DEF tailEntry
  <2>3. /\ Distinct(FreeCells) /\ Distinct(s)
        /\ \A x : ~(Has(s, x) /\ Has(FreeCells, x))
        /\ \A x \in 1 .. cut : Has(FreeCells, x) \/ Has(s, x)
    <3>1. /\ DOMAIN Only(s) = {list} /\ Only(s)[list] = s /\ DOMAIN Only(s) \subseteq Lists
      BY EntriesAre DEF Only
    <3>2. Linked(Only(s), FreeCells, next, freeList, cut, heads, tails, MaxElements)
      BY TheList
    <3>3. \A x \in 1 .. cut : Has(FreeCells, x) \/ Has(s, x)
      <4> HIDE DEF s
      <4> QED BY <3>1, <3>2 DEF Linked
    <3>4. /\ Distinct(FreeCells)
          /\ \A l \in DOMAIN Only(s) : Distinct(Only(s)[l])
          /\ \A l \in DOMAIN Only(s) : \A x : ~(Has(Only(s)[l], x) /\ Has(FreeCells, x))
      <4> HIDE DEF s
      <4> QED BY <3>1, <3>2, EntriesAre, LinkedApart
    <3> HIDE DEF s
    <3> QED BY <3>1, <3>3, <3>4
  <2>4. s \in Seq(1 .. cut) /\ FreeCells \in Seq(1 .. cut)
    BY TheList
  <2> HIDE DEF s
  <2>5. IsInjective(FreeCells) /\ IsInjective(s)
    BY <2>3, <2>4 DEF Distinct, IsInjective
  <2>6. /\ \A x : x \in ToSet(s) <=> Has(s, x)
        /\ \A x : x \in ToSet(FreeCells) <=> Has(FreeCells, x)
    BY <2>4, ToSetHas
  <2>7. ToSet(s) \cap ToSet(FreeCells) = {}
    BY <2>3, <2>6
  <2>8. ToSet(FreeCells) \cup ToSet(s) = 1 .. cut
    <3>1. \A x : Has(s, x) \/ Has(FreeCells, x) => x \in 1 .. cut
      <4>1. /\ IsChain(s, next, next[headEntry], 1 .. cut, tailEntry)
            /\ IsChain(FreeCells, next, freeList, 1 .. cut, Null)
        BY TheList DEF s
      <4> QED BY <4>1, ChainIn
    <3> QED BY <2>3, <2>6, <3>1
  <2>9. UNION {ToSet(Chain(l)) : l \in exists} = ToSet(s)
    BY <2>1 DEF s
  <2> QED BY <2>1, <2>2, <2>5, <2>7, <2>8, <2>9 DEF PoolSound, s
<1>2. isDouble => Mirrored
  <2> SUFFICES ASSUME Backed(s, prev)
               PROVE  Mirrored
    BY DEF BackInv
  <2>1. s \in Seq(1 .. cut) /\ Len(s) \in Nat
    BY TheList
  <2> DEFINE t == <<headEntry>> \o s \o <<tailEntry>>
  <2> HIDE DEF s
  <2>2. /\ Len(t) = Len(s) + 2
        /\ t[1] = headEntry /\ t[Len(s) + 2] = tailEntry
        /\ \A i \in 1 .. Len(s) : t[i + 1] = s[i]
    BY <2>1, EntriesAre
  <2> HIDE DEF t
  <2>3. ASSUME NEW i \in 2 .. Len(t)
        PROVE  prev[t[i]] = t[i - 1]
    <3>1. CASE i = Len(s) + 2
      <4>1. CASE Len(s) = 0
        BY <2>2, <3>1, <4>1 DEF Backed
      <4>2. CASE Len(s) # 0
        <5>1. Len(s) \in 1 .. Len(s) /\ i - 1 = Len(s) + 1
          BY <2>1, <3>1, <4>2
        <5> QED BY <2>2, <3>1, <4>2, <5>1 DEF Backed
      <4> QED BY <4>1, <4>2
    <3>2. CASE i # Len(s) + 2
      <4>1. i - 1 \in 1 .. Len(s) /\ (i - 1) + 1 = i
        BY <2>1, <2>2, <3>2
      <4>2. t[i] = s[i - 1] /\ prev[s[i - 1]] = IF i - 1 = 1 THEN headEntry ELSE s[(i - 1) - 1]
        BY <2>2, <4>1 DEF Backed
      <4>3. CASE i - 1 = 1
        BY <2>2, <4>2, <4>3
      <4>4. CASE i - 1 # 1
        <5>1. (i - 1) - 1 \in 1 .. Len(s) /\ ((i - 1) - 1) + 1 = i - 1
          BY <2>1, <4>1, <4>4
        <5>2. t[i - 1] = s[(i - 1) - 1]
          BY <2>2, <5>1
        <5> QED BY <4>2, <4>4, <5>2
      <4> QED BY <4>3, <4>4
    <3> QED BY <3>1, <3>2
  <2>4. prev[headEntry] = headEntry
    BY DEF Backed
  <2> QED BY <2>3, <2>4 DEF Mirrored, t, s
<1>3. size[list] = Cardinality(Contained)
  <2>1. ObjectsOf(list) \in Seq(Objects) /\ Distinct(ObjectsOf(list))
    BY DEF DataInv
  <2>2. Cardinality(Contained) = Len(ObjectsOf(list))
    BY <2>1, CardinalityLen DEF Contained
  <2> QED BY <2>2, TheList, TheObjects
<1>4. isWrapper => itemsInContainer >= size[list]
  BY TheList DEF DataInv
<1> QED BY <1>1, <1>2, <1>3, <1>4 DEF ListWhole, DataInv

-----------------------------------------------------------------------------
(* A search along the links of a chain finds its first element with an equal
   object, or the sentinel at its end. *)
LEMMA Found ==
  ASSUME LinksInv, NEW links, NEW e, NEW end, end \notin 1 .. cut, NEW o, NEW r,
         IsChain(r, links, links[e], 1 .. cut, end)
  PROVE  \/ \E k \in 1 .. Len(r) :
              /\ FirstFound(links, e, end, o) = r[k] /\ Same(data[r[k]], o)
              /\ \A j \in 1 .. k - 1 : ~Same(data[r[j]], o)
         \/ /\ FirstFound(links, e, end, o) = end
            /\ \A j \in 1 .. Len(r) : ~Same(data[r[j]], o)
<1> DEFINE n == Len(r)
<1>1. cut \in Nat /\ r \in Seq(1 .. cut) /\ n \in Nat /\ n <= cut
  <2>1. cut \in Nat
    BY TheList
  <2>2. r \in Seq(1 .. cut) /\ n \in Nat /\ Distinct(r)
    BY ChainIn, ChainInjective
  <2> QED BY <2>1, <2>2, DistinctLen
<1> DEFINE f == CHOOSE f : Goes(f, links, e, cut + 1)
<1>2. \A i \in 0 .. cut + 1 : f[i] = IF i = 0 THEN e ELSE links[f[i - 1]]
  <2>1. Goes(f, links, e, cut + 1)
    BY <1>1, GoesExists
  <2> HIDE DEF f
  <2> QED BY <2>1 DEF Goes
<1> DEFINE hit(i) == f[i] = end \/ Same(data[f[i]], o)
           first(i) == hit(i) /\ \A j \in 1 .. i - 1 : ~hit(j)
<1>3. FirstFound(links, e, end, o) = f[CHOOSE i \in 1 .. cut + 1 : first(i)]
  BY DEF FirstFound, Goes
<1> HIDE DEF f
<1>4. \A i \in 1 .. n : f[i] = r[i]
  <2> DEFINE S == {k \in Nat : k + 1 \in 1 .. n => f[k + 1] = r[k + 1]}
  <2>1. 0 \in S
    <3>1. f[0] = e /\ f[1] = links[f[0]]
      BY <1>1, <1>2
    <3> QED BY <3>1 DEF IsChain
  <2>2. ASSUME NEW k \in Nat, k \in S
        PROVE  k + 1 \in S
    <3> SUFFICES ASSUME (k + 1) + 1 \in 1 .. n
                 PROVE  f[(k + 1) + 1] = r[(k + 1) + 1]
      OBVIOUS
    <3>1. /\ k + 1 \in 1 .. n /\ k + 1 # n
          /\ (k + 1) + 1 \in 0 .. cut + 1 /\ (k + 1) + 1 # 0 /\ (k + 1) + 1 - 1 = k + 1
      BY <1>1
    <3>2. f[(k + 1) + 1] = links[f[k + 1]] /\ f[k + 1] = r[k + 1]
      BY <1>2, <2>2, <3>1
    <3> QED BY <3>1, <3>2 DEF IsChain
  <2>3. \A k \in Nat : k \in S
    <3> HIDE DEF S
    <3> QED BY <2>1, <2>2, NatInduct
  <2> SUFFICES ASSUME NEW i \in 1 .. n
               PROVE  f[i] = r[i]
    OBVIOUS
  <2>4. i - 1 \in Nat /\ (i - 1) + 1 = i
    BY <1>1
  <2> QED BY <2>3, <2>4
<1>5. n + 1 \in 1 .. cut + 1 /\ f[n + 1] = end
  <2>1. /\ n + 1 \in 0 .. cut + 1 /\ n + 1 \in 1 .. cut + 1 /\ n + 1 # 0 /\ (n + 1) - 1 = n
        /\ 0 \in 0 .. cut + 1
    BY <1>1
  <2>2. f[n + 1] = links[f[n]] /\ f[0] = e
    BY <1>2, <2>1
  <2>3. CASE n = 0
    BY <2>1, <2>2, <2>3 DEF IsChain
  <2>4. CASE n # 0
    <3>1. n \in 1 .. n
      BY <1>1, <2>4
    <3> QED BY <1>4, <2>1, <2>2, <2>4, <3>1 DEF IsChain
  <2> QED BY <2>3, <2>4
<1>6. \A i \in 1 .. n : f[i] # end /\ (hit(i) <=> Same(data[r[i]], o))
  <2>1. \A i \in 1 .. n : r[i] \in 1 .. cut
    BY ChainIn
  <2> QED BY <1>4, <2>1
<1>7. \E i \in 1 .. cut + 1 : first(i)
  <2> DEFINE H == {i \in 1 .. cut + 1 : hit(i)}
  <2>1. H \in SUBSET Nat /\ n + 1 \in H
    BY <1>5
  <2>2. \E m \in H : \A i \in H : m <= i
    <3> HIDE DEF H
    <3> QED BY <2>1, Least
  <2>3. PICK m \in H : \A i \in H : m <= i
    BY <2>2
  <2>4. ASSUME NEW j \in 1 .. m - 1
        PROVE  ~hit(j)
    <3>1. j \in 1 .. cut + 1 /\ ~(m <= j)
      BY <1>1, <2>3
    <3> QED BY <2>3, <3>1
  <2> QED BY <2>3, <2>4
<1>8. PICK i \in 1 .. cut + 1 : first(i) /\ FirstFound(links, e, end, o) = f[i]
  BY <1>3, <1>7
<1>9. i <= n + 1
  <2>1. SUFFICES ASSUME i > n + 1
                 PROVE  FALSE
    BY <1>1
  <2>2. n + 1 \in 1 .. i - 1
    BY <1>1, <2>1
  <2> QED BY <1>5, <1>8, <2>2
<1>10. \A j \in 1 .. i - 1 : j \in 1 .. n /\ ~Same(data[r[j]], o)
  <2>1. \A j \in 1 .. i - 1 : j \in 1 .. n
    BY <1>1, <1>9
  <2> QED BY <1>6, <1>8, <2>1
<1>11. CASE i = n + 1
  <2>1. \A j \in 1 .. n : j \in 1 .. i - 1
    BY <1>1, <1>11
  <2> QED BY <1>5, <1>8, <1>10, <1>11, <2>1
<1>12. CASE i # n + 1
  <2>1. i \in 1 .. n
    BY <1>1, <1>9, <1>12
  <2>2. FirstFound(links, e, end, o) = r[i] /\ Same(data[r[i]], o)
    BY <1>4, <1>6, <1>8, <2>1
  <2> QED BY <1>10, <2>1, <2>2
<1> QED BY <1>11, <1>12

(* findPred finds the entry before it. *)
LEMMA FoundPred ==
  ASSUME LinksInv, NEW o
  PROVE  LET s == Chain(list)
         IN  \/ \E k \in 1 .. Len(s) :
                  /\ findPred(list, o) = IF k = 1 THEN headEntry ELSE s[k - 1]
                  /\ next[findPred(list, o)] = s[k] /\ Same(data[s[k]], o)
                  /\ \A j \in 1 .. k - 1 : ~Same(data[s[j]], o)
             \/ /\ next[findPred(list, o)] = tailEntry
                /\ \A j \in 1 .. Len(s) : ~Same(data[s[j]], o)
<1> DEFINE s == Chain(list)
           n == Len(s)
           t == <<headEntry>> \o s
           hit(i) == i = Len(t) \/ Same(data[t[i + 1]], o)
           first(i) == hit(i) /\ \A j \in 1 .. i - 1 : ~hit(j)
<1>1. /\ s \in Seq(1 .. cut) /\ n \in Nat
      /\ IsChain(s, next, next[headEntry], 1 .. cut, tailEntry)
  BY TheList
<1>2. /\ Len(t) = n + 1 /\ t[1] = headEntry /\ \A i \in 1 .. n : t[i + 1] = s[i]
      /\ DOMAIN t = 1 .. n + 1
  <2> HIDE DEF s
  <2> QED BY <1>1, EntriesAre
<1>3. findPred(list, o) = t[CHOOSE i \in DOMAIN t : first(i)]
  BY DEF findPred, headEntry
<1> HIDE DEF s, t
<1>4. \E i \in 1 .. n + 1 : first(i)
  <2> DEFINE H == {i \in 1 .. n + 1 : hit(i)}
  <2>1. H \in SUBSET Nat /\ n + 1 \in H
    BY <1>1, <1>2
  <2>2. \E m \in H : \A i \in H : m <= i
    <3> HIDE DEF H
    <3> QED BY <2>1, Least
  <2>3. PICK m \in H : \A i \in H : m <= i
    BY <2>2
  <2>4. ASSUME NEW j \in 1 .. m - 1
        PROVE  ~hit(j)
    <3>1. j \in 1 .. n + 1 /\ ~(m <= j)
      BY <1>1, <2>3
    <3> QED BY <2>3, <3>1
  <2> QED BY <2>3, <2>4
<1>5. PICK i \in 1 .. n + 1 : first(i) /\ findPred(list, o) = t[i]
  BY <1>2, <1>3, <1>4
<1>6. next[t[i]] = IF i = n + 1 THEN tailEntry ELSE s[i]
  <2>1. CASE i = 1
    BY <1>1, <1>2, <2>1 DEF IsChain
  <2>2. CASE i # 1
    <3>1. i - 1 \in 1 .. n /\ (i - 1) + 1 = i /\ (i - 1 = n <=> i = n + 1)
      BY <1>1, <2>2
    <3>2. t[i] = s[i - 1]
      BY <1>2, <3>1
    <3> QED BY <1>1, <3>1, <3>2 DEF IsChain
  <2> QED BY <2>1, <2>2
<1>7. \A j \in 1 .. i - 1 : j \in 1 .. n /\ ~Same(data[s[j]], o)
  <2>1. \A j \in 1 .. i - 1 : j \in 1 .. n
    BY <1>1
  <2> QED BY <1>2, <1>5, <2>1
<1>8. CASE i = n + 1
  <2>1. \A j \in 1 .. n : j \in 1 .. i - 1
    BY <1>1, <1>8
  <2> QED BY <1>5, <1>6, <1>7, <1>8, <2>1 DEF s
<1>9. CASE i # n + 1
  <2>1. i \in 1 .. n
    BY <1>1, <1>9
  <2>2. Same(data[s[i]], o) /\ next[findPred(list, o)] = s[i]
    BY <1>2, <1>5, <1>6, <1>9, <2>1
  <2>3. findPred(list, o) = IF i = 1 THEN headEntry ELSE s[i - 1]
    <3>1. i # 1 => i - 1 \in 1 .. n /\ (i - 1) + 1 = i
      BY <1>1
    <3> QED BY <1>2, <1>5, <3>1
  <2> QED BY <1>7, <2>1, <2>2, <2>3 DEF s
<1> QED BY <1>8, <1>9

(* The links back are a chain of the same elements, reversed. *)
Reversed(s) == [i \in 1 .. Len(s) |-> s[Len(s) + 1 - i]]

LEMMA BackIsChain ==
  ASSUME NEW n \in Nat, NEW s \in Seq(1 .. n), NEW prv, Backed(s, prv)
  PROVE  /\ IsChain(Reversed(s), prv, prv[tailEntry], 1 .. n, headEntry)
         /\ Len(Reversed(s)) = Len(s)
         /\ \A i \in 1 .. Len(s) : /\ Reversed(s)[i] = s[Len(s) + 1 - i]
                                   /\ Len(s) + 1 - i \in 1 .. Len(s)
<1> DEFINE r == Reversed(s)
<1>1. Len(s) \in Nat
  OBVIOUS
<1>2. \A i \in 1 .. Len(s) : Len(s) + 1 - i \in 1 .. Len(s)
  BY <1>1
<1>3. r \in [1 .. Len(s) -> 1 .. n]
  BY <1>2 DEF Reversed
<1>4. /\ r \in Seq(1 .. n) /\ Len(r) = Len(s)
      /\ \A i \in 1 .. Len(s) : r[i] = s[Len(s) + 1 - i]
  BY <1>1, <1>3 DEF Reversed
<1> HIDE DEF r
<1>5. ASSUME NEW i \in 1 .. Len(s)
      PROVE  prv[r[i]] = IF i = Len(s) THEN headEntry ELSE r[i + 1]
  <2> DEFINE k == Len(s) + 1 - i
  <2>1. /\ k \in 1 .. Len(s) /\ (k = 1 <=> i = Len(s))
        /\ i # Len(s) => i + 1 \in 1 .. Len(s) /\ Len(s) + 1 - (i + 1) = k - 1
    BY <1>1
  <2>2. r[i] = s[k]
    BY <1>4
  <2> HIDE DEF k
  <2>3. prv[s[k]] = IF k = 1 THEN headEntry ELSE s[k - 1]
    BY <2>1 DEF Backed
  <2>4. i # Len(s) => r[i + 1] = s[k - 1]
    BY <1>4, <2>1
  <2> QED BY <2>1, <2>2, <2>3, <2>4
<1>6. prv[tailEntry] = IF Len(r) = 0 THEN headEntry ELSE r[1]
  <2>1. Len(s) # 0 => 1 \in 1 .. Len(s) /\ Len(s) + 1 - 1 = Len(s)
    BY <1>1
  <2>2. Len(s) # 0 => r[1] = s[Len(s)]
    BY <1>4, <2>1
  <2> QED BY <1>4, <2>2 DEF Backed
<1>7. IsChain(r, prv, prv[tailEntry], 1 .. n, headEntry)
  BY <1>4, <1>5, <1>6 DEF IsChain
<1> QED BY <1>2, <1>4, <1>7 DEF r

-----------------------------------------------------------------------------
(* The links back as an element comes or goes. *)
LEMMA BackPush ==
  ASSUME NEW n \in Nat, NEW s \in Seq(1 .. n), Distinct(s), 1 .. n \subseteq Elements,
         NEW prv, Backed(s, prv), NEW e \in Elements, ~Has(s, e), NEW x, NEW prv2,
         x = IF Len(s) = 0 THEN tailEntry ELSE s[1],
         prv2 = [prv EXCEPT ![e] = headEntry, ![x] = e]
  PROVE  Backed(<<e>> \o s, prv2)
<1> DEFINE t == <<e>> \o s
<1>1. /\ Len(s) \in Nat /\ \A i \in 1 .. Len(s) : s[i] \in 1 .. n
      /\ Len(t) = Len(s) + 1 /\ t[1] = e
      /\ \A i \in 1 .. Len(s) + 1 : i # 1 => t[i] = s[i - 1]
  OBVIOUS
<1>2. /\ \A i \in 1 .. Len(s) : /\ s[i] \in Elements /\ s[i] \in Entries /\ s[i] # e
                                /\ s[i] # headEntry /\ s[i] # tailEntry
      /\ e \in Entries /\ headEntry \in Entries /\ tailEntry \in Entries
      /\ e # headEntry /\ e # tailEntry /\ headEntry # tailEntry
  <2>1. \A i \in 1 .. Len(s) : s[i] \in Elements
    BY <1>1
  <2>2. \A i \in 1 .. Len(s) : s[i] # e
    BY DEF Has
  <2> QED BY <2>1, <2>2, SentinelsApart
<1>3. x \in Entries /\ x # e /\ x # headEntry
  BY <1>1, <1>2
<1>4. /\ prv2 \in [Entries -> Entries \cup {Null}]
      /\ \A y \in Entries : prv2[y] = IF y = x THEN e ELSE IF y = e THEN headEntry ELSE prv[y]
  BY <1>2, <1>3 DEF Backed
<1> HIDE DEF t
<1>5. prv2[headEntry] = headEntry
  BY <1>2, <1>3, <1>4 DEF Backed
<1>6. prv2[tailEntry] = t[Len(t)]
  <2>1. CASE Len(s) = 0
    BY <1>1, <1>2, <1>4, <2>1
  <2>2. CASE Len(s) # 0
    <3>1. Len(s) + 1 # 1 /\ (Len(s) + 1) - 1 = Len(s) /\ 1 \in 1 .. Len(s) /\ Len(s) + 1 \in 1 .. Len(s) + 1
      BY <1>1, <2>2
    <3>2. t[Len(t)] = s[Len(s)] /\ prv2[tailEntry] = prv[tailEntry]
      BY <1>1, <1>2, <1>4, <2>2, <3>1
    <3> QED BY <2>2, <3>2 DEF Backed
  <2> QED BY <2>1, <2>2
<1>7. ASSUME NEW i \in 1 .. Len(t)
      PROVE  prv2[t[i]] = IF i = 1 THEN headEntry ELSE t[i - 1]
  <2>1. CASE i = 1
    BY <1>1, <1>2, <1>3, <1>4, <2>1
  <2>2. CASE i = 2
    <3>1. Len(s) # 0 /\ t[2] = s[1] /\ 1 \in 1 .. Len(s)
      BY <1>1, <2>2
    <3> QED BY <1>1, <1>2, <1>4, <2>2, <3>1
  <2>3. CASE i # 1 /\ i # 2
    <3>1. /\ i - 1 \in 1 .. Len(s) /\ i - 1 # 1 /\ 1 \in 1 .. Len(s) /\ Len(s) # 0
          /\ i - 1 \in 1 .. Len(s) + 1 /\ i \in 1 .. Len(s) + 1
      BY <1>1, <2>3
    <3>2. t[i] = s[i - 1] /\ t[i - 1] = s[(i - 1) - 1]
      BY <1>1, <2>3, <3>1
    <3>3. s[i - 1] # x
      BY <3>1 DEF Distinct
    <3>4. prv2[s[i - 1]] = prv[s[i - 1]]
      BY <1>2, <1>4, <3>1, <3>3
    <3> QED BY <2>3, <3>1, <3>2, <3>4 DEF Backed
  <2> QED BY <2>1, <2>2, <2>3
<1>8. Len(t) # 0
  BY <1>1
<1> QED BY <1>4, <1>5, <1>6, <1>7, <1>8 DEF Backed, t

LEMMA BackAppend ==
  ASSUME NEW n \in Nat, NEW s \in Seq(1 .. n), Distinct(s), 1 .. n \subseteq Elements,
         NEW prv, Backed(s, prv), NEW e \in Elements, ~Has(s, e), NEW prv2,
         prv2 = [prv EXCEPT ![e] = prv[tailEntry], ![tailEntry] = e]
  PROVE  Backed(Append(s, e), prv2)
<1> DEFINE t == Append(s, e)
<1>1. /\ Len(s) \in Nat /\ \A i \in 1 .. Len(s) : s[i] \in 1 .. n
      /\ Len(t) = Len(s) + 1
      /\ \A i \in 1 .. Len(s) + 1 : t[i] = IF i = Len(s) + 1 THEN e ELSE s[i]
  OBVIOUS
<1>2. /\ \A i \in 1 .. Len(s) : /\ s[i] \in Elements /\ s[i] \in Entries /\ s[i] # e
                                /\ s[i] # headEntry /\ s[i] # tailEntry
      /\ e \in Entries /\ headEntry \in Entries /\ tailEntry \in Entries
      /\ e # headEntry /\ e # tailEntry /\ headEntry # tailEntry
  <2>1. \A i \in 1 .. Len(s) : s[i] \in Elements
    BY <1>1
  <2>2. \A i \in 1 .. Len(s) : s[i] # e
    BY DEF Has
  <2> QED BY <2>1, <2>2, SentinelsApart
<1>3. /\ prv2 \in [Entries -> Entries \cup {Null}]
      /\ \A y \in Entries : prv2[y] = IF y = tailEntry THEN e ELSE IF y = e THEN prv[tailEntry] ELSE prv[y]
  BY <1>2 DEF Backed
<1> HIDE DEF t
<1>4. ASSUME NEW i \in 1 .. Len(t)
      PROVE  prv2[t[i]] = IF i = 1 THEN headEntry ELSE t[i - 1]
  <2>1. CASE i = Len(s) + 1
    <3>1. t[i] = e /\ prv2[e] = prv[tailEntry] /\ (i = 1 <=> Len(s) = 0)
      BY <1>1, <1>2, <1>3, <2>1
    <3>2. i # 1 => i - 1 \in 1 .. Len(s) + 1 /\ i - 1 = Len(s) /\ t[i - 1] = s[Len(s)]
      BY <1>1, <2>1
    <3> QED BY <3>1, <3>2 DEF Backed
  <2>2. CASE i # Len(s) + 1
    <3>1. i \in 1 .. Len(s) /\ t[i] = s[i]
      BY <1>1, <2>2
    <3>2. i # 1 => i - 1 \in 1 .. Len(s) + 1 /\ i - 1 # Len(s) + 1 /\ t[i - 1] = s[i - 1]
      BY <1>1, <3>1
    <3>3. prv2[s[i]] = prv[s[i]]
      BY <1>2, <1>3, <3>1
    <3> QED BY <3>1, <3>2, <3>3 DEF Backed
  <2> QED BY <2>1, <2>2
<1>5. /\ prv2[headEntry] = headEntry /\ prv2[tailEntry] = e
      /\ Len(t) # 0 /\ t[Len(t)] = e
  <2>1. Len(s) + 1 \in 1 .. Len(s) + 1 /\ Len(s) + 1 # 0
    BY <1>1
  <2> QED BY <1>1, <1>2, <1>3, <2>1 DEF Backed
<1> QED BY <1>3, <1>4, <1>5 DEF Backed, t

LEMMA BackWithout ==
  ASSUME NEW n \in Nat, NEW s \in Seq(1 .. n), Distinct(s), 1 .. n \subseteq Elements,
         NEW prv, Backed(s, prv), NEW k \in 1 .. Len(s), NEW x, NEW prv2,
         x = IF k = Len(s) THEN tailEntry ELSE s[k + 1],
         prv2 = [prv EXCEPT ![x] = prv[s[k]]]
  PROVE  Backed(Without(s, k), prv2)
<1> DEFINE t == Without(s, k)
<1>1. /\ Len(s) \in Nat /\ Len(s) # 0 /\ k \in 1 .. Len(s)
      /\ \A i \in 1 .. Len(s) : s[i] \in 1 .. n
      /\ Len(t) = Len(s) - 1 /\ Len(t) \in Nat
      /\ \A i \in 1 .. Len(s) - 1 : t[i] = IF i < k THEN s[i] ELSE s[i + 1]
  <2>1. /\ Len(s) \in Nat /\ Len(s) # 0 /\ k \in 1 .. Len(s)
        /\ \A i \in 1 .. Len(s) : s[i] \in 1 .. n
    OBVIOUS
  <2>2. /\ Len(t) = Len(s) - 1
        /\ \A i \in 1 .. Len(s) - 1 : t[i] = IF i < k THEN s[i] ELSE s[i + 1]
    BY WithoutSeq
  <2> HIDE DEF t
  <2>3. Len(t) \in Nat
    BY <2>1, <2>2
  <2> QED BY <2>1, <2>2, <2>3
<1>2. /\ \A i \in 1 .. Len(s) : /\ s[i] \in Elements /\ s[i] \in Entries
                                /\ s[i] # headEntry /\ s[i] # tailEntry
      /\ headEntry \in Entries /\ tailEntry \in Entries /\ headEntry # tailEntry
  <2>1. \A i \in 1 .. Len(s) : s[i] \in Elements
    BY <1>1
  <2> QED BY <2>1, SentinelsApart
<1>3. k # Len(s) => k + 1 \in 1 .. Len(s)
  BY <1>1
<1>4. x \in Entries /\ x # headEntry
  BY <1>2, <1>3
<1>5. prv[s[k]] = IF k = 1 THEN headEntry ELSE s[k - 1]
  BY <1>1 DEF Backed
<1>6. prv[s[k]] \in Entries
  <2>1. k # 1 => k - 1 \in 1 .. Len(s)
    BY <1>1
  <2> QED BY <1>2, <1>5, <2>1
<1>7. /\ prv2 \in [Entries -> Entries \cup {Null}]
      /\ \A y \in Entries : prv2[y] = IF y = x THEN prv[s[k]] ELSE prv[y]
  BY <1>4, <1>6 DEF Backed
<1> HIDE DEF t
<1>8. ASSUME NEW i \in 1 .. Len(t)
      PROVE  prv2[t[i]] = IF i = 1 THEN headEntry ELSE t[i - 1]
  <2>1. CASE i < k
    <3>1. i \in 1 .. Len(s) /\ i # k + 1 /\ t[i] = s[i]
      BY <1>1, <2>1
    <3>2. s[i] # x
      BY <1>2, <1>3, <3>1 DEF Distinct
    <3>3. i # 1 => i - 1 \in 1 .. Len(s) - 1 /\ i - 1 < k /\ t[i - 1] = s[i - 1]
      BY <1>1, <2>1
    <3>4. prv2[s[i]] = prv[s[i]]
      BY <1>2, <1>7, <3>1, <3>2
    <3> QED BY <3>1, <3>3, <3>4 DEF Backed
  <2>2. CASE i = k
    <3>1. k # Len(s) /\ t[i] = s[k + 1] /\ x = s[k + 1]
      BY <1>1, <2>2
    <3>2. prv2[t[i]] = prv[s[k]]
      BY <1>4, <1>7, <3>1
    <3>3. i # 1 => i - 1 \in 1 .. Len(s) - 1 /\ i - 1 < k /\ t[i - 1] = s[i - 1]
      BY <1>1, <2>2
    <3> QED BY <1>5, <2>2, <3>2, <3>3
  <2>3. CASE i > k
    <3>1. i + 1 \in 1 .. Len(s) /\ i + 1 # k + 1 /\ i + 1 # 1 /\ (i + 1) - 1 = i /\ t[i] = s[i + 1]
      <4>3. i \in Nat /\ k \in Nat /\ i > k /\ k >= 1 /\ i <= Len(s) - 1 /\ Len(s) \in Nat
        BY <1>1, <2>3
      <4>1. i + 1 \in 1 .. Len(s) /\ i + 1 # k + 1 /\ i + 1 # 1 /\ (i + 1) - 1 = i
        BY <4>3
      <4>2. i \in 1 .. Len(s) - 1 /\ ~(i < k)
        BY <1>1, <2>3
      <4> QED BY <1>1, <4>1, <4>2
    <3>2. s[i + 1] # x
      BY <1>2, <1>3, <3>1 DEF Distinct
    <3>3. i # 1 /\ t[i - 1] = s[i]
      <4>1. i - 1 \in 1 .. Len(s) - 1 /\ ~(i - 1 < k) /\ (i - 1) + 1 = i /\ i # 1
        BY <1>1, <2>3
      <4> QED BY <1>1, <4>1
    <3>4. prv2[s[i + 1]] = prv[s[i + 1]]
      BY <1>2, <1>7, <3>1, <3>2
    <3>5. prv[s[i + 1]] = s[i]
      BY <3>1 DEF Backed
    <3> QED BY <3>1, <3>3, <3>4, <3>5
  <2> QED BY <1>1, <2>1, <2>2, <2>3
<1>9. prv2[headEntry] = headEntry
  BY <1>2, <1>4, <1>7 DEF Backed
<1>10. prv2[tailEntry] = IF Len(t) = 0 THEN headEntry ELSE t[Len(t)]
  <2>1. CASE k = Len(s)
    <3>1. prv2[tailEntry] = IF k = 1 THEN headEntry ELSE s[k - 1]
      BY <1>2, <1>5, <1>7, <2>1
    <3>2. /\ Len(t) = 0 <=> k = 1
          /\ k # 1 => Len(t) = k - 1 /\ k - 1 \in 1 .. Len(s) - 1 /\ k - 1 < k
      BY <1>1, <2>1
    <3> QED BY <1>1, <3>1, <3>2
  <2>2. CASE k # Len(s)
    <3>1. x # tailEntry
      BY <1>2, <1>3, <2>2
    <3>2. Len(t) # 0 /\ Len(t) \in 1 .. Len(s) - 1 /\ ~(Len(t) < k) /\ Len(t) + 1 = Len(s)
      BY <1>1, <2>2
    <3>3. prv2[tailEntry] = s[Len(s)]
      BY <1>1, <1>2, <1>7, <3>1 DEF Backed
    <3> QED BY <1>1, <3>2, <3>3
  <2> QED BY <2>1, <2>2
<1> QED BY <1>7, <1>8, <1>9, <1>10 DEF Backed, t
LEMMA BackEmpty ==
  ASSUME NEW s, NEW prv, Backed(s, prv), NEW prv2,
         prv2 = [prv EXCEPT ![tailEntry] = headEntry]
  PROVE  Backed(<< >>, prv2)
<1>1. Len(<< >>) = 0
  OBVIOUS
<1> QED BY <1>1, SentinelsApart DEF Backed

-----------------------------------------------------------------------------
(* The list after a step. *)
LEMMA LinksAfter ==
  ASSUME NEW s, NEW f, next' \in [Entries -> Entries \cup {Null}], exists' = {list},
         Linked(Only(s), f, next', freeList', cut', heads, tails, MaxElements),
         size' = [l \in Lists |-> Len(s)]
  PROVE  LinksInv' /\ Chain(list)' = s /\ ObjectsOf(list)' = Mapped(s, data')
<1>1. Chain(list)' = s /\ FreeCells' = f /\ Chains' = Only(s)
  BY ListAfter
<1>2. LinksInv'
  BY <1>1 DEF LinksInv
<1>3. ObjectsOf(list)' = Mapped(s, data')
  BY <1>1 DEF ObjectsOf, Mapped
<1> QED BY <1>1, <1>2, <1>3

LEMMA OnlyOne ==
  ASSUME NEW s, NEW t
  PROVE  /\ DOMAIN Only(s) = {list} /\ Only(s)[list] = s /\ ListAt(Only(s), list) = s
         /\ With(Only(s), list, t) = Only(t)
         /\ DOMAIN Only(s) \subseteq Lists /\ list \in Lists
BY EntriesAre DEF Only, ListAt, With

(* A new element is none that the list has. *)
LEMMA NewIsNew ==
  ASSUME LinksInv, HasRoom
  PROVE  /\ NewElement \in Elements /\ NewElement = CellFor(freeList, cut)
         /\ ~Has(Chain(list), NewElement)
         /\ cut' = CutThen(freeList, cut) => cut' \in Nat /\ NewElement \in 1 .. cut'
                                             /\ 1 .. cut \subseteq 1 .. cut'
<1> DEFINE s == Chain(list)
           e == NewElement
<1>1. e \in 1 .. MaxElements /\ e = CellFor(freeList, cut) /\ e \in Elements
  BY EntriesAre DEF HasRoom, NewElement, CellFor, Null
<1>2. Linked(Only(s), FreeCells, next, freeList, cut, heads, tails, MaxElements)
  BY TheList
<1> HIDE DEF s, e
<1>3. /\ CutThen(freeList, cut) \in cut .. MaxElements /\ e \in 1 .. CutThen(freeList, cut)
      /\ \A l \in DOMAIN Only(s) : ~Has(Only(s)[l], e)
  BY <1>1, <1>2, EntriesAre, OnlyOne, NewCell
<1>4. ~Has(s, e)
  BY <1>3, OnlyOne
<1>5. CutThen(freeList, cut) \in Nat /\ 1 .. cut \subseteq 1 .. CutThen(freeList, cut)
  BY <1>3, TheList, EntriesAre
<1> QED BY <1>1, <1>3, <1>4, <1>5 DEF s, e
(* An object is added at the front: the list has its element and its object
   first. *)
LEMMA PutFront ==
  ASSUME LinksInv, BackInv, DataInv, NEW o \in held, HasRoom, UNCHANGED kind,
         IF isDouble THEN addAtHead(o) ELSE Add(list, o) /\ UNCHANGED prev
  PROVE  /\ LinksInv' /\ BackInv' /\ NewElement \in Elements /\ data' = [data EXCEPT ![NewElement] = o]
         /\ Chain(list)' = <<NewElement>> \o Chain(list)
         /\ ObjectsOf(list)' = <<o>> \o ObjectsOf(list)
<1> DEFINE s == Chain(list)
           e == NewElement
           f == RestFree(FreeCells)
<1>1. /\ e \in Elements /\ e = CellFor(freeList, cut) /\ ~Has(s, e)
      /\ e \in Entries /\ e # headEntry /\ e # tailEntry
      /\ headEntry \in Entries /\ tailEntry \in Entries /\ headEntry # tailEntry
      /\ list \in Lists /\ o \in Objects
  BY NewIsNew, SentinelsApart, EntriesAre DEF DataInv
<1>2. /\ next \in [Entries -> Entries \cup {Null}] /\ exists = {list}
      /\ size = [l \in Lists |-> Len(s)] /\ next[tailEntry] = tailEntry
      /\ next[headEntry] \in Entries \cup {Null}
  BY <1>1, TheList DEF LinksInv
<1>3. /\ s \in Seq(1 .. cut) /\ Len(s) \in Nat /\ Distinct(s) /\ 1 .. cut \subseteq Elements
      /\ s \in Seq(Elements)
  <2>1. s \in Seq(1 .. cut) /\ Len(s) \in Nat /\ Distinct(s) /\ cut \in 0 .. MaxElements
    BY TheList
  <2>2. 1 .. cut \subseteq Elements
    BY <2>1, EntriesAre
  <2> HIDE DEF s
  <2> QED BY <2>1, <2>2
<1>4. /\ exists' = {list}
      /\ freeList' = FreeThen(next, freeList) /\ cut' = CutThen(freeList, cut)
      /\ data' = [data EXCEPT ![e] = o] /\ size' = [size EXCEPT ![list] = @ + 1]
      /\ next' = [next EXCEPT ![e] = next[headEntry], ![headEntry] = e]
      /\ isDouble => prev' = [prev EXCEPT ![e] = headEntry, ![next[headEntry]] = e]
  <2>1. CASE isDouble
    BY <1>2, <2>1 DEF addAtHead, LinkBetween, FreeThen, CutThen, Null
  <2>2. CASE ~isDouble
    <3>1. next' = [next EXCEPT ![e] = next[headEntry], ![headEntry] = e, ![tailEntry] = tailEntry]
      BY <1>2, <2>2 DEF Add, headEntry, tailEntry
    <3>2. next' = [next EXCEPT ![e] = next[headEntry], ![headEntry] = e]
      <4> HIDE DEF e
      <4> QED BY <1>1, <1>2, <3>1
    <3> QED BY <1>2, <2>2, <3>2 DEF Add, FreeThen, CutThen, Null
  <2> QED BY <2>1, <2>2
<1> HIDE DEF s, e
<1>5. /\ next' \in [Entries -> Entries \cup {Null}]
      /\ next'[e] = next[headEntry] /\ next'[headEntry] = e
      /\ \A x \in Entries : x \notin {e, headEntry} => next'[x] = next[x]
  BY <1>1, <1>2, <1>4
<1>6. Linked(Only(<<e>> \o s), f, next', freeList', cut', heads, tails, MaxElements)
  <2>1. Linked(Only(s), FreeCells, next, freeList, cut, heads, tails, MaxElements)
    BY TheList DEF s
  <2>2. /\ next'[tailEntry] = tailEntry
        /\ \A x \in Entries : x \notin {e, headEntry, tailEntry} => next'[x] = next[x]
    BY <1>1, <1>2, <1>5
  <2>3. /\ e \in 1 .. MaxElements /\ MaxElements \in Nat
        /\ Sentinels(heads, tails, Lists, MaxElements)
        /\ next'[e] = IF list \in DOMAIN Only(s) THEN next[heads[list]] ELSE tails[list]
        /\ next'[heads[list]] = e /\ next'[tails[list]] = tails[list]
    BY <1>1, <1>5, <2>2, EntriesAre, OnlyOne
  <2>4. \A x \in Nodes(heads, tails, Lists, MaxElements) :
          x \notin {e, heads[list], tails[list]} => next'[x] = next[x]
    BY <2>2, EntriesAre
  <2>5. DOMAIN Only(s) \subseteq Lists /\ list \in Lists
    BY OnlyOne
  <2>6. Linked(With(Only(s), list, <<e>> \o ListAt(Only(s), list)), f, next',
               FreeThen(next, freeList), CutThen(freeList, cut), heads, tails, MaxElements)
    BY <1>1, <2>1, <2>3, <2>4, <2>5, AddedFront
  <2> QED BY <1>4, <2>6, OnlyOne
<1>7. size' = [l \in Lists |-> Len(<<e>> \o s)]
  <2>1. Len(<<e>> \o s) = Len(s) + 1
    BY <1>1, <1>3
  <2>2. Lists = {list}
    BY EntriesAre
  <2> QED BY <1>2, <1>4, <2>1, <2>2
<1>8. LinksInv' /\ Chain(list)' = <<e>> \o s /\ ObjectsOf(list)' = Mapped(<<e>> \o s, data')
  BY <1>4, <1>5, <1>6, <1>7, LinksAfter
<1>9. ObjectsOf(list)' = <<o>> \o ObjectsOf(list)
  <2>1. ObjectsOf(list) = Mapped(s, data) /\ ObjectsOf(list) \in Seq(Objects)
    BY DEF ObjectsOf, Mapped, DataInv, s
  <2>2. data'[e] = o /\ \A x \in Entries : x # e => data'[x] = data[x]
    BY <1>1, <1>4 DEF DataInv
  <2>3. \A i \in 1 .. Len(s) : s[i] \in Entries /\ s[i] # e
    <3>1. \A i \in 1 .. Len(s) : s[i] \in Elements
      BY <1>3
    <3>2. \A i \in 1 .. Len(s) : s[i] # e
      BY <1>1 DEF Has
    <3> QED BY <3>1, <3>2, SentinelsApart
  <2>4. SameOn(s, data, data')
    BY <2>2, <2>3 DEF SameOn
  <2>5. s \in Seq(Elements)
    BY <1>3
  <2>6. Mapped(s, data) \in Seq(Objects) /\ e \in Elements /\ o \in Objects /\ data'[e] = o
    BY <1>1, <2>1, <2>2
  <2>7. Mapped(Push(e, s), data') = Push(o, Mapped(s, data))
    BY <2>4, <2>5, <2>6, MapPush
  <2> QED BY <1>8, <2>1, <2>7 DEF Push
<1>10. BackInv'
  <2> SUFFICES ASSUME isDouble'
               PROVE  Backed(<<e>> \o s, prev')
    BY <1>8 DEF BackInv
  <2>1. isDouble /\ Backed(s, prev)
    BY DEF BackInv, isDouble, s
  <2>2. next[headEntry] = IF Len(s) = 0 THEN tailEntry ELSE s[1]
    BY TheList DEF s, IsChain
  <2>3. /\ prev' = [prev EXCEPT ![e] = headEntry, ![next[headEntry]] = e]
        /\ cut \in Nat
    BY <1>4, <2>1, TheList
  <2> QED BY <1>1, <1>3, <2>1, <2>2, <2>3, BackPush
<1> QED BY <1>1, <1>4, <1>8, <1>9, <1>10 DEF s, e

(* An object is added at the back, to a list that is linked both ways. *)
LEMMA PutBack ==
  ASSUME LinksInv, BackInv, DataInv, NEW o \in held, HasRoom, UNCHANGED kind, isDouble,
         addAtTail(o)
  PROVE  /\ LinksInv' /\ BackInv' /\ NewElement \in Elements /\ data' = [data EXCEPT ![NewElement] = o]
         /\ Chain(list)' = Append(Chain(list), NewElement)
         /\ ObjectsOf(list)' = Append(ObjectsOf(list), o)
<1> DEFINE s == Chain(list)
           e == NewElement
           f == RestFree(FreeCells)
           p == IF Len(s) = 0 THEN headEntry ELSE s[Len(s)]
<1>1. /\ e \in Elements /\ e = CellFor(freeList, cut) /\ ~Has(s, e)
      /\ e \in Entries /\ e # headEntry /\ e # tailEntry
      /\ headEntry \in Entries /\ tailEntry \in Entries /\ headEntry # tailEntry
      /\ list \in Lists /\ o \in Objects
  BY NewIsNew, SentinelsApart, EntriesAre DEF DataInv
<1>2. /\ next \in [Entries -> Entries \cup {Null}] /\ exists = {list}
      /\ size = [l \in Lists |-> Len(s)] /\ Backed(s, prev)
  BY <1>1 DEF LinksInv, BackInv
<1>3. /\ s \in Seq(1 .. cut) /\ Len(s) \in Nat /\ Distinct(s) /\ 1 .. cut \subseteq Elements
      /\ s \in Seq(Elements)
  <2>1. s \in Seq(1 .. cut) /\ Len(s) \in Nat /\ Distinct(s) /\ cut \in 0 .. MaxElements
    BY TheList
  <2>2. 1 .. cut \subseteq Elements
    BY <2>1, EntriesAre
  <2> HIDE DEF s
  <2> QED BY <2>1, <2>2
<1>4. /\ exists' = {list}
      /\ freeList' = FreeThen(next, freeList) /\ cut' = CutThen(freeList, cut)
      /\ data' = [data EXCEPT ![e] = o] /\ size' = [size EXCEPT ![list] = @ + 1]
      /\ next' = [next EXCEPT ![e] = tailEntry, ![prev[tailEntry]] = e]
      /\ prev' = [prev EXCEPT ![e] = prev[tailEntry], ![tailEntry] = e]
  BY <1>2 DEF addAtTail, LinkBetween, FreeThen, CutThen, Null
<1> HIDE DEF s, e
<1>5. prev[tailEntry] = p /\ p \in Entries /\ p # e /\ p # tailEntry
  <2>1. CASE Len(s) = 0
    BY <1>1, <1>2, <2>1 DEF Backed
  <2>2. CASE Len(s) # 0
    <3>1. Len(s) \in 1 .. Len(s)
      BY <1>3, <2>2
    <3>2. s[Len(s)] \in Elements
      BY <1>3, <3>1
    <3>3. s[Len(s)] # e
      BY <1>1, <3>1 DEF Has
    <3> QED BY <1>2, <2>2, <3>2, <3>3, SentinelsApart DEF Backed
  <2> QED BY <2>1, <2>2
<1> HIDE DEF p
<1>6. /\ next' \in [Entries -> Entries \cup {Null}]
      /\ next'[e] = tailEntry /\ next'[p] = e
      /\ \A x \in Entries : x \notin {e, p} => next'[x] = next[x]
  BY <1>1, <1>2, <1>4, <1>5
<1>7. Linked(Only(Append(s, e)), f, next', freeList', cut', heads, tails, MaxElements)
  <2>1. Linked(Only(s), FreeCells, next, freeList, cut, heads, tails, MaxElements)
    BY TheList DEF s
  <2>2. p = IF Len(Only(s)[list]) = 0 THEN heads[list] ELSE Only(s)[list][Len(Only(s)[list])]
    BY EntriesAre, OnlyOne DEF p
  <2>3. /\ e \in 1 .. MaxElements /\ MaxElements \in Nat
        /\ Sentinels(heads, tails, Lists, MaxElements)
        /\ next'[e] = tails[list]
    BY <1>1, <1>6, EntriesAre
  <2>4. \A x \in Nodes(heads, tails, Lists, MaxElements) : x \notin {e, p} => next'[x] = next[x]
    BY <1>6, EntriesAre
  <2>5. DOMAIN Only(s) \subseteq Lists /\ list \in DOMAIN Only(s)
    BY OnlyOne
  <2>6. Linked(With(Only(s), list, Append(Only(s)[list], e)), f, next',
               FreeThen(next, freeList), CutThen(freeList, cut), heads, tails, MaxElements)
    BY <1>1, <1>6, <2>1, <2>2, <2>3, <2>4, <2>5, AddedBack
  <2> QED BY <1>4, <2>6, OnlyOne
<1>8. size' = [l \in Lists |-> Len(Append(s, e))]
  <2>1. Len(Append(s, e)) = Len(s) + 1
    BY <1>1, <1>3
  <2>2. Lists = {list}
    BY EntriesAre
  <2> QED BY <1>2, <1>4, <2>1, <2>2
<1>9. LinksInv' /\ Chain(list)' = Append(s, e) /\ ObjectsOf(list)' = Mapped(Append(s, e), data')
  BY <1>4, <1>6, <1>7, <1>8, LinksAfter
<1>10. ObjectsOf(list)' = Append(ObjectsOf(list), o)
  <2>1. ObjectsOf(list) = Mapped(s, data) /\ ObjectsOf(list) \in Seq(Objects)
    BY DEF ObjectsOf, Mapped, DataInv, s
  <2>2. data'[e] = o /\ \A x \in Entries : x # e => data'[x] = data[x]
    BY <1>1, <1>4 DEF DataInv
  <2>3. \A i \in 1 .. Len(s) : s[i] \in Entries /\ s[i] # e
    <3>1. \A i \in 1 .. Len(s) : s[i] \in Elements
      BY <1>3
    <3>2. \A i \in 1 .. Len(s) : s[i] # e
      BY <1>1 DEF Has
    <3> QED BY <3>1, <3>2, SentinelsApart
  <2>4. SameOn(s, data, data')
    BY <2>2, <2>3 DEF SameOn
  <2>5. s \in Seq(Elements)
    BY <1>3
  <2> QED BY <1>1, <1>9, <2>1, <2>2, <2>4, <2>5, MapAppend
<1>11. BackInv'
  <2>1. Backed(Append(s, e), prev')
    BY <1>1, <1>2, <1>3, <1>4, TheList, BackAppend
  <2> QED BY <1>9, <2>1 DEF BackInv
<1> QED BY <1>1, <1>4, <1>9, <1>10, <1>11 DEF s, e
LEMMA FreeListIn ==
  ASSUME LinksInv
  PROVE  freeList \in Entries \cup {Null}
<1>1. /\ IsChain(FreeCells, next, freeList, 1 .. cut, Null) /\ cut \in 0 .. MaxElements
  BY TheList
<1>2. Len(FreeCells) # 0 => FreeCells[1] \in 1 .. cut
  BY <1>1, ChainIn
<1>3. 1 .. cut \subseteq Elements
  BY <1>1, EntriesAre
<1> QED BY <1>1, <1>2, <1>3, SentinelsApart DEF IsChain

(* The k-th element is taken out of the list and goes back to the pool. *)
Gone(k) ==
  LET s == Chain(list)
      p == IF k = 1 THEN headEntry ELSE s[k - 1]
  IN  /\ next' = [next EXCEPT ![p] = next[s[k]], ![s[k]] = freeList]
      /\ isDouble => prev' = [prev EXCEPT ![next[s[k]]] = prev[s[k]]]
      /\ freeList' = s[k]
      /\ size' = [size EXCEPT ![list] = @ - 1]
      /\ UNCHANGED <<exists, data, cut>>

LEMMA TakeOut ==
  ASSUME LinksInv, BackInv, DataInv, UNCHANGED kind, NEW k \in 1 .. Len(Chain(list)), Gone(k)
  PROVE  /\ LinksInv' /\ BackInv'
         /\ Chain(list)' = Without(Chain(list), k)
         /\ ObjectsOf(list)' = Without(ObjectsOf(list), k)
<1> DEFINE s == Chain(list)
           e == s[k]
           p == IF k = 1 THEN headEntry ELSE s[k - 1]
<1>1. /\ s \in Seq(1 .. cut) /\ Len(s) \in Nat /\ Distinct(s) /\ cut \in Nat
      /\ 1 .. cut \subseteq Elements /\ k \in 1 .. Len(s)
      /\ \A i \in 1 .. Len(s) : s[i] \in Elements
  <2>1. /\ s \in Seq(1 .. cut) /\ Len(s) \in Nat /\ Distinct(s) /\ cut \in 0 .. MaxElements
        /\ k \in 1 .. Len(s) /\ cut \in Nat /\ \A i \in 1 .. Len(s) : s[i] \in Elements
    BY TheList
  <2>2. 1 .. cut \subseteq Elements
    BY <2>1, EntriesAre
  <2> HIDE DEF s
  <2> QED BY <2>1, <2>2
<1>2. /\ e \in Elements /\ e \in Entries /\ e # headEntry /\ e # tailEntry
      /\ headEntry \in Entries /\ tailEntry \in Entries /\ headEntry # tailEntry
      /\ list \in Lists
  <2> HIDE DEF s
  <2> QED BY <1>1, SentinelsApart, EntriesAre
<1>3. p \in Entries /\ p # e /\ p # tailEntry
  <2> HIDE DEF s
  <2>1. CASE k = 1
    BY <1>2, <2>1
  <2>2. CASE k # 1
    <3>1. k - 1 \in 1 .. Len(s) /\ k - 1 # k
      BY <1>1, <2>2
    <3>2. s[k - 1] \in Elements /\ s[k - 1] # s[k]
      BY <1>1, <3>1 DEF Distinct
    <3> QED BY <2>2, <3>2, SentinelsApart
  <2> QED BY <2>1, <2>2
<1>4. /\ next \in [Entries -> Entries \cup {Null}] /\ exists = {list}
      /\ size = [l \in Lists |-> Len(s)] /\ next[e] \in Entries \cup {Null}
      /\ freeList \in Entries \cup {Null}
      /\ next[e] = IF k = Len(s) THEN tailEntry ELSE s[k + 1]
  <2>1. /\ next \in [Entries -> Entries \cup {Null}] /\ exists = {list}
        /\ size = [l \in Lists |-> Len(s)]
    BY DEF LinksInv
  <2>2. next[e] = IF k = Len(s) THEN tailEntry ELSE s[k + 1]
    <3>1. IsChain(s, next, next[headEntry], 1 .. cut, tailEntry)
      BY TheList
    <3> HIDE DEF s
    <3> QED BY <1>1, <3>1 DEF IsChain
  <2>3. freeList \in Entries \cup {Null}
    BY FreeListIn
  <2> HIDE DEF s, e
  <2> QED BY <1>2, <2>1, <2>2, <2>3
<1>5. /\ exists' = {list} /\ freeList' = e /\ cut' = cut /\ data' = data
      /\ size' = [size EXCEPT ![list] = @ - 1]
      /\ next' = [next EXCEPT ![p] = next[e], ![e] = freeList]
      /\ isDouble => prev' = [prev EXCEPT ![next[e]] = prev[e]]
  BY <1>4 DEF Gone
<1>6. /\ next' \in [Entries -> Entries \cup {Null}]
      /\ next'[p] = next[e] /\ next'[e] = freeList
      /\ \A x \in Entries : x \notin {e, p} => next'[x] = next[x]
  <2> HIDE DEF p, e
  <2> QED BY <1>2, <1>3, <1>4, <1>5
<1>7. Linked(Only(Without(s, k)), <<e>> \o FreeCells, next', freeList', cut', heads, tails, MaxElements)
  <2>1. Linked(Only(s), FreeCells, next, freeList, cut, heads, tails, MaxElements)
    BY TheList
  <2> HIDE DEF s
  <2>2. /\ MaxElements \in Nat /\ Sentinels(heads, tails, Lists, MaxElements)
        /\ DOMAIN Only(s) \subseteq Lists /\ list \in DOMAIN Only(s)
        /\ k \in 1 .. Len(Only(s)[list])
        /\ p = IF k = 1 THEN heads[list] ELSE Only(s)[list][k - 1]
        /\ next'[p] = next[Only(s)[list][k]]
        /\ next'[Only(s)[list][k]] = freeList
    BY <1>1, <1>6, EntriesAre, OnlyOne
  <2>3. \A x \in Nodes(heads, tails, Lists, MaxElements) :
          x \notin {Only(s)[list][k], p} => next'[x] = next[x]
    BY <1>6, EntriesAre, OnlyOne
  <2> HIDE DEF p
  <2>4. Linked(With(Only(s), list, Without(Only(s)[list], k)), <<Only(s)[list][k]>> \o FreeCells,
               next', Only(s)[list][k], cut, heads, tails, MaxElements)
    BY <2>1, <2>2, <2>3, Removed
  <2> QED BY <1>5, <2>4, OnlyOne
<1>8. size' = [l \in Lists |-> Len(Without(s, k))]
  <2>1. Len(Without(s, k)) = Len(s) - 1
    BY <1>1, WithoutSeq
  <2>2. Lists = {list}
    BY EntriesAre
  <2> HIDE DEF s
  <2> QED BY <1>4, <1>5, <2>1, <2>2
<1>9. /\ LinksInv' /\ Chain(list)' = Without(s, k)
      /\ ObjectsOf(list)' = Mapped(Without(s, k), data')
  <2> HIDE DEF s, e
  <2> QED BY <1>5, <1>6, <1>7, <1>8, LinksAfter
<1>10. ObjectsOf(list)' = Without(ObjectsOf(list), k)
  <2>1. ObjectsOf(list) = Mapped(s, data)
    BY DEF ObjectsOf, Mapped
  <2> HIDE DEF s, e
  <2>2. Mapped(Without(s, k), data) = Without(Mapped(s, data), k)
    BY <1>1, MapWithout
  <2> QED BY <1>5, <1>9, <2>1, <2>2
<1>11. BackInv'
  <2> SUFFICES ASSUME isDouble'
               PROVE  Backed(Without(s, k), prev')
    BY <1>9 DEF BackInv
  <2>1. isDouble /\ Backed(s, prev)
    BY DEF BackInv, isDouble
  <2>2. prev' = [prev EXCEPT ![next[e]] = prev[s[k]]]
    BY <1>5, <2>1
  <2> HIDE DEF s, e
  <2> QED BY <1>1, <1>4, <2>1, <2>2, BackWithout
<1> QED BY <1>9, <1>10, <1>11

(* Every element is freed. *)
LEMMA Emptied ==
  ASSUME LinksInv, BackInv, UNCHANGED kind, FreeAll
  PROVE  /\ LinksInv' /\ BackInv'
         /\ Chain(list)' = << >> /\ ObjectsOf(list)' = << >>
<1> DEFINE s == Chain(list)
           position(e) == CHOOSE i \in DOMAIN s : s[i] = e
<1>1. /\ s \in Seq(1 .. cut) /\ Len(s) \in Nat /\ Distinct(s) /\ DOMAIN s = 1 .. Len(s)
      /\ \A i \in 1 .. Len(s) : s[i] \in Elements
  BY TheList
<1>2. /\ next \in [Entries -> Entries \cup {Null}] /\ exists = {list}
      /\ freeList \in Entries \cup {Null}
  BY FreeListIn DEF LinksInv
<1>3. /\ exists' = {list} /\ cut' = cut
      /\ next' = [e \in Entries |->
                    IF e = headEntry THEN tailEntry
                    ELSE IF e \notin ToSet(s) THEN next[e]
                    ELSE IF position(e) = 1 THEN freeList ELSE s[position(e) - 1]]
      /\ prev' = [prev EXCEPT ![tailEntry] = headEntry]
      /\ freeList' = IF Len(s) = 0 THEN freeList ELSE s[Len(s)]
      /\ size' = [size EXCEPT ![list] = 0]
  <2>1. s = << >> <=> Len(s) = 0
    BY <1>1
  <2> QED BY <1>2, <2>1 DEF FreeAll, Last
<1>4. \A x : x \in ToSet(s) <=> Has(s, x)
  <2> HIDE DEF s
  <2> QED BY <1>1, ToSetHas
<1>5. ASSUME NEW i \in 1 .. Len(s)
      PROVE  position(s[i]) = i
  <2> HIDE DEF s
  <2> QED BY <1>1 DEF Distinct
<1>6. \A i \in 1 .. Len(s) : next'[s[i]] = IF i = 1 THEN freeList ELSE s[i - 1]
  <2> SUFFICES ASSUME NEW i \in 1 .. Len(s)
               PROVE  next'[s[i]] = IF i = 1 THEN freeList ELSE s[i - 1]
    OBVIOUS
  <2>1. position(s[i]) = i
    BY <1>5
  <2> HIDE DEF s, position
  <2>2. s[i] \in Entries /\ s[i] # headEntry /\ s[i] \in ToSet(s)
    BY <1>1, <1>4, SentinelsApart DEF Has
  <2> QED BY <1>3, <2>1, <2>2
<1>7. next' \in [Entries -> Entries \cup {Null}]
  <2> SUFFICES ASSUME NEW x \in Entries
               PROVE  next'[x] \in Entries \cup {Null}
    BY <1>3
  <2>1. CASE Has(s, x)
    <3>1. PICK i \in 1 .. Len(s) : s[i] = x
      BY <2>1 DEF Has
    <3>2. i # 1 => i - 1 \in 1 .. Len(s)
      BY <1>1
    <3> HIDE DEF s
    <3>3. i # 1 => s[i - 1] \in Entries
      BY <1>1, <3>2, SentinelsApart
    <3> QED BY <1>2, <1>6, <3>1, <3>3
  <2>2. CASE ~Has(s, x)
    <3> HIDE DEF s, position
    <3> QED BY <1>2, <1>3, <1>4, <2>2, SentinelsApart
  <2> QED BY <2>1, <2>2
<1>8. \A x \in Entries : x # headEntry /\ ~Has(s, x) => next'[x] = next[x]
  <2> HIDE DEF s, position
  <2> QED BY <1>3, <1>4
<1>9. next'[headEntry] = tailEntry
  <2> HIDE DEF s, position
  <2> QED BY <1>3, SentinelsApart
<1>10. Linked(Only(<< >>), Freed(s, FreeCells), next', freeList', cut', heads, tails, MaxElements)
  <2>1. Linked(Only(s), FreeCells, next, freeList, cut, heads, tails, MaxElements)
    BY TheList
  <2> HIDE DEF s, position
  <2>2. /\ MaxElements \in Nat /\ Sentinels(heads, tails, Lists, MaxElements)
        /\ DOMAIN Only(s) \subseteq Lists /\ list \in DOMAIN Only(s)
        /\ next'[heads[list]] = tails[list]
        /\ freeList' = IF Len(Only(s)[list]) = 0 THEN freeList ELSE Only(s)[list][Len(Only(s)[list])]
    BY <1>3, <1>9, EntriesAre, OnlyOne
  <2>3. \A i \in 1 .. Len(Only(s)[list]) :
          next'[Only(s)[list][i]] = IF i = 1 THEN freeList ELSE Only(s)[list][i - 1]
    BY <1>6, OnlyOne
  <2>4. \A x \in Nodes(heads, tails, Lists, MaxElements) :
          x # heads[list] /\ ~Has(Only(s)[list], x) => next'[x] = next[x]
    <3>1. Entries = Nodes(heads, tails, Lists, MaxElements) /\ heads[list] = headEntry
      BY EntriesAre
    <3>2. Only(s)[list] = s
      BY OnlyOne
    <3> QED BY <1>8, <3>1, <3>2
  <2>5. Linked(With(Only(s), list, << >>), Freed(Only(s)[list], FreeCells), next', freeList',
               cut, heads, tails, MaxElements)
    BY <2>1, <2>2, <2>3, <2>4, AllFreed
  <2> QED BY <1>3, <2>5, OnlyOne
<1>11. size' = [l \in Lists |-> Len(<< >>)]
  <2>1. size = [l \in Lists |-> Len(s)]
    BY DEF LinksInv
  <2>2. size' = [size EXCEPT ![list] = 0]
    BY <1>3
  <2>3. Lists = {list}
    BY EntriesAre
  <2> HIDE DEF s, position
  <2>4. \A l \in Lists : size'[l] = 0
    BY <2>1, <2>2, <2>3
  <2>5. size' = [l \in Lists |-> size'[l]]
    BY <2>1, <2>2
  <2>6. size' = [l \in Lists |-> 0]
    BY <2>4, <2>5
  <2> QED BY <2>6
<1>12. LinksInv' /\ Chain(list)' = << >> /\ ObjectsOf(list)' = Mapped(<< >>, data')
  <2> HIDE DEF s, position
  <2> QED BY <1>3, <1>7, <1>10, <1>11, LinksAfter
<1>13. Mapped(<< >>, data') = << >>
  BY DEF Mapped
<1>14. BackInv'
  <2> SUFFICES ASSUME isDouble'
               PROVE  Backed(<< >>, prev')
    BY <1>12 DEF BackInv
  <2>1. Backed(s, prev)
    BY DEF BackInv, isDouble
  <2> HIDE DEF s, position
  <2> QED BY <1>3, <2>1, BackEmpty
<1> QED BY <1>12, <1>13, <1>14
-----------------------------------------------------------------------------
(* The element a removal takes: the first or the last with an equal object. *)
EqualAt(k, o) == Same(data[Chain(list)[k]], o)

LEMMA ListTakes ==
  ASSUME LinksInv, NEW o, ~isDouble, Detach(list, o)
  PROVE  \/ \E k \in 1 .. Len(Chain(list)) :
              /\ next[findPred(list, o)] = Chain(list)[k] /\ Gone(k)
              /\ EqualAt(k, o) /\ \A j \in 1 .. k - 1 : ~EqualAt(j, o)
         \/ /\ next[findPred(list, o)] = tailEntry /\ UNCHANGED listVars
            /\ \A j \in 1 .. Len(Chain(list)) : ~EqualAt(j, o)
<1> DEFINE s == Chain(list)
           q == findPred(list, o)
<1>1. \A i \in 1 .. Len(s) : s[i] # tailEntry
  <2>1. \A i \in 1 .. Len(s) : s[i] \in Elements
    BY TheList
  <2> HIDE DEF s
  <2> QED BY <2>1, SentinelsApart
<1>2. CASE \E k \in 1 .. Len(s) :
             /\ q = IF k = 1 THEN headEntry ELSE s[k - 1]
             /\ next[q] = s[k] /\ Same(data[s[k]], o)
             /\ \A j \in 1 .. k - 1 : ~Same(data[s[j]], o)
  <2>1. PICK k \in 1 .. Len(s) :
             /\ q = IF k = 1 THEN headEntry ELSE s[k - 1]
             /\ next[q] = s[k] /\ Same(data[s[k]], o)
             /\ \A j \in 1 .. k - 1 : ~Same(data[s[j]], o)
    BY <1>2
  <2>2. next[q] # tailEntry
    BY <1>1, <2>1
  <2>3. /\ next' = [next EXCEPT ![q] = next[next[q]], ![next[q]] = freeList]
        /\ freeList' = next[q] /\ size' = [size EXCEPT ![list] = @ - 1]
        /\ UNCHANGED <<exists, data, cut>>
    BY <2>2 DEF Detach, tailEntry
  <2>4. Gone(k)
    BY <2>1, <2>3 DEF Gone
  <2> QED BY <2>1, <2>4 DEF EqualAt
<1>3. CASE next[q] = tailEntry /\ \A j \in 1 .. Len(s) : ~Same(data[s[j]], o)
  <2>1. UNCHANGED listVars
    BY <1>3 DEF Detach, listVars, tailEntry
  <2> QED BY <1>3, <2>1 DEF EqualAt
<1> QED BY <1>2, <1>3, FoundPred

LEMMA UnlinkGone ==
  ASSUME LinksInv, BackInv, isDouble, NEW k \in 1 .. Len(Chain(list)), Unlink(Chain(list)[k])
  PROVE  Gone(k)
<1> DEFINE s == Chain(list)
           p == IF k = 1 THEN headEntry ELSE s[k - 1]
<1>1. s[k] \notin {headEntry, tailEntry}
  <2>1. s[k] \in Elements
    BY TheList
  <2> HIDE DEF s
  <2> QED BY <2>1, SentinelsApart
<1>2. prev[s[k]] = p
  BY DEF BackInv, Backed
<1>3. /\ next' = [next EXCEPT ![prev[s[k]]] = next[s[k]], ![s[k]] = freeList]
      /\ prev' = [prev EXCEPT ![next[s[k]]] = prev[s[k]]]
      /\ freeList' = s[k] /\ size' = [size EXCEPT ![list] = @ - 1]
      /\ UNCHANGED <<exists, data, cut>>
  BY <1>1 DEF Unlink
<1> QED BY <1>2, <1>3 DEF Gone

LEMMA HeadTakes ==
  ASSUME LinksInv, BackInv, isDouble, NEW o, Unlink(fromHead(o))
  PROVE  \/ \E k \in 1 .. Len(Chain(list)) :
              /\ fromHead(o) = Chain(list)[k] /\ Gone(k)
              /\ EqualAt(k, o) /\ \A j \in 1 .. k - 1 : ~EqualAt(j, o)
         \/ /\ fromHead(o) = tailEntry /\ UNCHANGED <<listVars, prev>>
            /\ \A j \in 1 .. Len(Chain(list)) : ~EqualAt(j, o)
<1> DEFINE s == Chain(list)
<1>1. /\ IsChain(s, next, next[headEntry], 1 .. cut, tailEntry)
      /\ tailEntry \notin 1 .. cut
  <2>1. IsChain(s, next, next[headEntry], 1 .. cut, tailEntry) /\ cut \in 0 .. MaxElements
    BY TheList
  <2> HIDE DEF s
  <2> QED BY <2>1, EntriesAre
<1>2. \/ \E k \in 1 .. Len(s) : /\ fromHead(o) = s[k] /\ Same(data[s[k]], o)
                                /\ \A j \in 1 .. k - 1 : ~Same(data[s[j]], o)
      \/ fromHead(o) = tailEntry /\ \A j \in 1 .. Len(s) : ~Same(data[s[j]], o)
  <2> HIDE DEF s
  <2> QED BY <1>1, Found DEF fromHead
<1>3. CASE \E k \in 1 .. Len(s) : /\ fromHead(o) = s[k] /\ Same(data[s[k]], o)
                                  /\ \A j \in 1 .. k - 1 : ~Same(data[s[j]], o)
  BY <1>3, UnlinkGone DEF EqualAt
<1>4. CASE fromHead(o) = tailEntry /\ \A j \in 1 .. Len(s) : ~Same(data[s[j]], o)
  BY <1>4 DEF EqualAt, Unlink
<1> QED BY <1>2, <1>3, <1>4

LEMMA TailTakes ==
  ASSUME LinksInv, BackInv, isDouble, NEW o, Unlink(fromTail(o))
  PROVE  \/ \E k \in 1 .. Len(Chain(list)) :
              /\ fromTail(o) = Chain(list)[k] /\ Gone(k)
              /\ EqualAt(k, o) /\ \A j \in k + 1 .. Len(Chain(list)) : ~EqualAt(j, o)
         \/ /\ fromTail(o) = headEntry /\ UNCHANGED <<listVars, prev>>
            /\ \A j \in 1 .. Len(Chain(list)) : ~EqualAt(j, o)
<1> DEFINE s == Chain(list)
           r == Reversed(s)
<1>1. s \in Seq(1 .. cut) /\ Len(s) \in Nat /\ cut \in Nat /\ cut \in 0 .. MaxElements
  BY TheList
<1>2. Backed(s, prev)
  BY DEF BackInv
<1> HIDE DEF s, r
<1>3. /\ IsChain(r, prev, prev[tailEntry], 1 .. cut, headEntry) /\ Len(r) = Len(s)
      /\ \A i \in 1 .. Len(s) : r[i] = s[Len(s) + 1 - i] /\ Len(s) + 1 - i \in 1 .. Len(s)
      /\ headEntry \notin 1 .. cut
  <2>1. headEntry \notin 1 .. cut
    BY <1>1, EntriesAre
  <2> QED BY <1>1, <1>2, <2>1, BackIsChain DEF r
<1>4. \/ \E i \in 1 .. Len(r) : /\ fromTail(o) = r[i] /\ Same(data[r[i]], o)
                                /\ \A j \in 1 .. i - 1 : ~Same(data[r[j]], o)
      \/ fromTail(o) = headEntry /\ \A j \in 1 .. Len(r) : ~Same(data[r[j]], o)
  <2>1. IsChain(r, prev, prev[tailEntry], 1 .. cut, headEntry) /\ headEntry \notin 1 .. cut
    BY <1>3
  <2> QED BY <2>1, Found DEF fromTail
<1>5. ASSUME NEW j \in 1 .. Len(s)
      PROVE  Len(s) + 1 - j \in 1 .. Len(s) /\ r[Len(s) + 1 - j] = s[j]
  <2>1. Len(s) + 1 - j \in 1 .. Len(s) /\ Len(s) + 1 - (Len(s) + 1 - j) = j
    BY <1>1
  <2> QED BY <1>3, <2>1
<1>6. CASE \E i \in 1 .. Len(r) : /\ fromTail(o) = r[i] /\ Same(data[r[i]], o)
                                  /\ \A j \in 1 .. i - 1 : ~Same(data[r[j]], o)
  <2>1. PICK i \in 1 .. Len(s) : /\ fromTail(o) = r[i] /\ Same(data[r[i]], o)
                                 /\ \A j \in 1 .. i - 1 : ~Same(data[r[j]], o)
    BY <1>3, <1>6
  <2> DEFINE k == Len(s) + 1 - i
  <2>2. k \in 1 .. Len(s) /\ r[i] = s[k]
    BY <1>3
  <2>3. \A j \in k + 1 .. Len(s) : j \in 1 .. Len(s) /\ Len(s) + 1 - j \in 1 .. i - 1
    BY <1>1, <2>2
  <2> HIDE DEF k
  <2>4. \A j \in k + 1 .. Len(s) : ~Same(data[s[j]], o)
    BY <1>5, <2>1, <2>3
  <2>5. Gone(k)
    BY <2>1, <2>2, UnlinkGone DEF s
  <2>6. k \in 1 .. Len(s) /\ fromTail(o) = s[k] /\ Same(data[s[k]], o)
    BY <2>1, <2>2
  <2> QED BY <2>4, <2>5, <2>6 DEF EqualAt, s
<1>7. CASE fromTail(o) = headEntry /\ \A j \in 1 .. Len(r) : ~Same(data[r[j]], o)
  <2>1. \A j \in 1 .. Len(s) : ~Same(data[s[j]], o)
    BY <1>3, <1>5, <1>7
  <2>2. UNCHANGED <<listVars, prev>>
    BY <1>7 DEF Unlink
  <2> QED BY <1>7, <2>1, <2>2 DEF EqualAt, s
<1> QED BY <1>4, <1>6, <1>7
-----------------------------------------------------------------------------
LEMMA AheadMember ==
  ASSUME LinksInv
  PROVE  \A x, y : y \in AheadOf(x) <=> Lies(Chain(list), data, x, dir, y)
<1>1. DOMAIN Chain(list) = 1 .. Len(Chain(list))
  BY TheList
<1> QED BY <1>1 DEF AheadOf, Lies, Onward

-----------------------------------------------------------------------------
(* Objects and walk after an object was added, at either end. *)
LEMMA AfterPut ==
  ASSUME IInv, NEW o \in held, NewElement \in Elements, HasRoom, LinksInv', BackInv',
         data' = [data EXCEPT ![NewElement] = o],
         \/ /\ Chain(list)' = Push(NewElement, Chain(list))
            /\ ObjectsOf(list)' = Push(o, ObjectsOf(list))
         \/ /\ Chain(list)' = Append(Chain(list), NewElement)
            /\ ObjectsOf(list)' = Append(ObjectsOf(list), o),
         itemsInContainer' = IF isWrapper THEN itemsInContainer + 1 ELSE 0,
         held' = held \ {o}, UNCHANGED <<kind, alive, walkVars>>
  PROVE  IInv'
<1> DEFINE s == Chain(list)
           q == ObjectsOf(list)
           e == NewElement
<1> USE DEF IInv
<1>1. /\ s \in Seq(Elements) /\ Distinct(s) /\ e \in Elements /\ ~Has(s, e) /\ Len(s) \in Nat
      /\ \A i \in 1 .. Len(s) : s[i] \in Elements
  <2>1. s \in Seq(1 .. cut) /\ Distinct(s) /\ cut \in 0 .. MaxElements /\ Len(s) \in Nat
    BY TheList
  <2>2. 1 .. cut \subseteq Elements
    BY <2>1, EntriesAre
  <2>3. ~Has(s, e)
    BY NewIsNew
  <2>4. \A i \in 1 .. Len(s) : s[i] \in Elements
    BY TheList
  <2> HIDE DEF s, e
  <2>5. s \in Seq(Elements)
    BY <2>1, <2>2
  <2> QED BY <2>1, <2>3, <2>4, <2>5 DEF e
<1>2. /\ q \in Seq(Objects) /\ Distinct(q) /\ o \in Objects /\ o \notin Contained /\ ~Has(q, o)
      /\ q = Mapped(s, data) /\ \A y : y \in Contained <=> Has(q, y)
  <2>1. q \in Seq(Objects) /\ Distinct(q) /\ o \in Objects /\ o \notin Contained
    BY DEF DataInv
  <2>2. \A y : y \in Contained <=> Has(q, y)
    BY TheObjects
  <2>3. q = Mapped(s, data)
    BY DEF ObjectsOf, Mapped
  <2> QED BY <2>1, <2>2, <2>3
<1>3. /\ data' \in [Entries -> Objects \cup {NullObject}]
      /\ data'[headEntry] = NullObject /\ data'[tailEntry] = NullObject
      /\ data'[e] = o /\ SameOn(s, data, data')
  <2>1. e \in Entries /\ e # headEntry /\ e # tailEntry /\ e \in Elements
    BY SentinelsApart
  <2>2. \A i \in 1 .. Len(s) : s[i] \in Entries /\ s[i] # e
    <3> HIDE DEF s, e
    <3> QED BY <1>1, SentinelsApart DEF Has
  <2>3. /\ data \in [Entries -> Objects \cup {NullObject}]
        /\ data[headEntry] = NullObject /\ data[tailEntry] = NullObject
        /\ data' = [data EXCEPT ![e] = o]
    BY DEF DataInv
  <2> HIDE DEF s, e
  <2>4. \A x \in Entries : data'[x] = IF x = e THEN o ELSE data[x]
    BY <2>3
  <2>5. data' \in [Entries -> Objects \cup {NullObject}]
    BY <1>2, <2>3
  <2> QED BY <2>1, <2>2, <2>3, <2>4, <2>5, SentinelsApart DEF SameOn
<1>4. \/ Chain(list)' = Push(e, s) /\ ObjectsOf(list)' = Push(o, q)
      \/ Chain(list)' = Append(s, e) /\ ObjectsOf(list)' = Append(q, o)
  OBVIOUS
<1> HIDE DEF s, e, q
<1>5. /\ Len(Chain(list)') = Len(s) + 1
      /\ \A x : Has(Chain(list)', x) <=> x = e \/ Has(s, x)
  <2>1. CASE Chain(list)' = Push(e, s)
    BY <1>1, <2>1, HasPush, DistinctPush DEF Push
  <2>2. CASE Chain(list)' = Append(s, e)
    BY <1>1, <2>2, HasAppend, DistinctAppend
  <2> QED BY <1>4, <2>1, <2>2
<1>6. /\ ObjectsOf(list)' \in Seq(Objects) /\ Distinct(ObjectsOf(list)')
      /\ \A x : Has(ObjectsOf(list)', x) <=> x = o \/ Has(q, x)
  <2>1. CASE ObjectsOf(list)' = Push(o, q)
    BY <1>2, <2>1, HasPush, DistinctPush DEF Push
  <2>2. CASE ObjectsOf(list)' = Append(q, o)
    BY <1>2, <2>2, HasAppend, DistinctAppend
  <2> QED BY <1>4, <2>1, <2>2
<1>7. Contained' = Contained \cup {o}
  <2>1. \A x : x \in Contained' <=> Has(ObjectsOf(list)', x)
    BY <1>6, ToSetHas DEF Contained
  <2> QED BY <1>2, <1>6, <2>1
<1>8. DataInv'
  <2>1. itemsInContainer' \in Nat /\ (isWrapper' => itemsInContainer' >= Len(Chain(list)'))
    BY <1>1, <1>5 DEF DataInv, isWrapper, s
  <2> QED BY <1>2, <1>3, <1>6, <1>7, <2>1 DEF DataInv
<1>9. StillLies(s, data, Chain(list)', data', e, o, dir)
  <2>1. CASE Chain(list)' = Push(e, s)
    <3>1. s \in Seq(Elements) /\ e \in Elements /\ data'[e] = o /\ SameOn(s, data, data')
      BY <1>1, <1>3
    <3>2. StillLies(s, data, Push(e, s), data', e, o, dir)
      BY <3>1, LiesPush
    <3> QED BY <2>1, <3>2
  <2>2. CASE Chain(list)' = Append(s, e)
    <3>1. s \in Seq(Elements) /\ e \in Elements /\ data'[e] = o /\ SameOn(s, data, data')
      BY <1>1, <1>3
    <3>2. StillLies(s, data, Append(s, e), data', e, o, dir)
      BY <3>1, LiesAppend
    <3> QED BY <2>2, <3>2
  <2> QED BY <1>4, <2>1, <2>2
<1>10. WalkInv'
  <2>1. dir' = dir /\ at' = at /\ start' = start /\ due' = due /\ done' = done
    BY DEF walkVars
  <2> SUFFICES ASSUME dir # "none"
               PROVE  /\ at \in Stops' /\ start \in Stops' \cup {Null}
                      /\ \A y \in due : Lies(Chain(list)', data', at, dir, y)
                      /\ \A y \in done : ~Lies(Chain(list)', data', at, dir, y)
    <3>1. due \subseteq Contained' /\ done \subseteq Contained'
      BY <1>7 DEF WalkInv
    <3> QED BY <2>1, <3>1 DEF WalkInv
  <2>2. /\ at \in Stops /\ start \in Stops \cup {Null}
        /\ \A y \in due : Lies(s, data, at, dir, y)
        /\ done \subseteq Contained
        /\ \A y \in done : ~Lies(s, data, at, dir, y)
    BY DEF WalkInv, s
  <2>3. \A x : x \in ToSet(s) <=> Has(s, x)
    BY <1>1, ToSetHas
  <2>4. ToSet(s) \subseteq ToSet(Chain(list)')
    <3>1. Chain(list)' \in Seq(Elements)
      BY <1>1, <1>4, DistinctPush, DistinctAppend
    <3>2. \A x : x \in ToSet(Chain(list)') <=> Has(Chain(list)', x)
      BY <3>1, ToSetHas
    <3> QED BY <1>5, <2>3, <3>2
  <2>5. Stops \subseteq Stops'
    BY <2>1, <2>4 DEF Stops, s
  <2>6. at # e
    <3>1. e # headEntry /\ e # tailEntry /\ e \notin ToSet(s)
      BY <1>1, <2>3, SentinelsApart
    <3> QED BY <2>2, <3>1 DEF Stops, s
  <2>7. o \notin done
    BY <1>2, <2>2
  <2>8. /\ \A y \in due : Lies(Chain(list)', data', at, dir, y)
        /\ \A y \in done : ~Lies(Chain(list)', data', at, dir, y)
    BY <1>9, <2>2, <2>6, <2>7 DEF StillLies
  <2> QED BY <2>2, <2>5, <2>8
<1> QED BY <1>8, <1>10
(* Objects and walk after an element was taken out that the iterator is not at. *)
LEMMA AfterTake ==
  ASSUME IInv, NEW k \in 1 .. Len(Chain(list)), Gone(k), NEW del, Leave(Chain(list)[k], del),
         itemsInContainer' \in Nat,
         isWrapper => itemsInContainer' >= Len(Chain(list)) - 1
  PROVE  /\ IInv' /\ ObjectsOf(list)' = Without(ObjectsOf(list), k)
         /\ Chain(list)' = Without(Chain(list), k)
<1> DEFINE s == Chain(list)
           q == ObjectsOf(list)
           e == s[k]
           o == data[e]
<1> USE DEF IInv
<1>1. /\ LinksInv' /\ BackInv' /\ Chain(list)' = Without(s, k) /\ ObjectsOf(list)' = Without(q, k)
  BY TakeOut DEF Leave
<1>2. /\ s \in Seq(Elements) /\ Distinct(s) /\ k \in 1 .. Len(s) /\ e \in Elements
      /\ Len(s) \in Nat
  <2>1. s \in Seq(1 .. cut) /\ Distinct(s) /\ cut \in 0 .. MaxElements /\ k \in 1 .. Len(s)
    BY TheList
  <2>2. 1 .. cut \subseteq Elements
    BY <2>1, EntriesAre
  <2>3. e \in Elements /\ Len(s) \in Nat
    BY TheList
  <2> HIDE DEF s, e
  <2> QED BY <2>1, <2>2, <2>3
<1>3. /\ q \in Seq(Objects) /\ Distinct(q) /\ q = Mapped(s, data) /\ Len(q) = Len(s)
      /\ q[k] = o /\ o \in Objects /\ o # NullObject
      /\ \A y : y \in Contained <=> Has(q, y)
  <2>1. /\ q \in Seq(Objects) /\ Len(q) = Len(s) /\ q[k] = data[s[k]]
        /\ q[k] \in Objects /\ q[k] # NullObject /\ \A y : y \in Contained <=> Has(q, y)
    BY TheObjects
  <2>2. Distinct(q)
    BY DEF DataInv
  <2>3. q = Mapped(s, data)
    BY DEF ObjectsOf, Mapped
  <2> HIDE DEF s, q
  <2> QED BY <2>1, <2>2, <2>3
<1>4. /\ e # at \/ e < 0
      /\ alive' = IF del THEN alive \ {o} ELSE alive
      /\ held' = (IF del THEN held ELSE held \cup {o}) \ {NullObject}
      /\ due' = due \ {o} /\ done' = done \ {o}
      /\ start' = IF e = start /\ e > 0 THEN Null ELSE start
      /\ kind' = kind /\ dir' = dir /\ at' = at /\ data' = data
  BY DEF Leave, Gone
<1> HIDE DEF s, e, q, o
<1>5. /\ ObjectsOf(list)' \in Seq(Objects) /\ Distinct(ObjectsOf(list)')
      /\ Len(Chain(list)') = Len(s) - 1
      /\ \A x : Has(ObjectsOf(list)', x) <=> Has(q, x) /\ x # o
      /\ \A x : Has(Chain(list)', x) <=> Has(s, x) /\ x # e
  <2>1. /\ Without(q, k) \in Seq(Objects) /\ Distinct(Without(q, k))
        /\ \A x : Has(Without(q, k), x) <=> Has(q, x) /\ x # q[k]
    BY <1>2, <1>3, DistinctWithout, HasWithout
  <2>2. /\ Len(Without(s, k)) = Len(s) - 1
        /\ \A x : Has(Without(s, k), x) <=> Has(s, x) /\ x # s[k]
    BY <1>2, DistinctWithout, HasWithout
  <2> QED BY <1>1, <1>3, <2>1, <2>2 DEF e
<1>6. Contained' = Contained \ {o}
  <2>1. \A x : x \in Contained' <=> Has(ObjectsOf(list)', x)
    BY <1>5, ToSetHas DEF Contained
  <2> QED BY <1>3, <1>5, <2>1
<1>7. o \in Contained
  BY <1>2, <1>3 DEF Has
<1>8. DataInv'
  <2>1. isWrapper' => itemsInContainer' >= Len(Chain(list)')
    BY <1>4, <1>5 DEF isWrapper, s
  <2>2. /\ held \subseteq Objects /\ held \cap Contained = {} /\ alive = held \cup Contained
        /\ data \in [Entries -> Objects \cup {NullObject}]
        /\ data[headEntry] = NullObject /\ data[tailEntry] = NullObject
        /\ kind \in {"List", "DoubleList", "Stack", "Deque", "Queue"}
        /\ NullObject \notin Objects
    BY ListAssumption DEF DataInv, NullObject
  <2>3. held' \subseteq Objects /\ held' \cap Contained' = {} /\ alive' = held' \cup Contained'
    <3>1. held' = IF del THEN held ELSE held \cup {o}
      BY <1>3, <1>4, <2>2
    <3>2. CASE del
      BY <1>4, <1>6, <1>7, <2>2, <3>1, <3>2
    <3>3. CASE ~del
      BY <1>3, <1>4, <1>6, <1>7, <2>2, <3>1, <3>3
    <3> QED BY <3>2, <3>3
  <2> QED BY <1>4, <1>5, <2>1, <2>2, <2>3 DEF DataInv
<1>9. WalkInv'
  <2>0. dir \in {"none", "forward", "backward"} /\ (dir = "backward" => kind = "DoubleList")
    BY DEF WalkInv
  <2> SUFFICES ASSUME dir # "none"
               PROVE  /\ at \in Stops' /\ start' \in Stops' \cup {Null}
                      /\ \A y \in due' : Lies(Chain(list)', data', at, dir, y)
                      /\ \A y \in done' : ~Lies(Chain(list)', data', at, dir, y)
    <3>1. /\ due' \subseteq Contained' /\ done' \subseteq Contained'
          /\ dir = "none" => due' = {} /\ done' = {}
      BY <1>4, <1>6 DEF WalkInv
    <3> QED BY <1>4, <2>0, <3>1 DEF WalkInv
  <2>1. /\ at \in Stops /\ start \in Stops \cup {Null}
        /\ \A y \in due : Lies(s, data, at, dir, y)
        /\ done \subseteq Contained
        /\ \A y \in done : ~Lies(s, data, at, dir, y)
    BY DEF WalkInv, s
  <2>2. e > 0 /\ ~(e < 0) /\ e # at
    BY <1>2, <1>4, EntriesAre
  <2>3. Stops \ {e} \subseteq Stops'
    <3>1. \A x : x \in ToSet(s) <=> Has(s, x)
      BY <1>2, ToSetHas
    <3>2. Chain(list)' \in Seq(Elements)
      BY <1>1, <1>2, DistinctWithout
    <3>3. \A x : x \in ToSet(Chain(list)') <=> Has(Chain(list)', x)
      BY <3>2, ToSetHas
    <3>4. ToSet(s) \ {e} \subseteq ToSet(Chain(list)')
      BY <1>5, <3>1, <3>3
    <3> QED BY <1>4, <3>4 DEF Stops, s
  <2>4. start' \in Stops' \cup {Null}
    BY <1>4, <2>1, <2>2, <2>3
  <2>5. \A y : Lies(Without(s, k), data, at, dir, y) <=> Lies(s, data, at, dir, y) /\ y # data[s[k]]
    <3>1. Distinct(Mapped(s, data)) /\ at # s[k]
      BY <1>3, <2>2 DEF e
    <3> QED BY <1>2, <3>1, LiesWithout
  <2>6. \A y : Lies(Chain(list)', data', at, dir, y) <=> Lies(s, data, at, dir, y) /\ y # o
    BY <1>1, <1>4, <2>5 DEF o, e
  <2> QED BY <1>4, <2>1, <2>2, <2>3, <2>4, <2>6
<1> QED BY <1>1, <1>8, <1>9 DEF s, q

(* Nothing is taken out when no object is equal. *)
LEMMA AfterNone ==
  ASSUME IInv, UNCHANGED <<listVars, prev, itemsInContainer>>,
         NEW e \in {headEntry, tailEntry}, NEW del, Leave(e, del)
  PROVE  /\ IInv' /\ ObjectsOf(list)' = ObjectsOf(list)
         /\ Chain(list)' = Chain(list) /\ UNCHANGED <<held, alive, due, done, start>>
<1>1. data[e] = NullObject /\ NullObject \notin Objects /\ ~(e > 0)
  BY EntriesAre, ListAssumption DEF IInv, DataInv, NullObject
<1>2. /\ held \subseteq Objects /\ alive \subseteq Objects /\ Contained \subseteq Objects
  <2>1. ObjectsOf(list) \in Seq(Objects)
    BY DEF IInv, DataInv
  <2>2. Contained \subseteq Objects
    BY <2>1 DEF Contained, ToSet
  <2> QED BY <2>2 DEF IInv, DataInv
<1>3. held' = held /\ alive' = alive /\ start' = start /\ kind' = kind /\ dir' = dir /\ at' = at
  BY <1>1, <1>2 DEF Leave
<1>4. /\ Chain(list)' = Chain(list) /\ FreeCells' = FreeCells /\ Chains' = Chains
      /\ ObjectsOf(list)' = ObjectsOf(list)
  BY DEF listVars, Chain, FreeCells, ElementsFrom, Chains, ObjectsOf
<1>5. LinksInv' /\ BackInv' /\ DataInv'
  <2>1. LinksInv'
    BY <1>4 DEF IInv, LinksInv, listVars
  <2>2. BackInv'
    BY <1>3, <1>4 DEF IInv, BackInv, isDouble
  <2>3. DataInv'
    BY <1>3, <1>4 DEF IInv, DataInv, isWrapper, Contained, listVars
  <2> QED BY <2>1, <2>2, <2>3
<1>6. WalkInv' /\ due' = due /\ done' = done
  <2>1. due' = due \ {NullObject} /\ done' = done \ {NullObject} /\ data' = data
    BY <1>1 DEF Leave, listVars
  <2>2. due' = due /\ done' = done
    BY <1>1, <1>2, <2>1 DEF IInv, WalkInv
  <2>3. Contained' = Contained /\ Stops' = Stops
    BY <1>3, <1>4 DEF Contained, Stops
  <2> QED BY <1>3, <1>4, <2>1, <2>2, <2>3 DEF IInv, WalkInv
<1> QED BY <1>3, <1>4, <1>5, <1>6 DEF IInv
-----------------------------------------------------------------------------
(* The containers are the list empty at first. *)
LEMMA InitIInv ==
  ASSUME Init
  PROVE  IInv /\ ObjectsOf(list) = << >>
<1>1. /\ exists = {list} /\ freeList = Null /\ cut = 0 /\ size = [l \in Lists |-> 0]
      /\ next = [e \in Entries |-> IF e \in {headEntry, tailEntry} THEN tailEntry ELSE Null]
      /\ prev = [e \in Entries |-> IF e \in {headEntry, tailEntry} THEN headEntry ELSE Null]
      /\ data = [e \in Entries |-> NullObject]
  BY DEF Init, Constructed
<1>2. /\ next \in [Entries -> Entries \cup {Null}] /\ prev \in [Entries -> Entries \cup {Null}]
      /\ next[headEntry] = tailEntry /\ next[tailEntry] = tailEntry
      /\ prev[headEntry] = headEntry /\ prev[tailEntry] = headEntry
      /\ \A x \in Elements : next[x] = Null
  <2>1. /\ next[headEntry] = tailEntry /\ next[tailEntry] = tailEntry
        /\ prev[headEntry] = headEntry /\ prev[tailEntry] = headEntry
        /\ \A x \in Elements : next[x] = Null
    BY <1>1, SentinelsApart
  <2>2. /\ next \in [Entries -> Entries \cup {Null}] /\ prev \in [Entries -> Entries \cup {Null}]
    BY <1>1, SentinelsApart
  <2> QED BY <2>1, <2>2
<1>3. Linked(Only(<< >>), << >>, next, freeList, cut, heads, tails, MaxElements)
  <2>1. /\ DOMAIN Only(<< >>) = {list} /\ Only(<< >>)[list] = << >>
        /\ heads[list] = headEntry /\ tails[list] = tailEntry
    BY OnlyOne, EntriesAre
  <2>2. /\ IsChain(<< >>, next, next[headEntry], 1 .. cut, tailEntry)
        /\ IsChain(<< >>, next, freeList, 1 .. cut, 0)
    BY <1>1, <1>2 DEF IsChain, Null
  <2>3. cut \in 0 .. MaxElements /\ 1 .. cut = {} /\ \A x \in 1 .. MaxElements : next[x] = 0
    BY <1>1, <1>2, EntriesAre DEF Null
  <2> QED BY <1>2, <2>1, <2>2, <2>3 DEF Linked
<1>4. Chain(list) = << >> /\ FreeCells = << >>
  <2> DEFINE g == Collector(next, Elements, Entries \cup {Null})
  <2>1. g[freeList] = << >> /\ g[next[headEntry]] = << >>
    BY <1>2, <1>3, Collected
  <2>2. Chain(list) = g[next[headEntry]] /\ FreeCells = g[freeList]
    BY DEF Chain, FreeCells, ElementsFrom, Collector, Collects, headEntry
  <2> QED BY <2>1, <2>2
<1>5. Chains = Only(<< >>)
  BY <1>1, <1>4 DEF Chains, Only
<1>6. LinksInv
  <2>1. Len(<< >>) = 0
    OBVIOUS
  <2> QED BY <1>1, <1>2, <1>3, <1>4, <1>5, <2>1 DEF LinksInv
<1>7. BackInv
  <2>1. Len(<< >>) = 0
    OBVIOUS
  <2> QED BY <1>2, <1>4, <2>1 DEF BackInv, Backed
<1>8. ObjectsOf(list) = << >> /\ Contained = {}
  BY <1>4 DEF ObjectsOf, Contained, ToSet
<1>9. DataInv
  <2>1. /\ data \in [Entries -> Objects \cup {NullObject}]
        /\ data[headEntry] = NullObject /\ data[tailEntry] = NullObject
    BY <1>1, SentinelsApart
  <2>2. /\ << >> \in Seq(Objects) /\ Len(<< >>) = 0 /\ Distinct(<< >>)
    BY DEF Distinct
  <2> QED BY <1>4, <1>8, <2>1, <2>2 DEF DataInv, Init
<1>10. WalkInv
  BY DEF WalkInv, Init
<1> QED BY <1>6, <1>7, <1>8, <1>9, <1>10 DEF IInv

(* Every action keeps the invariant, and changes the sequence of objects just
   as its name says. *)
LEMMA StepAddLeft ==
  ASSUME IInv, NEW o \in Objects, AddLeft(o)
  PROVE  IInv' /\ ObjectsOf(list)' = <<o>> \o ObjectsOf(list) /\ o \in held \ Contained
<1>1. /\ o \in held /\ HasRoom
      /\ IF isDouble THEN addAtHead(o) ELSE Add(list, o) /\ UNCHANGED prev
      /\ itemsInContainer' = IF isWrapper THEN itemsInContainer + 1 ELSE 0
      /\ held' = held \ {o} /\ UNCHANGED <<kind, alive, walkVars>>
  BY DEF AddLeft
<1>2. /\ LinksInv' /\ BackInv' /\ NewElement \in Elements /\ data' = [data EXCEPT ![NewElement] = o]
      /\ Chain(list)' = <<NewElement>> \o Chain(list)
      /\ ObjectsOf(list)' = <<o>> \o ObjectsOf(list)
  BY <1>1, PutFront DEF IInv
<1>3. Chain(list)' = Push(NewElement, Chain(list)) /\ ObjectsOf(list)' = Push(o, ObjectsOf(list))
  BY <1>2 DEF Push
<1>4. IInv'
  BY <1>1, <1>2, <1>3, AfterPut
<1> QED BY <1>1, <1>2, <1>4 DEF IInv, DataInv

LEMMA StepAddRight ==
  ASSUME IInv, NEW o \in Objects, AddRight(o)
  PROVE  IInv' /\ ObjectsOf(list)' = Append(ObjectsOf(list), o) /\ o \in held \ Contained
<1>1. /\ o \in held /\ HasRoom /\ isDouble /\ addAtTail(o)
      /\ itemsInContainer' = IF isWrapper THEN itemsInContainer + 1 ELSE 0
      /\ held' = held \ {o} /\ UNCHANGED <<kind, alive, walkVars>>
  BY DEF AddRight, isDouble
<1>2. /\ LinksInv' /\ BackInv' /\ NewElement \in Elements /\ data' = [data EXCEPT ![NewElement] = o]
      /\ Chain(list)' = Append(Chain(list), NewElement)
      /\ ObjectsOf(list)' = Append(ObjectsOf(list), o)
  BY <1>1, PutBack DEF IInv
<1>3. IInv'
  BY <1>1, <1>2, AfterPut
<1> QED BY <1>1, <1>2, <1>3 DEF IInv, DataInv

LEMMA StepGetLeft ==
  ASSUME IInv, GetLeft
  PROVE  /\ IInv'
         /\ \/ UNCHANGED <<ObjectsOf(list), got>>
            \/ /\ Len(ObjectsOf(list)) # 0 /\ got' = ObjectsOf(list)[1]
               /\ ObjectsOf(list)' = Without(ObjectsOf(list), 1)
<1> DEFINE s == Chain(list)
           first == next[headEntry]
           o == data[first]
<1> USE DEF IInv
<1>1. /\ first = IF Len(s) = 0 THEN tailEntry ELSE s[1]
      /\ Len(s) \in Nat
  BY TheList DEF IsChain
<1>2. /\ kind \in {"Stack", "Deque"} /\ Leave(first, FALSE)
      /\ got' = IF o = NullObject THEN got ELSE o
  BY DEF GetLeft
<1>3. CASE Len(s) = 0
  <2>1. first = tailEntry /\ o = NullObject
    BY <1>1, <1>3 DEF DataInv
  <2>2. UNCHANGED <<listVars, prev, itemsInContainer>> /\ got' = got
    BY <1>2, <2>1 DEF GetLeft
  <2>3. IInv' /\ ObjectsOf(list)' = ObjectsOf(list)
    BY <1>2, <2>1, <2>2, AfterNone
  <2> QED BY <2>2, <2>3
<1>4. CASE Len(s) # 0
  <2>1. 1 \in 1 .. Len(s) /\ first = s[1]
    BY <1>1, <1>4
  <2>2. /\ o = ObjectsOf(list)[1] /\ o # NullObject /\ Len(ObjectsOf(list)) = Len(s)
    BY <2>1, TheObjects
  <2>3. /\ IF isDouble THEN Unlink(fromHead(o)) ELSE Detach(list, o) /\ UNCHANGED prev
        /\ itemsInContainer' = itemsInContainer - 1 /\ got' = o
    BY <1>2, <2>2 DEF GetLeft
  <2>4. EqualAt(1, o)
    BY <2>1 DEF EqualAt, Same
  <2>5. Gone(1)
    <3>1. CASE isDouble
      <4>1. \/ \E k \in 1 .. Len(s) : Gone(k) /\ \A j \in 1 .. k - 1 : ~EqualAt(j, o)
            \/ \A j \in 1 .. Len(s) : ~EqualAt(j, o)
        BY <2>3, <3>1, HeadTakes
      <4>2. PICK k \in 1 .. Len(s) : Gone(k) /\ \A j \in 1 .. k - 1 : ~EqualAt(j, o)
        BY <2>1, <2>4, <4>1
      <4>3. k = 1
        <5>1. k # 1 => 1 \in 1 .. k - 1
          BY <1>1
        <5> QED BY <2>4, <4>2, <5>1
      <4> QED BY <4>2, <4>3
    <3>2. CASE ~isDouble
      <4>1. \/ \E k \in 1 .. Len(s) : Gone(k) /\ \A j \in 1 .. k - 1 : ~EqualAt(j, o)
            \/ \A j \in 1 .. Len(s) : ~EqualAt(j, o)
        BY <2>3, <3>2, ListTakes
      <4>2. PICK k \in 1 .. Len(s) : Gone(k) /\ \A j \in 1 .. k - 1 : ~EqualAt(j, o)
        BY <2>1, <2>4, <4>1
      <4>3. k = 1
        <5>1. k # 1 => 1 \in 1 .. k - 1
          BY <1>1
        <5> QED BY <2>4, <4>2, <5>1
      <4> QED BY <4>2, <4>3
    <3> QED BY <3>1, <3>2
  <2>6. /\ itemsInContainer' \in Nat
        /\ isWrapper => itemsInContainer' >= Len(s) - 1
    <3>1. itemsInContainer \in Nat /\ itemsInContainer >= Len(s)
      BY <1>2 DEF DataInv, isWrapper
    <3> QED BY <1>1, <1>4, <2>3, <3>1
  <2>7. IInv' /\ ObjectsOf(list)' = Without(ObjectsOf(list), 1)
    BY <1>2, <2>1, <2>5, <2>6, AfterTake
  <2> QED BY <1>4, <2>2, <2>3, <2>7
<1> QED BY <1>3, <1>4

LEMMA StepGetRight ==
  ASSUME IInv, GetRight
  PROVE  /\ IInv'
         /\ \/ UNCHANGED <<ObjectsOf(list), got>>
            \/ LET n == Len(ObjectsOf(list))
               IN  /\ n # 0 /\ got' = ObjectsOf(list)[n]
                   /\ ObjectsOf(list)' = Without(ObjectsOf(list), n)
<1> DEFINE s == Chain(list)
           n == Len(s)
           last == prev[tailEntry]
           o == data[last]
<1> USE DEF IInv
<1>1. /\ kind \in {"Deque", "Queue"} /\ Leave(last, FALSE) /\ isDouble
      /\ got' = IF o = NullObject THEN got ELSE o
  BY DEF GetRight, isDouble
<1>2. /\ last = IF n = 0 THEN headEntry ELSE s[n]
      /\ n \in Nat
  BY <1>1, TheList DEF BackInv, Backed
<1>3. CASE n = 0
  <2>1. last = headEntry /\ o = NullObject
    BY <1>2, <1>3 DEF DataInv
  <2>2. UNCHANGED <<listVars, prev, itemsInContainer>> /\ got' = got
    BY <1>1, <2>1 DEF GetRight
  <2>3. IInv' /\ ObjectsOf(list)' = ObjectsOf(list)
    BY <1>1, <2>1, <2>2, AfterNone
  <2> QED BY <2>2, <2>3
<1>4. CASE n # 0
  <2>1. n \in 1 .. n /\ last = s[n]
    BY <1>2, <1>4
  <2>2. /\ o = ObjectsOf(list)[n] /\ o # NullObject /\ Len(ObjectsOf(list)) = n
    BY <2>1, TheObjects
  <2>3. /\ Unlink(fromTail(o))
        /\ itemsInContainer' = itemsInContainer - 1 /\ got' = o
    BY <1>1, <2>2 DEF GetRight
  <2>4. EqualAt(n, o)
    BY <2>1 DEF EqualAt, Same
  <2>5. Gone(n)
    <3>1. \/ \E k \in 1 .. n : Gone(k) /\ \A j \in k + 1 .. n : ~EqualAt(j, o)
          \/ \A j \in 1 .. n : ~EqualAt(j, o)
      BY <1>1, <2>3, TailTakes
    <3>2. PICK k \in 1 .. n : Gone(k) /\ \A j \in k + 1 .. n : ~EqualAt(j, o)
      BY <2>1, <2>4, <3>1
    <3>3. k = n
      <4>1. k # n => n \in k + 1 .. n
        BY <1>2
      <4> QED BY <2>4, <3>2, <4>1
    <3> QED BY <3>2, <3>3
  <2>6. /\ itemsInContainer' \in Nat
        /\ isWrapper => itemsInContainer' >= n - 1
    <3>1. itemsInContainer \in Nat /\ itemsInContainer >= n
      BY <1>1 DEF DataInv, isWrapper
    <3> QED BY <1>2, <1>4, <2>3, <3>1
  <2>7. IInv' /\ ObjectsOf(list)' = Without(ObjectsOf(list), n)
    BY <1>1, <2>1, <2>5, <2>6, AfterTake
  <2> QED BY <1>4, <2>2, <2>3, <2>7
<1> QED BY <1>3, <1>4

LEMMA StepDetach ==
  ASSUME IInv, NEW o \in Objects, NEW dt \in DeleteTypes, DetachObject(o, dt)
  PROVE  IInv' /\ ~isWrapper /\ kind' = kind /\ got' = got
<1> USE DEF IInv
<1>1. /\ kind \in {"List", "DoubleList"} /\ UNCHANGED <<itemsInContainer, got>> /\ ~isWrapper
      /\ itemsInContainer' \in Nat
  BY DEF DetachObject, isWrapper, DataInv
<1>2. CASE /\ kind = "List" /\ Leave(next[findPred(list, o)], delObj(dt))
           /\ Detach(list, o) /\ UNCHANGED prev
  <2>1. ~isDouble
    BY <1>2 DEF isDouble
  <2>2. CASE \E k \in 1 .. Len(Chain(list)) : next[findPred(list, o)] = Chain(list)[k] /\ Gone(k)
    BY <1>1, <1>2, <2>2, AfterTake DEF Leave
  <2>3. CASE next[findPred(list, o)] = tailEntry /\ UNCHANGED listVars
    BY <1>1, <1>2, <2>3, AfterNone DEF Leave
  <2> QED BY <1>2, <2>1, <2>2, <2>3, ListTakes
<1>3. CASE kind = "DoubleList" /\ Leave(fromHead(o), delObj(dt)) /\ Unlink(fromHead(o))
  <2>1. isDouble
    BY <1>3 DEF isDouble
  <2>2. CASE \E k \in 1 .. Len(Chain(list)) : fromHead(o) = Chain(list)[k] /\ Gone(k)
    BY <1>1, <1>3, <2>2, AfterTake DEF Leave
  <2>3. CASE fromHead(o) = tailEntry /\ UNCHANGED <<listVars, prev>>
    BY <1>1, <1>3, <2>3, AfterNone DEF Leave
  <2> QED BY <1>3, <2>1, <2>2, <2>3, HeadTakes
<1>4. CASE kind = "DoubleList" /\ Leave(fromTail(o), delObj(dt)) /\ Unlink(fromTail(o))
  <2>1. isDouble
    BY <1>4 DEF isDouble
  <2>2. CASE \E k \in 1 .. Len(Chain(list)) : fromTail(o) = Chain(list)[k] /\ Gone(k)
    BY <1>1, <1>4, <2>2, AfterTake DEF Leave
  <2>3. CASE fromTail(o) = headEntry /\ UNCHANGED <<listVars, prev>>
    BY <1>1, <1>4, <2>3, AfterNone DEF Leave
  <2> QED BY <1>4, <2>1, <2>2, <2>3, TailTakes
<1> QED BY <1>2, <1>3, <1>4 DEF DetachObject
LEMMA StepFlush ==
  ASSUME IInv, NEW dt \in DeleteTypes, Flush(dt)
  PROVE  IInv' /\ ObjectsOf(list)' = << >> /\ kind' = kind /\ got' = got
<1>1. /\ dir = "none" /\ FreeAll
      /\ alive' = IF delObj(dt) THEN alive \ Contained ELSE alive
      /\ held' = IF delObj(dt) THEN held ELSE held \cup Contained
      /\ UNCHANGED <<kind, owns, itemsInContainer, got, dir, at, start, due, done>>
  BY DEF Flush, walkVars
<1>2. /\ LinksInv' /\ BackInv' /\ Chain(list)' = << >> /\ ObjectsOf(list)' = << >>
  BY <1>1, Emptied DEF IInv
<1>3. Contained' = {} /\ Contained \subseteq Objects
  <2>1. ObjectsOf(list) \in Seq(Objects)
    BY DEF IInv, DataInv
  <2> QED BY <1>2, <2>1 DEF Contained, ToSet
<1>4. DataInv'
  <2>1. data' = data
    BY <1>1 DEF FreeAll
  <2>2. << >> \in Seq(Objects) /\ Distinct(<< >>) /\ Len(<< >>) = 0
    BY DEF Distinct
  <2>3. isWrapper' => itemsInContainer' >= Len(Chain(list)')
    <3>1. itemsInContainer' \in Nat
      BY <1>1 DEF IInv, DataInv
    <3> QED BY <1>2, <2>2, <3>1
  <2>4. held' \subseteq Objects /\ alive' = held' \cup Contained'
    BY <1>1, <1>3 DEF IInv, DataInv
  <2> QED BY <1>1, <1>2, <1>3, <2>1, <2>2, <2>3, <2>4 DEF IInv, DataInv
<1>5. WalkInv'
  BY <1>1, <1>3 DEF IInv, WalkInv
<1> QED BY <1>1, <1>2, <1>4, <1>5 DEF IInv

(* A step that leaves the list and its objects as they are. *)
LEMMA SameList ==
  ASSUME IInv, UNCHANGED <<listVars, prev, kind, itemsInContainer, alive, held>>
  PROVE  /\ LinksInv' /\ BackInv' /\ DataInv' /\ ObjectsOf(list)' = ObjectsOf(list)
         /\ Chain(list)' = Chain(list) /\ Contained' = Contained /\ data' = data
<1>1. /\ Chain(list)' = Chain(list) /\ FreeCells' = FreeCells /\ Chains' = Chains
      /\ ObjectsOf(list)' = ObjectsOf(list) /\ Contained' = Contained
  BY DEF listVars, Chain, FreeCells, ElementsFrom, Chains, ObjectsOf, Contained
<1>2. LinksInv'
  BY <1>1 DEF IInv, LinksInv, listVars
<1>3. BackInv'
  BY <1>1 DEF IInv, BackInv, isDouble
<1>4. DataInv'
  BY <1>1 DEF IInv, DataInv, isWrapper, listVars
<1> QED BY <1>1, <1>2, <1>3, <1>4 DEF listVars

LEMMA StepOwns ==
  ASSUME IInv, NEW del \in BOOLEAN, OwnsElements(del)
  PROVE  IInv' /\ UNCHANGED <<ObjectsOf(list), kind, got>>
<1>1. UNCHANGED <<listVars, prev, kind, itemsInContainer, alive, held, got, dir, at, start, due, done>>
  BY DEF OwnsElements, walkVars
<1>2. WalkInv'
  BY <1>1, SameList DEF IInv, WalkInv, Stops
<1> QED BY <1>1, <1>2, SameList DEF IInv

(* The ends of the list, and its elements where the iterator may be. *)
LEMMA ElementsIn ==
  ASSUME IInv
  PROVE  /\ Len(Chain(list)) \in Nat /\ Distinct(Chain(list))
         /\ \A i \in 1 .. Len(Chain(list)) :
              /\ Chain(list)[i] \in ToSet(Chain(list))
              /\ Chain(list)[i] \notin {headEntry, tailEntry, Null}
              /\ data[Chain(list)[i]] \in Contained
         /\ \A x \in ToSet(Chain(list)) : \E i \in 1 .. Len(Chain(list)) : Chain(list)[i] = x
         /\ \A i, j \in 1 .. Len(Chain(list)) :
              data[Chain(list)[i]] = data[Chain(list)[j]] => i = j
         /\ next[headEntry] = IF Len(Chain(list)) = 0 THEN tailEntry ELSE Chain(list)[1]
         /\ \A i \in 1 .. Len(Chain(list)) :
              next[Chain(list)[i]] = IF i = Len(Chain(list)) THEN tailEntry ELSE Chain(list)[i + 1]
         /\ next[tailEntry] = tailEntry
<1> DEFINE s == Chain(list)
           q == ObjectsOf(list)
<1>1. /\ s \in Seq(1 .. cut) /\ Len(s) \in Nat /\ Distinct(s)
      /\ \A i \in 1 .. Len(s) : s[i] \in Elements
      /\ IsChain(s, next, next[headEntry], 1 .. cut, tailEntry) /\ next[tailEntry] = tailEntry
  BY TheList DEF IInv
<1>2. /\ q \in Seq(Objects) /\ Len(q) = Len(s)
      /\ \A i \in 1 .. Len(s) : q[i] = data[s[i]]
      /\ \A o : o \in Contained <=> Has(q, o)
      /\ Distinct(q)
  BY TheObjects DEF IInv, DataInv
<1> HIDE DEF s, q
<1>3. \A x : x \in ToSet(s) <=> Has(s, x)
  BY <1>1, ToSetHas
<1>4. \A i \in 1 .. Len(s) : s[i] \in ToSet(s) /\ s[i] \notin {headEntry, tailEntry, Null}
  BY <1>1, <1>3, SentinelsApart DEF Has
<1>5. \A i \in 1 .. Len(s) : data[s[i]] \in Contained
  BY <1>2 DEF Has
<1>6. \A i, j \in 1 .. Len(s) : data[s[i]] = data[s[j]] => i = j
  BY <1>2 DEF Distinct
<1>7. \A x \in ToSet(s) : \E i \in 1 .. Len(s) : s[i] = x
  BY <1>3 DEF Has
<1> QED BY <1>1, <1>4, <1>5, <1>6, <1>7 DEF IsChain, s

LEMMA BackwardsIn ==
  ASSUME IInv, isDouble
  PROVE  /\ prev[headEntry] = headEntry
         /\ prev[tailEntry] = IF Len(Chain(list)) = 0 THEN headEntry
                              ELSE Chain(list)[Len(Chain(list))]
         /\ \A i \in 1 .. Len(Chain(list)) :
              prev[Chain(list)[i]] = IF i = 1 THEN headEntry ELSE Chain(list)[i - 1]
BY DEF IInv, BackInv, Backed

(* The iterator has more to come just when it is at an element of the list. *)
LEMMA MoreIs ==
  ASSUME IInv, dir # "none"
  PROVE  more <=> at \in ToSet(Chain(list))
<1> DEFINE s == Chain(list)
<1>1. at \in ToSet(s) \cup {IF dir = "forward" THEN tailEntry ELSE headEntry}
  BY DEF IInv, WalkInv, Stops
<1>2. ASSUME at \in ToSet(s)
      PROVE  more
  <2>1. PICK i \in 1 .. Len(s) : s[i] = at
    BY <1>2, ElementsIn
  <2>2. next[at] # at
    <3>1. i # Len(s) => i + 1 \in 1 .. Len(s) /\ s[i + 1] # s[i]
      BY <2>1, ElementsIn DEF Distinct
    <3>2. next[at] = IF i = Len(s) THEN tailEntry ELSE s[i + 1]
      BY <2>1, ElementsIn
    <3>3. at # tailEntry
      BY <2>1, ElementsIn
    <3> HIDE DEF s
    <3> QED BY <2>1, <3>1, <3>2, <3>3
  <2>3. isDouble => prev[at] # at
    <3>1. i # 1 => i - 1 \in 1 .. Len(s) /\ s[i - 1] # s[i]
      BY <2>1, ElementsIn DEF Distinct
    <3>2. isDouble => prev[at] = IF i = 1 THEN headEntry ELSE s[i - 1]
      BY <2>1, BackwardsIn
    <3>3. at # headEntry
      BY <2>1, ElementsIn
    <3> HIDE DEF s
    <3> QED BY <2>1, <3>1, <3>2, <3>3
  <2> QED BY <2>2, <2>3 DEF more
<1>3. ASSUME at \notin ToSet(s)
      PROVE  ~more
  <2>1. CASE dir = "forward"
    BY <1>1, <1>3, <2>1, ElementsIn DEF more
  <2>2. CASE dir # "forward"
    <3>1. isDouble /\ at = headEntry
      BY <1>1, <1>3, <2>2 DEF IInv, WalkInv, isDouble
    <3> QED BY <3>1, BackwardsIn DEF more
  <2> QED BY <2>1, <2>2
<1> QED BY <1>2, <1>3
(* Each object of the list is the one of an element. *)
LEMMA ContainedAt ==
  ASSUME IInv
  PROVE  \A y : y \in Contained <=> \E i \in 1 .. Len(Chain(list)) : data[Chain(list)[i]] = y
BY TheObjects DEF IInv, Has

LEMMA StepStart ==
  ASSUME IInv, StartWalk
  PROVE  IInv' /\ UNCHANGED <<ObjectsOf(list), kind, got>>
<1> DEFINE s == Chain(list)
           n == Len(s)
<1>1. /\ dir = "none" /\ start' = at' /\ due' = Contained /\ done' = {}
      /\ UNCHANGED <<listVars, prev, kind, owns, itemsInContainer, alive, held, got>>
  BY DEF StartWalk, clientVars
<1>2. /\ LinksInv' /\ BackInv' /\ DataInv' /\ ObjectsOf(list)' = ObjectsOf(list)
      /\ Chain(list)' = Chain(list) /\ Contained' = Contained /\ data' = data
  BY <1>1, SameList
<1>3. /\ n \in Nat /\ n # 0 => 1 \in 1 .. n /\ n \in 1 .. n
  BY ElementsIn
<1>4. CASE dir' = "forward" /\ at' = next[headEntry]
  <2>1. at' = IF n = 0 THEN tailEntry ELSE s[1]
    BY <1>4, ElementsIn
  <2>2. at' \in ToSet(s) \cup {tailEntry}
    BY <1>3, <2>1, ElementsIn
  <2>3. ASSUME NEW y \in Contained
        PROVE  Lies(s, data, at', "forward", y)
    <3>1. PICK i \in 1 .. n : data[s[i]] = y
      BY ContainedAt
    <3>2. n # 0 /\ Onward("forward", 1, i) /\ 1 \in 1 .. n /\ s[1] = at'
      BY <1>3, <2>1, <3>1 DEF Onward
    <3> QED BY <3>1, <3>2 DEF Lies
  <2> HIDE DEF s
  <2>4. WalkInv'
    BY <1>1, <1>2, <1>4, <2>2, <2>3 DEF WalkInv, Stops, s
  <2> QED BY <1>1, <1>2, <2>4 DEF IInv
<1>5. CASE kind = "DoubleList" /\ dir' = "backward" /\ at' = prev[tailEntry]
  <2>1. at' = IF n = 0 THEN headEntry ELSE s[n]
    <3>1. isDouble
      BY <1>5 DEF isDouble
    <3> QED BY <1>5, <3>1, BackwardsIn
  <2>2. at' \in ToSet(s) \cup {headEntry}
    BY <1>3, <2>1, ElementsIn
  <2>3. ASSUME NEW y \in Contained
        PROVE  Lies(s, data, at', "backward", y)
    <3>1. PICK i \in 1 .. n : data[s[i]] = y
      BY ContainedAt
    <3>2. n # 0 /\ Onward("backward", n, i) /\ n \in 1 .. n /\ s[n] = at'
      BY <1>3, <2>1, <3>1 DEF Onward
    <3> QED BY <3>1, <3>2 DEF Lies
  <2> HIDE DEF s
  <2>4. WalkInv'
    BY <1>1, <1>2, <1>5, <2>2, <2>3 DEF WalkInv, Stops, s
  <2> QED BY <1>1, <1>2, <2>4 DEF IInv
<1> QED BY <1>4, <1>5 DEF StartWalk

LEMMA StepAdvance ==
  ASSUME IInv, Advance
  PROVE  IInv' /\ UNCHANGED <<ObjectsOf(list), kind, got>>
<1> DEFINE s == Chain(list)
           end == IF dir = "forward" THEN tailEntry ELSE headEntry
<1>1. /\ dir # "none" /\ more
      /\ at' = IF dir = "forward" THEN next[at] ELSE prev[at]
      /\ due' = due \ {data[at]} /\ done' = done \cup (due \cap {data[at]})
      /\ UNCHANGED <<listVars, prev, kind, owns, itemsInContainer, alive, held, got, dir, start>>
  BY DEF Advance, clientVars
<1>2. /\ LinksInv' /\ BackInv' /\ DataInv' /\ ObjectsOf(list)' = ObjectsOf(list)
      /\ Chain(list)' = Chain(list) /\ Contained' = Contained /\ data' = data
  BY <1>1, SameList
<1>3. /\ dir \in {"forward", "backward"} /\ (dir = "backward" => isDouble)
      /\ start \in Stops \cup {Null}
      /\ \A y \in due : Lies(s, data, at, dir, y)
      /\ \A y \in done : ~Lies(s, data, at, dir, y)
      /\ due \subseteq Contained /\ done \subseteq Contained
      /\ (dir = "backward" => kind = "DoubleList")
  BY <1>1 DEF IInv, WalkInv, isDouble
<1>4. PICK k \in 1 .. Len(s) : s[k] = at
  BY <1>1, MoreIs, ElementsIn
<1>5. /\ Len(s) \in Nat /\ Distinct(s)
      /\ \A i, j \in 1 .. Len(s) : data[s[i]] = data[s[j]] => i = j
      /\ \A i \in 1 .. Len(s) : s[i] # end /\ s[i] \in ToSet(s)
  BY ElementsIn
<1>6. at' = Beyond(s, dir, k, end)
  <2>1. CASE dir = "forward"
    BY <1>1, <1>4, <2>1, ElementsIn DEF Beyond
  <2>2. CASE dir # "forward"
    BY <1>1, <1>3, <1>4, <2>2, BackwardsIn DEF Beyond
  <2> QED BY <2>1, <2>2
<1> HIDE DEF s, end
<1>7. \A y : Lies(s, data, at', dir, y) <=> Lies(s, data, at, dir, y) /\ y # data[at]
  <2>1. s \in Seq(1 .. cut) /\ Distinct(s)
    BY TheList DEF IInv, s
  <2>2. Distinct(Mapped(s, data))
    BY DEF IInv, DataInv, ObjectsOf, Mapped, s
  <2>3. ~Has(s, end)
    BY <1>5 DEF Has
  <2>4. \A y : Lies(s, data, Beyond(s, dir, k, end), dir, y)
                <=> Lies(s, data, s[k], dir, y) /\ y # data[s[k]]
    BY <1>3, <2>1, <2>2, <2>3, LiesNext
  <2> QED BY <1>4, <1>6, <2>4
<1>8. at' \in ToSet(s) \cup {end}
  <2>1. /\ k # Len(s) => k + 1 \in 1 .. Len(s)
        /\ k # 1 => k - 1 \in 1 .. Len(s)
    BY <1>5
  <2> QED BY <1>3, <1>5, <1>6, <2>1 DEF Beyond
<1>9. at' \in Stops' /\ start' \in Stops' \cup {Null}
  <2>1. Stops' = Stops
    BY <1>1, <1>2 DEF Stops
  <2> QED BY <1>1, <1>3, <1>8, <2>1 DEF Stops, s, end
<1>10. /\ \A y \in due' : Lies(s, data, at', dir, y)
       /\ \A y \in done' : ~Lies(s, data, at', dir, y)
       /\ due' \subseteq Contained /\ done' \subseteq Contained
  BY <1>1, <1>3, <1>7
<1>11. WalkInv'
  BY <1>1, <1>2, <1>3, <1>9, <1>10 DEF WalkInv, s
<1> QED BY <1>1, <1>2, <1>11 DEF IInv

LEMMA StepRestart ==
  ASSUME IInv, Restart
  PROVE  IInv' /\ UNCHANGED <<ObjectsOf(list), kind, got>>
<1> DEFINE s == Chain(list)
<1>1. /\ dir # "none" /\ start # Null /\ at' = start /\ due' = AheadOf(start) /\ done' = {}
      /\ UNCHANGED <<listVars, prev, kind, owns, itemsInContainer, alive, held, got, dir, start>>
  BY DEF Restart, clientVars
<1>2. /\ LinksInv' /\ BackInv' /\ DataInv' /\ ObjectsOf(list)' = ObjectsOf(list)
      /\ Chain(list)' = Chain(list) /\ Contained' = Contained /\ data' = data
  BY <1>1, SameList
<1>3. \A y : y \in AheadOf(start) <=> Lies(s, data, start, dir, y)
  BY AheadMember DEF IInv
<1>4. AheadOf(start) \subseteq Contained
  BY <1>3, ContainedAt DEF Lies
<1>5. start \in Stops /\ Stops' = Stops
  BY <1>1, <1>2 DEF IInv, WalkInv, Stops
<1> HIDE DEF s
<1>6. WalkInv'
  BY <1>1, <1>2, <1>3, <1>4, <1>5 DEF IInv, WalkInv, s
<1> QED BY <1>1, <1>2, <1>6 DEF IInv

LEMMA StepEnd ==
  ASSUME IInv, EndWalk
  PROVE  IInv' /\ UNCHANGED <<ObjectsOf(list), kind, got>>
<1>1. /\ dir' = "none" /\ due' = {} /\ done' = {}
      /\ UNCHANGED <<listVars, prev, kind, owns, itemsInContainer, alive, held, got>>
  BY DEF EndWalk, clientVars
<1>2. WalkInv'
  BY <1>1 DEF WalkInv
<1> QED BY <1>1, <1>2, SameList DEF IInv
-----------------------------------------------------------------------------
LEMMA StepIInv == IInv /\ [Next]_vars => IInv'
<1> SUFFICES ASSUME IInv, [Next]_vars
             PROVE  IInv'
  OBVIOUS
<1>1. ASSUME NEW o \in Objects, AddLeft(o) \/ AddRight(o)
      PROVE  IInv'
  BY <1>1, StepAddLeft, StepAddRight
<1>2. CASE GetLeft \/ GetRight
  BY <1>2, StepGetLeft, StepGetRight
<1>3. ASSUME NEW o \in Objects, NEW dt \in DeleteTypes, DetachObject(o, dt)
      PROVE  IInv'
  BY <1>3, StepDetach
<1>4. ASSUME NEW dt \in DeleteTypes, Flush(dt)
      PROVE  IInv'
  BY <1>4, StepFlush
<1>5. ASSUME NEW del \in BOOLEAN, OwnsElements(del)
      PROVE  IInv'
  BY <1>5, StepOwns
<1>6. CASE StartWalk \/ Advance \/ Restart \/ EndWalk
  BY <1>6, StepStart, StepAdvance, StepRestart, StepEnd
<1>7. CASE UNCHANGED vars
  <2>1. UNCHANGED <<listVars, prev, kind, itemsInContainer, alive, held, dir, at, start, due, done>>
    BY <1>7 DEF vars, clientVars, walkVars
  <2>2. WalkInv'
    BY <2>1, SameList DEF IInv, WalkInv, Stops
  <2> QED BY <2>1, <2>2, SameList DEF IInv
<1> QED BY <1>1, <1>2, <1>3, <1>4, <1>5, <1>6, <1>7 DEF Next

LEMMA AlwaysIInv == Spec => []IInv
BY InitIInv, StepIInv, PTL DEF Spec

(* However lists, stacks, deques and queues are used, by add, put, push, get,
   pop, detach from either end and flush, no object gets lost or is in two
   places, no cell of the pool either; the counts fit, and a list that is linked
   both ways is the same both ways (list.cpp, dbllist.cpp, stack.cpp,
   deque.cpp, queue.cpp). *)
THEOREM ListsWhole == Spec => []ListWhole
<1>1. IInv => ListWhole
  BY WholeFollows DEF IInv
<1> QED BY <1>1, AlwaysIInv, PTL

(* A walk that the client lets go on while it adds and takes out objects (but
   never the one the iterator is at) returns no object twice, and at its end it
   has returned each that was there all along; after a restart, each of those
   from the element the iterator was made at, which may not be the first by then
   (ListIterator, DoubleListIterator). *)
THEOREM WalksAreWhole == Spec => []WalkIsWhole
<1>1. IInv => WalkIsWhole
  <2> SUFFICES ASSUME IInv, dir # "none"
               PROVE  IF more THEN data[at] \in Contained \ done ELSE due = {}
    BY DEF WalkIsWhole
  <2> DEFINE s == Chain(list)
  <2>1. /\ \A y \in due : Lies(s, data, at, dir, y)
        /\ \A y \in done : ~Lies(s, data, at, dir, y)
    BY DEF IInv, WalkInv
  <2>2. CASE more
    <3>1. PICK i \in 1 .. Len(s) : s[i] = at
      BY <2>2, MoreIs, ElementsIn
    <3>2. data[at] \in Contained /\ Len(s) \in Nat
      BY <3>1, ElementsIn
    <3>3. Lies(s, data, at, dir, data[at])
      <4>1. Onward(dir, i, i)
        BY <3>2 DEF Onward
      <4> QED BY <3>1, <4>1 DEF Lies
    <3> QED BY <2>1, <2>2, <3>2, <3>3
  <2>3. CASE ~more
    <3>1. \A j \in 1 .. Len(s) : s[j] # at
      BY <2>3, MoreIs, ElementsIn
    <3>2. \A y : ~Lies(s, data, at, dir, y)
      BY <3>1 DEF Lies
    <3> QED BY <2>1, <2>3, <3>2
  <2> QED BY <2>2, <2>3
<1> QED BY <1>1, AlwaysIInv, PTL

(* Room in the sequence with two ends: the client's object is not in it. *)
LEMMA RoomLeft ==
  ASSUME IInv, NEW o \in Objects, o \in held \ Contained
  PROVE  Len(ObjectsOf(list)) < Cardinality(Objects)
<1> DEFINE q == ObjectsOf(list)
<1>1. q \in Seq(Objects) /\ Distinct(q) /\ Contained = ToSet(q)
  BY DEF IInv, DataInv, Contained
<1>2. IsFiniteSet(Contained) /\ Cardinality(Contained) = Len(q)
  BY <1>1, CardinalityLen
<1>3. Contained \subseteq Objects \ {o}
  <2> HIDE DEF q
  <2> QED BY <1>1 DEF ToSet
<1>4. IsFiniteSet(Objects)
  BY ListAssumption
<1>5. /\ IsFiniteSet(Objects \ {o}) /\ Cardinality(Objects \ {o}) = Cardinality(Objects) - 1
      /\ Cardinality(Objects) \in Nat
  BY <1>4, FS_RemoveElement, FS_CardinalityType
<1>6. Cardinality(Contained) <= Cardinality(Objects \ {o})
  BY <1>3, <1>5, FS_Subset
<1>7. Len(q) \in Nat
  BY <1>1
<1> HIDE DEF q
<1>8. Len(q) < Cardinality(Objects)
  BY <1>2, <1>5, <1>6, <1>7
<1> QED BY <1>8 DEF q

(* A sequence without its first place, and without its last. *)
LEMMA WithoutFirst ==
  ASSUME NEW S, NEW q \in Seq(S), Len(q) # 0
  PROVE  q # << >> /\ Head(q) = q[1] /\ Without(q, 1) = Tail(q)
<1>1. Len(q) \in Nat \ {0}
  OBVIOUS
<1>2. q # << >> /\ Head(q) = q[1]
  OBVIOUS
<1>3. /\ Tail(q) \in Seq(S) /\ Len(Tail(q)) = Len(q) - 1
      /\ \A i \in 1 .. Len(q) - 1 : Tail(q)[i] = q[i + 1]
  BY <1>2
<1>4. Without(q, 1) = [j \in 1 .. Len(q) - 1 |-> q[j + 1]]
  <2>1. \A j \in 1 .. Len(q) - 1 : ~(j < 1)
    BY <1>1
  <2> QED BY <2>1 DEF Without
<1>5. Tail(q) = [j \in 1 .. Len(q) - 1 |-> Tail(q)[j]]
  <2> DEFINE b == Tail(q)
             n == Len(q) - 1
  <2>1. b \in Seq(S) /\ Len(b) = n /\ n \in Nat
    BY <1>1, <1>3
  <2> HIDE DEF b, n
  <2>2. b = [j \in 1 .. n |-> b[j]]
    BY <2>1
  <2> QED BY <2>2 DEF b, n
<1>6. Tail(q) = [j \in 1 .. Len(q) - 1 |-> q[j + 1]]
  BY <1>3, <1>5, Zenon
<1> QED BY <1>2, <1>4, <1>6

LEMMA WithoutLast ==
  ASSUME NEW S, NEW q \in Seq(S), Len(q) # 0
  PROVE  q # << >> /\ Without(q, Len(q)) = SubSeq(q, 1, Len(q) - 1)
<1>1. Len(q) \in Nat \ {0}
  OBVIOUS
<1> DEFINE n == Len(q) - 1
<1>2. n \in Nat /\ n <= Len(q)
  BY <1>1
<1>3. /\ SubSeq(q, 1, n) \in Seq(S) /\ Len(SubSeq(q, 1, n)) = n
      /\ \A i \in 1 .. n : SubSeq(q, 1, n)[i] = q[i]
  <2> HIDE DEF n
  <2> QED BY <1>2
<1>4. Without(q, Len(q)) = [j \in 1 .. n |-> q[j]]
  <2>1. \A j \in 1 .. n : j < Len(q)
    BY <1>1
  <2> QED BY <2>1 DEF Without
<1>5. SubSeq(q, 1, n) = [j \in 1 .. n |-> SubSeq(q, 1, n)[j]]
  <2> HIDE DEF n
  <2> QED BY <1>2, <1>3
<1>6. SubSeq(q, 1, n) = [j \in 1 .. n |-> q[j]]
  BY <1>3, <1>5, Zenon
<1> QED BY <1>1, <1>4, <1>6

LEMMA EndsStep ==
  ASSUME IInv, [Next]_vars
  PROVE  [Ends!Next]_(Ends!vars)
<1> DEFINE q == ObjectsOf(list)
<1>1. q \in Seq(Objects) /\ Len(q) \in Nat
  BY DEF IInv, DataInv
<1>2. ASSUME UNCHANGED <<q, kind, got>>
      PROVE  UNCHANGED Ends!vars
  BY <1>2 DEF Ends!vars, isWrapper
<1>3. ASSUME ~isWrapper, kind' = kind, got' = got
      PROVE  UNCHANGED Ends!vars
  BY <1>3 DEF Ends!vars, isWrapper
<1>4. ASSUME isWrapper, kind' = kind
      PROVE  isWrapper'
  BY <1>4 DEF isWrapper
<1>5. ASSUME NEW o \in Objects, AddLeft(o)
      PROVE  [Ends!Next]_(Ends!vars)
  <2>1. kind' = kind /\ got' = got /\ q' = <<o>> \o q /\ Len(q) < Cardinality(Objects)
    BY <1>5, StepAddLeft, RoomLeft DEF AddLeft
  <2>2. CASE isWrapper
    BY <1>4, <2>1, <2>2 DEF Ends!Next, Ends!PutLeft
  <2> QED BY <1>3, <2>1, <2>2
<1>6. ASSUME NEW o \in Objects, AddRight(o)
      PROVE  [Ends!Next]_(Ends!vars)
  <2>1. kind' = kind /\ got' = got /\ q' = Append(q, o) /\ Len(q) < Cardinality(Objects)
    BY <1>6, StepAddRight, RoomLeft DEF AddRight
  <2>2. CASE isWrapper
    BY <1>4, <2>1, <2>2 DEF Ends!Next, Ends!PutRight
  <2> QED BY <1>3, <2>1, <2>2
<1>7. CASE GetLeft
  <2>1. isWrapper /\ kind' = kind
    BY <1>7 DEF GetLeft, isWrapper, Leave
  <2>2. CASE UNCHANGED <<q, got>>
    BY <1>2, <2>1, <2>2
  <2>3. CASE Len(q) # 0 /\ got' = q[1] /\ q' = Without(q, 1)
    <3>1. q # << >> /\ Head(q) = q[1] /\ Without(q, 1) = Tail(q)
      BY <1>1, <2>3, WithoutFirst
    <3> QED BY <1>4, <2>1, <2>3, <3>1 DEF Ends!Next, Ends!GetLeft
  <2> QED BY <1>7, <2>2, <2>3, StepGetLeft
<1>8. CASE GetRight
  <2>1. isWrapper /\ kind' = kind
    BY <1>8 DEF GetRight, isWrapper, Leave
  <2>2. CASE UNCHANGED <<q, got>>
    BY <1>2, <2>1, <2>2
  <2>3. CASE Len(q) # 0 /\ got' = q[Len(q)] /\ q' = Without(q, Len(q))
    <3>1. q # << >> /\ Without(q, Len(q)) = SubSeq(q, 1, Len(q) - 1)
      BY <1>1, <2>3, WithoutLast
    <3> QED BY <1>4, <2>1, <2>3, <3>1 DEF Ends!Next, Ends!GetRight
  <2> QED BY <1>8, <2>2, <2>3, StepGetRight
<1>9. ASSUME NEW o \in Objects, NEW dt \in DeleteTypes, DetachObject(o, dt)
      PROVE  UNCHANGED Ends!vars
  BY <1>3, <1>9, StepDetach
<1>10. ASSUME NEW dt \in DeleteTypes, Flush(dt)
       PROVE  [Ends!Next]_(Ends!vars)
  <2>1. q' = << >> /\ kind' = kind /\ got' = got
    BY <1>10, StepFlush
  <2>2. Ends!Flush
    BY <2>1 DEF Ends!Flush, isWrapper
  <2> QED BY <2>2 DEF Ends!Next
<1>11. ASSUME NEW del \in BOOLEAN, OwnsElements(del)
       PROVE  UNCHANGED Ends!vars
  BY <1>2, <1>11, StepOwns
<1>12. CASE StartWalk \/ Advance \/ Restart \/ EndWalk
  BY <1>2, <1>12, StepStart, StepAdvance, StepRestart, StepEnd
<1>13. CASE UNCHANGED vars
  <2>1. UNCHANGED <<listVars, prev, kind, itemsInContainer, alive, held, got>>
    BY <1>13 DEF vars, clientVars
  <2> QED BY <1>2, <2>1, SameList
<1> QED BY <1>5, <1>6, <1>7, <1>8, <1>9, <1>10, <1>11, <1>12, <1>13 DEF Next

(* Stack, Deque and Queue are a sequence with two ends, though what is got is
   looked at first and then searched for by its value: no equal object is ever
   taken in its place (Stack::pop, Deque::getLeft and getRight, Queue::get). *)
THEOREM ListsAreEnds == Spec => AreEnds
<1>1. Init => Ends!Init
  <2> SUFFICES ASSUME Init
               PROVE  Ends!Init
    OBVIOUS
  <2>1. ObjectsOf(list) = << >>
    BY InitIInv
  <2> QED BY <2>1 DEF Init, Ends!Init
<1>2. IInv /\ [Next]_vars => [Ends!Next]_(Ends!vars)
  BY EndsStep
<1> QED BY <1>1, <1>2, AlwaysIInv, PTL DEF Spec, AreEnds, Ends!Spec
=============================================================================
