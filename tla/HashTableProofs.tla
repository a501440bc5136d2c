--------------------------- MODULE HashTableProofs ---------------------------
(***************************************************************************)
(* Proofs about the hash table of Bag, Set and Dictionary (module          *)
(* HashTable): any number of buckets, lists of any length in a pool of any *)
(* size, and every hash function that agrees on equal objects.             *)
(***************************************************************************)
EXTENDS HashTable, Induction

(* The sentinels and the lists, as the lemmas about linked lists take them. *)
heads == [l \in Lists |-> head(l)]
tails == [l \in Lists |-> tail(l)]
Chains == [l \in exists |-> Chain(l)]

(* The lists and the free cells: every used cell is in one of them. *)
LinksInv ==
  /\ exists \subseteq Lists
  /\ next \in [Entries -> Entries \cup {Null}]
  /\ Linked(Chains, FreeCells, next, freeList, cut, heads, tails, MaxElements)
  /\ size = [l \in Lists |-> IF l \in exists THEN Len(Chain(l)) ELSE 0]

(* The objects of the lists. *)
Rows(c, d) == [l \in DOMAIN c |-> Mapped(c[l], d)]
Table == Rows(Chains, data)
Hash == [o \in Objects |-> getHashValue(o)]
In(q) == {o \in Objects : \E l \in DOMAIN q : Has(q[l], o)}

(* Each object is filed once, under its hash value. *)
Filed(q, h) ==
  \A l \in DOMAIN q :
    /\ q[l] \in Seq(Objects) /\ Distinct(q[l])
    /\ \A o \in Objects : Has(q[l], o) => h[o] = l

DataInv ==
  /\ client \in Clients /\ key = client.key
  /\ data \in [Entries -> Objects \cup {NullObject}]
  /\ \A l \in Lists : data[head(l)] = NullObject /\ data[tail(l)] = NullObject
  /\ Filed(Table, Hash)
  /\ held \subseteq Objects
  /\ held \cap In(Table) = {}
  /\ alive = held \cup In(Table)
  /\ itemsInContainer = Cardinality(In(Table))
  /\ cut = itemsInContainer + Len(FreeCells)
  /\ client.kind = "Set" => \A o, p \in In(Table) : Same(o, p) => o = p

(* y lies ahead of an iterator that is at element x of list l: there, or in a
   later list. *)
Ahead(c, d, l, x, y) ==
  \E m \in DOMAIN c : \/ m > l /\ Has(Mapped(c[m], d), y)
                      \/ m = l /\ Lies(c[m], d, x, "forward", y)

(* The iterator is at an element of the list of its slot, or, in its loop, at
   the end of that list.  What is due lies ahead, and what is done does not. *)
WalkInv ==
  /\ pc \in {"none", "ready", "scan"}
  /\ slot \in 0 .. Buckets
  /\ due \subseteq In(Table) /\ done \subseteq In(Table)
  /\ pc = "none" => due = {} /\ done = {}
  /\ pc # "none" =>
       /\ more => /\ slot \in exists
                  /\ Has(Chains[slot], at) \/ (pc = "scan" /\ at = tail(slot))
       /\ \A y \in due : Ahead(Chains, data, slot, at, y)
       /\ \A y \in done : ~Ahead(Chains, data, slot, at, y)

IInv == LinksInv /\ DataInv /\ WalkInv

-----------------------------------------------------------------------------
(* The entries: cells are positive, sentinels negative. *)
LEMMA TheEntries ==
  /\ MaxElements \in Nat /\ Elements = 1 .. MaxElements
  /\ Buckets \in Nat \ {0} /\ Lists = 0 .. Buckets - 1
  /\ \A l \in Lists :
       /\ l \in Int /\ head(l) \in Int /\ tail(l) \in Int /\ head(l) < 0 /\ tail(l) < 0
       /\ head(l) \in Entries /\ tail(l) \in Entries
       /\ heads[l] = head(l) /\ tails[l] = tail(l)
  /\ \A l, m \in Lists :
       head(l) # tail(m) /\ (l # m => head(l) # head(m) /\ tail(l) # tail(m))
  /\ Elements \subseteq Entries
  /\ \A x \in Elements : x \in Int /\ x > 0
<1>1. /\ MaxElements \in Nat /\ Buckets \in Nat \ {0} /\ Lists = 0 .. Buckets - 1
  BY ListAssumption, HashTableAssumption
<1>2. \A l \in Lists : /\ l \in Int /\ head(l) \in Int /\ tail(l) \in Int
                       /\ head(l) < 0 /\ tail(l) < 0
                       /\ head(l) \in Entries /\ tail(l) \in Entries
                       /\ heads[l] = head(l) /\ tails[l] = tail(l)
  BY <1>1 DEF head, tail, Entries, heads, tails
<1>3. \A l, m \in Lists :
        head(l) # tail(m) /\ (l # m => head(l) # head(m) /\ tail(l) # tail(m))
  BY <1>1 DEF head, tail
<1>4. /\ Elements = 1 .. MaxElements /\ Elements \subseteq Entries
      /\ \A x \in Elements : x \in Int /\ x > 0
  BY <1>1 DEF Elements, Entries
<1> QED BY <1>1, <1>2, <1>3, <1>4

LEMMA TheNodes ==
  /\ Sentinels(heads, tails, Lists, MaxElements)
  /\ Entries = Nodes(heads, tails, Lists, MaxElements)
  /\ \A l \in Lists : head(l) \notin Elements /\ tail(l) \notin Elements
  /\ Null \notin Elements /\ \A l \in Lists : head(l) # Null /\ tail(l) # Null
<1>1. \A l \in Lists : /\ head(l) \notin 0 .. MaxElements /\ tail(l) \notin 0 .. MaxElements
                       /\ head(l) # Null /\ tail(l) # Null
  BY TheEntries DEF Null
<1>2. Sentinels(heads, tails, Lists, MaxElements)
  BY <1>1, TheEntries DEF Sentinels
<1>3. {heads[l] : l \in Lists} = {head(l) : l \in Lists}
  BY TheEntries
<1>4. {tails[l] : l \in Lists} = {tail(l) : l \in Lists}
  BY TheEntries
<1>5. Entries = Nodes(heads, tails, Lists, MaxElements)
  BY <1>3, <1>4 DEF Entries, Nodes, Elements
<1>6. Null \notin Elements
  BY TheEntries DEF Null
<1>7. \A l \in Lists : head(l) \notin Elements /\ tail(l) \notin Elements
  BY TheEntries
<1> QED BY <1>1, <1>2, <1>5, <1>6, <1>7

(* What elements the recursive definition of the model collects. *)
LEMMA Collected ==
  ASSUME NEW c, DOMAIN c \subseteq Lists, NEW f,
         NEW nxt \in [Entries -> Entries \cup {Null}], NEW fl, NEW ct,
         Linked(c, f, nxt, fl, ct, heads, tails, MaxElements)
  PROVE  /\ Collector(nxt, Elements, Entries \cup {Null})[fl] = f
         /\ \A l \in DOMAIN c : Collector(nxt, Elements, Entries \cup {Null})[nxt[head(l)]] = c[l]
<1> DEFINE E == Entries \cup {Null}
           g == Collector(nxt, 1 .. MaxElements, E)
<1>1. /\ Nodes(heads, tails, Lists, MaxElements) \cup {0} \subseteq E
      /\ \A x \in 1 .. MaxElements : nxt[x] \in E
  BY TheNodes, TheEntries DEF Null
<1>2. MaxElements \in Nat /\ Sentinels(heads, tails, Lists, MaxElements)
  BY TheNodes, TheEntries
<1>3. g[fl] = f /\ \A l \in DOMAIN c : g[nxt[heads[l]]] = c[l]
  <2> HIDE DEF E
  <2> QED BY <1>1, <1>2, LinkedCollected
<1>4. \A l \in DOMAIN c : heads[l] = head(l)
  BY TheEntries
<1>5. g = Collector(nxt, Elements, E)
  BY TheEntries
<1> HIDE DEF g
<1> QED BY <1>3, <1>4, <1>5

(* The lists and the free cells after a step, from the links it leaves. *)
Sizes(c) == [l \in Lists |-> IF l \in DOMAIN c THEN Len(c[l]) ELSE 0]

LEMMA ListsAfter ==
  ASSUME NEW c, DOMAIN c \subseteq Lists, c = [l \in DOMAIN c |-> c[l]], NEW f,
         next' \in [Entries -> Entries \cup {Null}], exists' = DOMAIN c,
         Linked(c, f, next', freeList', cut', heads, tails, MaxElements),
         size' = Sizes(c)
  PROVE  /\ LinksInv' /\ Chains' = c /\ FreeCells' = f /\ Table' = Rows(c, data')
<1> DEFINE g == Collector(next', Elements, Entries \cup {Null})
<1>1. g[freeList'] = f /\ \A l \in DOMAIN c : g[next'[head(l)]] = c[l]
  <2> DEFINE n2 == next'
             l2 == freeList'
             c2 == cut'
             b == Collector(n2, Elements, Entries \cup {Null})
  <2>1. /\ n2 \in [Entries -> Entries \cup {Null}]
        /\ Linked(c, f, n2, l2, c2, heads, tails, MaxElements)
    OBVIOUS
  <2>2. g = b
    OBVIOUS
  <2> HIDE DEF n2, l2, c2, g
  <2>3. b[l2] = f /\ \A l \in DOMAIN c : b[n2[head(l)]] = c[l]
    BY <2>1, Collected
  <2> HIDE DEF b
  <2>4. g[l2] = f /\ \A l \in DOMAIN c : g[n2[head(l)]] = c[l]
    BY <2>2, <2>3
  <2> QED BY <2>4 DEF n2, l2
<1>2. FreeCells' = g[freeList'] /\ \A l : Chain(l)' = g[next'[head(l)]]
  BY DEF Chain, FreeCells, ElementsFrom, Collector, Collects
<1> HIDE DEF g
<1>3. FreeCells' = f /\ \A l \in DOMAIN c : Chain(l)' = c[l]
  BY <1>1, <1>2
<1>4. Chains' = c
  BY <1>3 DEF Chains
<1>5. Table' = Rows(c, data')
  BY <1>4 DEF Table
<1>6. size' = [l \in Lists |-> IF l \in DOMAIN c THEN Len(Chain(l)') ELSE 0]
  BY <1>3 DEF Sizes
<1>7. LinksInv'
  BY <1>3, <1>4, <1>6 DEF LinksInv
<1> QED BY <1>3, <1>4, <1>5, <1>7

(* What the invariant says of the elements of the lists. *)
LEMMA TheLists ==
  ASSUME LinksInv
  PROVE  /\ cut \in 0 .. MaxElements /\ cut \in Nat /\ 1 .. cut \subseteq Elements
         /\ DOMAIN Chains = exists /\ exists \subseteq Lists /\ Chains = [l \in DOMAIN Chains |-> Chains[l]]
         /\ size = Sizes(Chains)
         /\ FreeCells \in Seq(1 .. cut) /\ Distinct(FreeCells) /\ Len(FreeCells) \in Nat
         /\ freeList = (IF Len(FreeCells) = 0 THEN Null ELSE FreeCells[1])
         /\ freeList \in Entries \cup {Null}
         /\ \A x \in 1 .. cut : Has(FreeCells, x) \/ \E l \in exists : Has(Chain(l), x)
         /\ \A l, m \in exists : \A x : Has(Chain(l), x) /\ Has(Chain(m), x) => l = m
<1>1. /\ exists \subseteq Lists
      /\ Linked(Chains, FreeCells, next, freeList, cut, heads, tails, MaxElements)
      /\ size = [l \in Lists |-> IF l \in exists THEN Len(Chain(l)) ELSE 0]
  BY DEF LinksInv
<1>2. /\ DOMAIN Chains = exists /\ Chains = [l \in DOMAIN Chains |-> Chains[l]]
      /\ \A l \in exists : Chains[l] = Chain(l)
  BY DEF Chains
<1>3. size = Sizes(Chains)
  BY <1>1, <1>2 DEF Sizes
<1>4. /\ cut \in 0 .. MaxElements
      /\ IsChain(FreeCells, next, freeList, 1 .. cut, 0)
      /\ \A x \in 1 .. cut : Has(FreeCells, x) \/ \E l \in exists : Has(Chain(l), x)
  BY <1>1, <1>2 DEF Linked
<1>5. cut \in Nat /\ 1 .. cut \subseteq Elements
  BY <1>4, TheEntries
<1>6. /\ Distinct(FreeCells)
      /\ \A l, m \in DOMAIN Chains : \A x : Has(Chains[l], x) /\ Has(Chains[m], x) => l = m
  BY <1>1, <1>2, TheEntries, TheNodes, LinkedApart
<1>7. /\ FreeCells \in Seq(1 .. cut) /\ Len(FreeCells) \in Nat
      /\ \A i \in 1 .. Len(FreeCells) : FreeCells[i] \in 1 .. cut
  BY <1>4, ChainIn
<1>8. freeList = IF Len(FreeCells) = 0 THEN Null ELSE FreeCells[1]
  BY <1>4 DEF IsChain, Null
<1>9. freeList \in Entries \cup {Null}
  <2>1. Len(FreeCells) # 0 => FreeCells[1] \in 1 .. cut
    BY <1>7
  <2> QED BY <1>5, <1>8, <2>1, TheEntries
<1> QED BY <1>1, <1>2, <1>3, <1>4, <1>5, <1>6, <1>7, <1>8, <1>9

LEMMA TheChain ==
  ASSUME LinksInv, NEW l \in exists
  PROVE  /\ l \in Lists /\ Chains[l] = Chain(l)
         /\ IsChain(Chain(l), next, next[head(l)], 1 .. cut, tail(l))
         /\ next[tail(l)] = tail(l)
         /\ Chain(l) \in Seq(1 .. cut) /\ Chain(l) \in Seq(Elements) /\ Len(Chain(l)) \in Nat
         /\ DOMAIN Chain(l) = 1 .. Len(Chain(l))
         /\ Distinct(Chain(l))
         /\ \A x : Has(Chain(l), x) => x \in Elements /\ ~Has(FreeCells, x)
         /\ \A i \in 1 .. Len(Chain(l)) : Chain(l)[i] \in Elements /\ Has(Chain(l), Chain(l)[i])
         /\ size[l] = Len(Chain(l))
<1> DEFINE s == Chain(l)
<1>1. /\ exists \subseteq Lists /\ l \in Lists /\ DOMAIN Chains = exists /\ Chains[l] = s
      /\ Linked(Chains, FreeCells, next, freeList, cut, heads, tails, MaxElements)
      /\ cut \in Nat /\ 1 .. cut \subseteq Elements
      /\ heads[l] = head(l) /\ tails[l] = tail(l)
  BY TheLists, TheEntries DEF LinksInv, Chains
<1>2. /\ size[l] = Len(s)
  BY <1>1 DEF LinksInv
<1> HIDE DEF s
<1>3. /\ IsChain(s, next, next[head(l)], 1 .. cut, tail(l)) /\ next[tail(l)] = tail(l)
  BY <1>1 DEF Linked
<1>4. /\ s \in Seq(1 .. cut) /\ Len(s) \in Nat /\ \A i \in 1 .. Len(s) : s[i] \in 1 .. cut
      /\ \A x : Has(s, x) => x \in 1 .. cut
  BY <1>3, ChainIn
<1>5. Distinct(s) /\ \A x : ~(Has(s, x) /\ Has(FreeCells, x))
  <2>1. /\ \A m \in DOMAIN Chains : Distinct(Chains[m])
        /\ \A m \in DOMAIN Chains : \A x : ~(Has(Chains[m], x) /\ Has(FreeCells, x))
    <3>1. /\ MaxElements \in Nat /\ Sentinels(heads, tails, Lists, MaxElements)
          /\ DOMAIN Chains \subseteq Lists
      BY <1>1, TheEntries, TheNodes
    <3>2. Linked(Chains, FreeCells, next, freeList, cut, heads, tails, MaxElements)
      BY <1>1
    <3> QED BY <3>1, <3>2, LinkedApart
  <2> QED BY <1>1, <2>1
<1>6. s \in Seq(Elements) /\ DOMAIN s = 1 .. Len(s)
  BY <1>1, <1>4
<1>7. \A i \in 1 .. Len(s) : s[i] \in Elements /\ Has(s, s[i])
  BY <1>1, <1>4 DEF Has
<1> QED BY <1>1, <1>2, <1>3, <1>4, <1>5, <1>6, <1>7 DEF s

-----------------------------------------------------------------------------
(* A search in list l stops at the entry before the first equal object, or
   before the tail. *)
LEMMA FoundPred ==
  ASSUME LinksInv, NEW l \in exists, NEW o
  PROVE  LET s == Chain(l)
         IN  \/ \E k \in 1 .. Len(s) :
                  /\ findPred(l, o) = IF k = 1 THEN head(l) ELSE s[k - 1]
                  /\ next[findPred(l, o)] = s[k] /\ Same(data[s[k]], o)
             \/ /\ next[findPred(l, o)] = tail(l)
                /\ \A j \in 1 .. Len(s) : ~Same(data[s[j]], o)
<1> DEFINE s == Chain(l)
           n == Len(s)
           t == <<head(l)>> \o s
           hit(i) == i = Len(t) \/ Same(data[t[i + 1]], o)
           first(i) == hit(i) /\ \A j \in 1 .. i - 1 : ~hit(j)
<1>1. /\ s \in Seq(1 .. cut) /\ n \in Nat /\ head(l) \in Int
      /\ IsChain(s, next, next[head(l)], 1 .. cut, tail(l))
  BY TheChain, TheEntries
<1>2. /\ Len(t) = n + 1 /\ t[1] = head(l) /\ \A i \in 1 .. n : t[i + 1] = s[i]
      /\ DOMAIN t = 1 .. n + 1
  <2> HIDE DEF s
  <2> QED BY <1>1
<1>3. findPred(l, o) = t[CHOOSE i \in DOMAIN t : first(i)]
  BY DEF findPred
<1> HIDE DEF s, t
<1>4. \E i \in 1 .. n + 1 : first(i)
  <2> DEFINE H == {i \in 1 .. n + 1 : hit(i)}
  <2>1. H \in SUBSET Nat /\ n + 1 \in H
    BY <1>1, <1>2
  <2>2. \E m \in H : \A i \in H : m <= i
    <3> HIDE DEF H
    <3> QED BY <2>1, Least
  <2>3. PICK m \in H : \A i \in H : m <= i
    BY <2>2
  <2>4. ASSUME NEW j \in 1 .. m - 1
        PROVE  ~hit(j)
    <3>1. j \in 1 .. n + 1 /\ ~(m <= j)
      BY <1>1, <2>3
    <3> QED BY <2>3, <3>1
  <2> QED BY <2>3, <2>4
<1>5. PICK i \in 1 .. n + 1 : first(i) /\ findPred(l, o) = t[i]
  BY <1>2, <1>3, <1>4
<1>6. next[t[i]] = IF i = n + 1 THEN tail(l) ELSE s[i]
  <2>1. CASE i = 1
    BY <1>1, <1>2, <2>1 DEF IsChain
  <2>2. CASE i # 1
    <3>1. i - 1 \in 1 .. n /\ (i - 1) + 1 = i /\ (i - 1 = n <=> i = n + 1)
      BY <1>1, <2>2
    <3>2. t[i] = s[i - 1]
      BY <1>2, <3>1
    <3> QED BY <1>1, <3>1, <3>2 DEF IsChain
  <2> QED BY <2>1, <2>2
<1>7. CASE i = n + 1
  <2>1. \A j \in 1 .. n : j \in 1 .. i - 1 /\ j # Len(t)
    BY <1>1, <1>2, <1>7
  <2>2. \A j \in 1 .. n : ~Same(data[s[j]], o)
    BY <1>2, <1>5, <2>1
  <2> QED BY <1>5, <1>6, <1>7, <2>2 DEF s
<1>8. CASE i # n + 1
  <2>1. i \in 1 .. n
    BY <1>1, <1>8
  <2>2. Same(data[s[i]], o) /\ next[findPred(l, o)] = s[i]
    BY <1>2, <1>5, <1>6, <1>8, <2>1
  <2>3. findPred(l, o) = IF i = 1 THEN head(l) ELSE s[i - 1]
    <3>1. i # 1 => i - 1 \in 1 .. n /\ (i - 1) + 1 = i
      BY <1>1
    <3> QED BY <1>2, <1>5, <3>1
  <2> QED BY <2>1, <2>2, <2>3 DEF s
<1> QED BY <1>7, <1>8

-----------------------------------------------------------------------------
(* The objects filed, as one is added or taken out. *)
LEMMA AtIs ==
  ASSUME NEW S, NEW c, \A m \in DOMAIN c : c[m] \in Seq(S) /\ Distinct(c[m]), NEW l
  PROVE  /\ ListAt(c, l) \in Seq(S) /\ Distinct(ListAt(c, l))
         /\ \A x : Has(ListAt(c, l), x) <=> l \in DOMAIN c /\ Has(c[l], x)
<1>1. << >> \in Seq(S) /\ Len(<< >>) = 0
  OBVIOUS
<1>2. Distinct(<< >>) /\ \A x : ~Has(<< >>, x)
  BY <1>1 DEF Distinct, Has
<1>3. CASE l \in DOMAIN c
  BY <1>3 DEF ListAt
<1>4. CASE l \notin DOMAIN c
  BY <1>1, <1>2, <1>4 DEF ListAt
<1> QED BY <1>3, <1>4

LEMMA FiledPush ==
  ASSUME NEW q, NEW h, Filed(q, h), NEW o \in Objects, o \notin In(q), NEW l, h[o] = l
  PROVE  /\ Filed(With(q, l, Push(o, ListAt(q, l))), h)
         /\ In(With(q, l, Push(o, ListAt(q, l)))) = In(q) \cup {o}
<1> DEFINE a == ListAt(q, l)
           p == Push(o, a)
           r == With(q, l, p)
<1>1. /\ a \in Seq(Objects) /\ Distinct(a)
      /\ \A x : Has(a, x) <=> l \in DOMAIN q /\ Has(q[l], x)
  <2>1. \A m \in DOMAIN q : q[m] \in Seq(Objects) /\ Distinct(q[m])
    BY DEF Filed
  <2> QED BY <2>1, AtIs
<1>2. ~Has(a, o)
  BY <1>1 DEF In
<1> HIDE DEF a
<1>3. /\ p \in Seq(Objects) /\ Distinct(p)
      /\ \A x : Has(p, x) <=> x = o \/ Has(a, x)
  BY <1>1, <1>2, DistinctPush, HasPush DEF Push
<1> HIDE DEF p
<1>4. /\ DOMAIN r = DOMAIN q \cup {l} /\ r[l] = p
      /\ \A m \in DOMAIN q : m # l => r[m] = q[m]
  BY DEF With
<1> HIDE DEF r
<1>5. ASSUME NEW m \in DOMAIN r
      PROVE  r[m] \in Seq(Objects) /\ Distinct(r[m]) /\ \A x \in Objects : Has(r[m], x) => h[x] = m
  <2>1. CASE m = l
    BY <1>1, <1>3, <1>4, <2>1 DEF Filed
  <2>2. CASE m # l
    BY <1>4, <2>2 DEF Filed
  <2> QED BY <2>1, <2>2
<1>6. In(r) = In(q) \cup {o}
  <2>1. ASSUME NEW x \in Objects
        PROVE  (\E m \in DOMAIN r : Has(r[m], x)) <=> x = o \/ \E m \in DOMAIN q : Has(q[m], x)
    <3>1. ASSUME NEW m \in DOMAIN r, Has(r[m], x)
          PROVE  x = o \/ \E i \in DOMAIN q : Has(q[i], x)
      BY <1>1, <1>3, <1>4, <3>1
    <3>2. ASSUME x = o
          PROVE  \E m \in DOMAIN r : Has(r[m], x)
      BY <1>3, <1>4, <3>2
    <3>3. ASSUME NEW m \in DOMAIN q, Has(q[m], x)
          PROVE  \E i \in DOMAIN r : Has(r[i], x)
      BY <1>1, <1>3, <1>4, <3>3
    <3> QED BY <3>1, <3>2, <3>3
  <2> QED BY <2>1 DEF In
<1> QED BY <1>5, <1>6 DEF Filed, r, p, a

LEMMA FiledWithout ==
  ASSUME NEW q, NEW h, Filed(q, h), NEW l \in DOMAIN q, NEW k \in 1 .. Len(q[l])
  PROVE  /\ Filed(With(q, l, Without(q[l], k)), h)
         /\ In(With(q, l, Without(q[l], k))) = In(q) \ {q[l][k]}
         /\ q[l][k] \in In(q)
<1> DEFINE a == q[l]
           o == a[k]
           p == Without(a, k)
           r == With(q, l, p)
<1>1. a \in Seq(Objects) /\ Distinct(a) /\ k \in 1 .. Len(a)
  BY DEF Filed
<1>2. o \in Objects /\ Has(a, o)
  <2> HIDE DEF a
  <2> QED BY <1>1 DEF Has
<1>3. h[o] = l /\ o \in In(q)
  BY <1>2 DEF Filed, In
<1> HIDE DEF a, o
<1>4. /\ p \in Seq(Objects) /\ Distinct(p)
      /\ \A x : Has(p, x) <=> Has(a, x) /\ x # o
  BY <1>1, DistinctWithout, HasWithout DEF o
<1> HIDE DEF p
<1>5. /\ DOMAIN r = DOMAIN q /\ r[l] = p
      /\ \A m \in DOMAIN q : m # l => r[m] = q[m]
  BY DEF With
<1> HIDE DEF r
<1>6. ASSUME NEW m \in DOMAIN r
      PROVE  r[m] \in Seq(Objects) /\ Distinct(r[m]) /\ \A x \in Objects : Has(r[m], x) => h[x] = m
  <2>1. CASE m = l
    BY <1>4, <1>5, <2>1 DEF Filed, a
  <2>2. CASE m # l
    BY <1>5, <2>2 DEF Filed
  <2> QED BY <2>1, <2>2
<1>7. In(r) = In(q) \ {o}
  <2>1. ASSUME NEW x \in Objects
        PROVE  (\E m \in DOMAIN r : Has(r[m], x)) <=> x # o /\ \E m \in DOMAIN q : Has(q[m], x)
    <3>1. ASSUME NEW m \in DOMAIN r, Has(r[m], x)
          PROVE  x # o /\ \E i \in DOMAIN q : Has(q[i], x)
      <4>1. CASE m = l
        BY <1>4, <1>5, <3>1, <4>1 DEF a
      <4>2. CASE m # l
        <5>1. m \in DOMAIN q /\ Has(q[m], x) /\ h[x] = m
          BY <1>5, <3>1, <4>2 DEF Filed
        <5> QED BY <1>3, <4>2, <5>1
      <4> QED BY <4>1, <4>2
    <3>2. ASSUME x # o, NEW m \in DOMAIN q, Has(q[m], x)
          PROVE  \E i \in DOMAIN r : Has(r[i], x)
      BY <1>4, <1>5, <3>2 DEF a
    <3> QED BY <3>1, <3>2
  <2> QED BY <2>1 DEF In
<1> QED BY <1>3, <1>6, <1>7 DEF Filed, r, p, o, a

-----------------------------------------------------------------------------
(* A list of elements with the same data as before. *)
LEMMA SameRow ==
  ASSUME NEW s, NEW d, NEW d2, SameOn(s, d, d2), DOMAIN s = 1 .. Len(s)
  PROVE  /\ Mapped(s, d2) = Mapped(s, d)
         /\ \A x, w, y : Lies(s, d2, x, w, y) <=> Lies(s, d, x, w, y)
<1>1. \A i \in DOMAIN s : d2[s[i]] = d[s[i]]
  BY DEF SameOn
<1> QED BY <1>1 DEF Mapped, Lies

(* The lists of elements c and those of their objects, after the element e was
   put before list l, with object o, or the k-th was taken from it. *)
Listed(c, e, d, d2) ==
  \A m \in DOMAIN c : c[m] \in Seq(Elements) /\ Distinct(c[m]) /\ SameOn(c[m], d, d2)

LEMMA RowsPush ==
  ASSUME NEW c, NEW e \in Elements, NEW d, NEW d2, Listed(c, e, d, d2),
         NEW h, Filed(Rows(c, d), h), NEW o \in Objects, d2[e] = o, NEW l
  PROVE  Rows(With(c, l, Push(e, ListAt(c, l))), d2) = With(Rows(c, d), l, Push(o, ListAt(Rows(c, d), l)))
<1> DEFINE a == ListAt(c, l)
           p == Push(e, a)
           r == With(c, l, p)
           q == Rows(c, d)
           b == Push(o, ListAt(q, l))
           v == With(q, l, b)
<1>1. a \in Seq(Elements)
  <2>1. \A m \in DOMAIN c : c[m] \in Seq(Elements) /\ Distinct(c[m])
    BY DEF Listed
  <2> QED BY <2>1, AtIs
<1>2. DOMAIN q = DOMAIN c /\ \A m \in DOMAIN c : q[m] = Mapped(c[m], d)
  BY DEF Rows
<1>3. Mapped(a, d) = ListAt(q, l) /\ SameOn(a, d, d2)
  <2>1. CASE l \in DOMAIN c
    <3>1. a = c[l] /\ ListAt(q, l) = q[l]
      BY <1>2, <2>1 DEF ListAt
    <3> HIDE DEF a, q
    <3> QED BY <1>2, <2>1, <3>1 DEF Listed
  <2>2. CASE l \notin DOMAIN c
    <3>1. a = << >> /\ ListAt(q, l) = << >>
      BY <1>2, <2>2 DEF ListAt
    <3>2. Len(<< >>) = 0 /\ Mapped(<< >>, d) = << >>
      BY DEF Mapped
    <3> HIDE DEF a, q
    <3> QED BY <3>1, <3>2 DEF SameOn
  <2> QED BY <2>1, <2>2
<1>4. ListAt(q, l) \in Seq(Objects)
  <2>1. \A m \in DOMAIN q : q[m] \in Seq(Objects) /\ Distinct(q[m])
    BY DEF Filed
  <2> HIDE DEF q
  <2> QED BY <2>1, AtIs
<1>5. Mapped(p, d2) = b
  <2>1. Mapped(a, d) \in Seq(Objects)
    BY <1>3, <1>4
  <2> HIDE DEF a, q
  <2>2. Mapped(Push(e, a), d2) = Push(o, Mapped(a, d))
    BY <1>1, <1>3, <2>1, MapPush
  <2> QED BY <1>3, <2>2
<1>6. \A m \in DOMAIN c : Mapped(c[m], d2) = q[m]
  <2> SUFFICES ASSUME NEW m \in DOMAIN c
               PROVE  Mapped(c[m], d2) = q[m]
    OBVIOUS
  <2>1. SameOn(c[m], d, d2) /\ c[m] \in Seq(Elements)
    BY DEF Listed
  <2>2. DOMAIN c[m] = 1 .. Len(c[m])
    BY <2>1
  <2>3. Mapped(c[m], d2) = Mapped(c[m], d)
    BY <2>1, <2>2, SameRow
  <2> QED BY <1>2, <2>3
<1> HIDE DEF a, p, q, b
<1>7. /\ DOMAIN r = DOMAIN c \cup {l} /\ r[l] = p
      /\ \A m \in DOMAIN c : m # l => r[m] = c[m]
  BY DEF With
<1>8. /\ DOMAIN v = DOMAIN c \cup {l} /\ v[l] = b
      /\ \A m \in DOMAIN c : m # l => v[m] = q[m]
      /\ v = [m \in DOMAIN v |-> v[m]]
  BY <1>2 DEF With
<1> HIDE DEF r, v
<1>9. \A m \in DOMAIN c \cup {l} : Mapped(r[m], d2) = v[m]
  BY <1>5, <1>6, <1>7, <1>8
<1>10. Rows(r, d2) = v
  BY <1>7, <1>8, <1>9 DEF Rows
<1> QED BY <1>10 DEF r, v, b, p, a, q

LEMMA RowsWithout ==
  ASSUME NEW c, NEW l \in DOMAIN c, c[l] \in Seq(Elements), NEW k \in 1 .. Len(c[l]), NEW d
  PROVE  Rows(With(c, l, Without(c[l], k)), d) = With(Rows(c, d), l, Without(Rows(c, d)[l], k))
<1> DEFINE p == Without(c[l], k)
           r == With(c, l, p)
           q == Rows(c, d)
           b == Without(q[l], k)
           v == With(q, l, b)
<1>1. DOMAIN q = DOMAIN c /\ \A m \in DOMAIN c : q[m] = Mapped(c[m], d)
  BY DEF Rows
<1>2. Mapped(p, d) = b
  <2> HIDE DEF q
  <2> QED BY <1>1, MapWithout
<1> HIDE DEF p, q, b
<1>3. /\ DOMAIN r = DOMAIN c /\ r[l] = p
      /\ \A m \in DOMAIN c : m # l => r[m] = c[m]
  BY DEF With
<1>4. /\ DOMAIN v = DOMAIN c /\ v[l] = b
      /\ \A m \in DOMAIN c : m # l => v[m] = q[m]
      /\ v = [m \in DOMAIN v |-> v[m]]
  BY <1>1 DEF With
<1> HIDE DEF r, v
<1>5. \A m \in DOMAIN c : Mapped(r[m], d) = v[m]
  BY <1>1, <1>2, <1>3, <1>4
<1>6. Rows(r, d) = v
  BY <1>3, <1>4, <1>5 DEF Rows
<1> QED BY <1>6 DEF r, v, b, p, q

-----------------------------------------------------------------------------
(* What lies ahead of the iterator, as an object is added or taken out
   elsewhere. *)
LEMMA LiesHas ==
  ASSUME NEW S, NEW s \in Seq(S), NEW d, NEW x, NEW w, NEW y, Lies(s, d, x, w, y)
  PROVE  Has(Mapped(s, d), y)
<1>1. PICK i \in 1 .. Len(s) : d[s[i]] = y
  BY DEF Lies
<1>2. DOMAIN s = 1 .. Len(s) /\ Len(s) \in Nat
  OBVIOUS
<1>3. Mapped(s, d) = [j \in 1 .. Len(s) |-> d[s[j]]]
  BY <1>2 DEF Mapped
<1>4. Len(Mapped(s, d)) = Len(s) /\ Mapped(s, d)[i] = y
  BY <1>1, <1>2, <1>3
<1> QED BY <1>4 DEF Has

LEMMA AheadPush ==
  ASSUME NEW c, NEW e, NEW d, NEW d2, NEW h, NEW o, NEW l, NEW n, NEW x, NEW y,
         e \in Elements, o \in Objects, Listed(c, e, d, d2), Filed(Rows(c, d), h), d2[e] = o,
         n \in DOMAIN c \cup {l} => x # e
  PROVE  LET r == With(c, l, Push(e, ListAt(c, l)))
         IN  /\ Ahead(c, d, n, x, y) => Ahead(r, d2, n, x, y)
             /\ Ahead(r, d2, n, x, y) => Ahead(c, d, n, x, y) \/ y = o
<1> DEFINE a == ListAt(c, l)
           p == Push(e, a)
           r == With(c, l, p)
<1>1. /\ DOMAIN r = DOMAIN c \cup {l} /\ r[l] = p
      /\ \A m \in DOMAIN c : m # l => r[m] = c[m]
  <2> HIDE DEF p
  <2> QED BY DEF With
<1>2. a \in Seq(Elements)
  <2>1. \A m \in DOMAIN c : c[m] \in Seq(Elements) /\ Distinct(c[m])
    BY DEF Listed
  <2> QED BY <2>1, AtIs
<1>3. /\ SameOn(a, d, d2) /\ Mapped(a, d) \in Seq(Objects)
      /\ l \notin DOMAIN c => /\ \A z : ~Has(Mapped(a, d), z)
                              /\ \A z, w, u : ~Lies(a, d, z, w, u)
  <2>1. CASE l \in DOMAIN c
    <3>1. a = c[l]
      BY <2>1 DEF ListAt
    <3>2. Mapped(c[l], d) \in Seq(Objects)
      BY <2>1 DEF Filed, Rows
    <3> HIDE DEF a
    <3> QED BY <2>1, <3>1, <3>2 DEF Listed
  <2>2. CASE l \notin DOMAIN c
    <3>1. a = << >>
      BY <2>2 DEF ListAt
    <3>2. Len(<< >>) = 0 /\ Mapped(<< >>, d) = << >> /\ << >> \in Seq(Objects)
      BY DEF Mapped
    <3>3. \A i : i \notin 1 .. Len(<< >>)
      BY <3>2
    <3>4. (\A z : ~Has(<< >>, z)) /\ \A z, w, u : ~Lies(<< >>, d, z, w, u)
      BY <3>3, Zenon DEF Has, Lies
    <3>5. SameOn(<< >>, d, d2)
      BY <3>3, Zenon DEF SameOn
    <3> QED BY <3>1, <3>2, <3>4, <3>5
  <2> QED BY <2>1, <2>2
<1> HIDE DEF a
<1>4. \A z : Has(Mapped(p, d2), z) <=> z = o \/ Has(Mapped(a, d), z)
  <2>1. Mapped(p, d2) = Push(o, Mapped(a, d))
    BY <1>2, <1>3, MapPush
  <2>2. \A z : Has(Push(o, Mapped(a, d)), z) <=> z = o \/ Has(Mapped(a, d), z)
    BY <1>3, HasPush DEF Push
  <2> QED BY <2>1, <2>2
<1>5. x # e => /\ Lies(a, d, x, "forward", y) => Lies(p, d2, x, "forward", y)
               /\ Lies(p, d2, x, "forward", y) => Lies(a, d, x, "forward", y) \/ y = o
  <2>1. StillLies(a, d, p, d2, e, o, "forward")
    BY <1>2, <1>3, LiesPush
  <2> QED BY <2>1 DEF StillLies
<1> HIDE DEF p
<1>6. \A m \in DOMAIN c : /\ Mapped(c[m], d2) = Mapped(c[m], d)
                          /\ Lies(c[m], d2, x, "forward", y) <=> Lies(c[m], d, x, "forward", y)
  <2> SUFFICES ASSUME NEW m \in DOMAIN c
               PROVE  /\ Mapped(c[m], d2) = Mapped(c[m], d)
                      /\ Lies(c[m], d2, x, "forward", y) <=> Lies(c[m], d, x, "forward", y)
    OBVIOUS
  <2>1. SameOn(c[m], d, d2) /\ c[m] \in Seq(Elements)
    BY DEF Listed
  <2>2. DOMAIN c[m] = 1 .. Len(c[m])
    BY <2>1
  <2> QED BY <2>1, <2>2, SameRow
<1>7. l \in DOMAIN c => a = c[l]
  BY DEF ListAt, a
<1> HIDE DEF r
<1>8. ASSUME NEW m \in DOMAIN c, \/ m > n /\ Has(Mapped(c[m], d), y)
                                 \/ m = n /\ Lies(c[m], d, x, "forward", y)
      PROVE  \/ m > n /\ Has(Mapped(r[m], d2), y)
             \/ m = n /\ Lies(r[m], d2, x, "forward", y)
  <2>1. CASE m = l
    BY <1>1, <1>4, <1>5, <1>7, <1>8, <2>1
  <2>2. CASE m # l
    BY <1>1, <1>6, <1>8, <2>2
  <2> QED BY <2>1, <2>2
<1>9. ASSUME NEW m \in DOMAIN r, y # o,
             \/ m > n /\ Has(Mapped(r[m], d2), y)
             \/ m = n /\ Lies(r[m], d2, x, "forward", y)
      PROVE  m \in DOMAIN c /\ \/ m > n /\ Has(Mapped(c[m], d), y)
                               \/ m = n /\ Lies(c[m], d, x, "forward", y)
  <2>1. CASE m = l
    <3>1. m = n => x # e
      BY <1>1, <2>1
    <3>2. \/ m > n /\ Has(Mapped(a, d), y)
          \/ m = n /\ Lies(a, d, x, "forward", y)
      BY <1>1, <1>4, <1>5, <1>9, <2>1, <3>1
    <3>3. l \in DOMAIN c
      BY <1>3, <3>2
    <3> QED BY <1>7, <2>1, <3>2, <3>3
  <2>2. CASE m # l
    <3>1. m \in DOMAIN c
      BY <1>1, <2>2
    <3> QED BY <1>1, <1>6, <1>9, <2>2, <3>1
  <2> QED BY <2>1, <2>2
<1>10. Ahead(c, d, n, x, y) => Ahead(r, d2, n, x, y)
  BY <1>1, <1>8 DEF Ahead
<1>11. Ahead(r, d2, n, x, y) => Ahead(c, d, n, x, y) \/ y = o
  BY <1>9 DEF Ahead
<1> QED BY <1>10, <1>11 DEF r, p, a

LEMMA AheadWithout ==
  ASSUME NEW c, \A m \in DOMAIN c : c[m] \in Seq(Elements) /\ Distinct(c[m]), NEW d,
         NEW h, Filed(Rows(c, d), h), NEW l \in DOMAIN c, NEW k \in 1 .. Len(c[l]),
         NEW n, NEW x, n = l => x # c[l][k], NEW y \in Objects
  PROVE  Ahead(With(c, l, Without(c[l], k)), d, n, x, y)
           <=> Ahead(c, d, n, x, y) /\ y # d[c[l][k]]
<1> DEFINE a == c[l]
           e == a[k]
           p == Without(a, k)
           r == With(c, l, p)
           u == Mapped(a, d)
<1>1. /\ DOMAIN r = DOMAIN c /\ r[l] = p
      /\ \A m \in DOMAIN c : m # l => r[m] = c[m]
  <2> HIDE DEF p
  <2> QED BY DEF With
<1>2. /\ a \in Seq(Elements) /\ k \in 1 .. Len(a)
      /\ u \in Seq(Objects) /\ Distinct(u)
      /\ \A m \in DOMAIN c : \A z \in Objects : Has(Mapped(c[m], d), z) => h[z] = m
  BY DEF Filed, Rows
<1> HIDE DEF a, r
<1>3. /\ Len(u) = Len(a) /\ u[k] = d[e]
  <2>1. DOMAIN a = 1 .. Len(a) /\ Len(a) \in Nat
    BY <1>2
  <2> QED BY <1>2, <2>1 DEF Mapped
<1> HIDE DEF u, e
<1>4. d[e] \in Objects /\ h[d[e]] = l
  <2>1. d[e] \in Objects /\ Has(u, d[e])
    BY <1>2, <1>3 DEF Has
  <2> QED BY <1>2, <2>1 DEF u, a
<1>5. \A z : Has(Mapped(p, d), z) <=> Has(u, z) /\ z # d[e]
  <2>1. Mapped(p, d) = Without(u, k)
    BY <1>2, MapWithout DEF u
  <2>2. k \in 1 .. Len(u)
    BY <1>2, <1>3
  <2>3. \A z : Has(Without(u, k), z) <=> Has(u, z) /\ z # u[k]
    BY <1>2, <2>2, HasWithout
  <2> QED BY <1>3, <2>1, <2>3
<1>6. x # e => (Lies(p, d, x, "forward", y) <=> Lies(a, d, x, "forward", y) /\ y # d[e])
  BY <1>2, LiesWithout DEF u, e
<1> HIDE DEF p
<1>7. \A m \in DOMAIN c : m # l => /\ Has(Mapped(c[m], d), y) => y # d[e]
                                   /\ Lies(c[m], d, x, "forward", y) => y # d[e]
  <2> SUFFICES ASSUME NEW m \in DOMAIN c, m # l
               PROVE  /\ Has(Mapped(c[m], d), y) => y # d[e]
                      /\ Lies(c[m], d, x, "forward", y) => y # d[e]
    OBVIOUS
  <2>1. Has(Mapped(c[m], d), y) => y # d[e]
    BY <1>2, <1>4
  <2>2. Lies(c[m], d, x, "forward", y) => Has(Mapped(c[m], d), y)
    BY LiesHas
  <2> QED BY <2>1, <2>2
<1>8. \A m \in DOMAIN c :
        (\/ m > n /\ Has(Mapped(r[m], d), y)
         \/ m = n /\ Lies(r[m], d, x, "forward", y))
        <=> /\ \/ m > n /\ Has(Mapped(c[m], d), y)
               \/ m = n /\ Lies(c[m], d, x, "forward", y)
            /\ y # d[e]
  <2> SUFFICES ASSUME NEW m \in DOMAIN c
               PROVE  (\/ m > n /\ Has(Mapped(r[m], d), y)
                       \/ m = n /\ Lies(r[m], d, x, "forward", y))
                      <=> /\ \/ m > n /\ Has(Mapped(c[m], d), y)
                             \/ m = n /\ Lies(c[m], d, x, "forward", y)
                          /\ y # d[e]
    OBVIOUS
  <2>1. CASE m = l
    <3>1. m = n => x # e
      BY <2>1 DEF e, a
    <3>2. r[m] = p /\ c[m] = a /\ u = Mapped(a, d)
      BY <1>1, <2>1 DEF a, u
    <3> QED BY <1>5, <1>6, <3>1, <3>2
  <2>2. CASE m # l
    BY <1>1, <1>7, <2>2
  <2> QED BY <2>1, <2>2
<1>9. Ahead(r, d, n, x, y) <=> Ahead(c, d, n, x, y) /\ y # d[e]
  BY <1>1, <1>8 DEF Ahead
<1> QED BY <1>9 DEF r, p, e, a

-----------------------------------------------------------------------------
(* The objects of the lists, and the hash values. *)
LEMMA HashIs ==
  ASSUME client \in Clients
  PROVE  /\ \A o \in Objects : getHashValue(o) \in Lists /\ Hash[o] = getHashValue(o)
         /\ \A o, p \in Objects : client.key[o] = client.key[p] => getHashValue(o) = getHashValue(p)
<1>1. /\ Buckets \in Nat \ {0} /\ Lists = 0 .. Buckets - 1
      /\ client.hash \in [Objects -> Nat]
      /\ \A o, p \in Objects : client.key[o] = client.key[p] => client.hash[o] = client.hash[p]
  BY HashTableAssumption
<1>2. \A o \in Objects : client.hash[o] \in Nat
  BY <1>1
<1>3. \A n \in Nat : n % Buckets \in 0 .. Buckets - 1
  BY <1>1
<1>4. \A o \in Objects : getHashValue(o) \in Lists
  BY <1>1, <1>2, <1>3 DEF getHashValue
<1> QED BY <1>1, <1>4 DEF getHashValue, Hash

LEMMA RowOf ==
  ASSUME LinksInv, DataInv, NEW l \in exists
  PROVE  /\ l \in DOMAIN Table /\ Table[l] = Mapped(Chain(l), data)
         /\ Table[l] \in Seq(Objects) /\ Distinct(Table[l]) /\ Len(Table[l]) = Len(Chain(l))
         /\ \A i \in 1 .. Len(Chain(l)) :
              /\ Table[l][i] = data[Chain(l)[i]] /\ data[Chain(l)[i]] \in In(Table)
              /\ data[Chain(l)[i]] \in Objects /\ data[Chain(l)[i]] # NullObject
         /\ \A y \in Objects : Has(Table[l], y) => getHashValue(y) = l
         /\ \A y : Has(Table[l], y) <=> \E i \in 1 .. Len(Chain(l)) : data[Chain(l)[i]] = y
<1> DEFINE s == Chain(l)
           q == Table[l]
<1>1. l \in DOMAIN Table /\ q = Mapped(s, data)
  BY TheLists, TheChain DEF Table, Rows
<1>2. /\ q \in Seq(Objects) /\ Distinct(q) /\ \A y \in Objects : Has(q, y) => Hash[y] = l
  BY <1>1 DEF DataInv, Filed
<1>3. \A y \in Objects : Hash[y] = getHashValue(y)
  BY HashIs DEF DataInv
<1>4. DOMAIN s = 1 .. Len(s) /\ Len(s) \in Nat
  BY TheChain
<1>5. \A y \in Objects : Has(q, y) => y \in In(Table)
  BY <1>1 DEF In
<1> HIDE DEF s, q
<1>6. Len(q) = Len(s) /\ \A i \in 1 .. Len(s) : q[i] = data[s[i]]
  BY <1>1, <1>4 DEF Mapped
<1>7. \A i \in 1 .. Len(s) : q[i] \in Objects /\ q[i] # NullObject /\ Has(q, q[i])
  BY <1>2, <1>6, ListAssumption DEF Has, NullObject
<1>8. \A y : Has(q, y) <=> \E i \in 1 .. Len(s) : data[s[i]] = y
  BY <1>6 DEF Has
<1> QED BY <1>1, <1>2, <1>3, <1>5, <1>6, <1>7, <1>8 DEF s, q

LEMMA TableRows ==
  ASSUME LinksInv, DataInv
  PROVE  /\ DOMAIN Table = exists
         /\ \A y : y \in In(Table) <=> \E l \in exists : Has(Table[l], y)
         /\ \A y \in In(Table) : getHashValue(y) \in exists /\ Has(Table[getHashValue(y)], y)
         /\ In(Table) \subseteq Objects /\ IsFiniteSet(In(Table))
<1>1. DOMAIN Table = exists
  BY TheLists DEF Table, Rows
<1>2. \A y : (\E l \in exists : Has(Table[l], y)) => y \in Objects
  <2> SUFFICES ASSUME NEW y, NEW l \in exists, Has(Table[l], y)
               PROVE  y \in Objects
    OBVIOUS
  <2>1. PICK i \in 1 .. Len(Chain(l)) : data[Chain(l)[i]] = y
    BY RowOf
  <2> QED BY <2>1, RowOf
<1>3. \A y : y \in In(Table) <=> \E l \in exists : Has(Table[l], y)
  BY <1>1, <1>2 DEF In
<1>4. \A y \in In(Table) : getHashValue(y) \in exists /\ Has(Table[getHashValue(y)], y)
  <2> SUFFICES ASSUME NEW y \in In(Table)
               PROVE  getHashValue(y) \in exists /\ Has(Table[getHashValue(y)], y)
    OBVIOUS
  <2>1. PICK l \in exists : Has(Table[l], y)
    BY <1>3
  <2>2. getHashValue(y) = l
    BY <1>2, <2>1, RowOf
  <2> QED BY <2>1, <2>2
<1>5. In(Table) \subseteq Objects
  BY DEF In
<1>6. IsFiniteSet(In(Table))
  BY <1>5, ListAssumption, FS_Subset
<1> QED BY <1>1, <1>3, <1>4, <1>5, <1>6

LEMMA ToSetHas ==
  ASSUME NEW L, NEW s \in Seq(L)
  PROVE  \A x : x \in ToSet(s) <=> Has(s, x)
BY DEF ToSet, Has

LEMMA InTableIs ==
  ASSUME LinksInv, DataInv
  PROVE  InTable = In(Table)
<1>1. ASSUME NEW l \in exists
      PROVE  \A x : x \in ToSet(ObjectsOf(l)) <=> Has(Table[l], x)
  <2>1. ObjectsOf(l) = Table[l]
    BY RowOf DEF ObjectsOf, Mapped
  <2>2. Table[l] \in Seq(Objects)
    BY RowOf
  <2> QED BY <2>1, <2>2, ToSetHas
<1>2. \A x : x \in InTable <=> \E l \in exists : x \in ToSet(ObjectsOf(l))
  BY DEF InTable
<1>3. \A x : x \in InTable <=> \E l \in exists : Has(Table[l], x)
  BY <1>1, <1>2
<1> QED BY <1>3, TableRows

(* findMember finds an equal object if there is one in the table. *)
LEMMA Members ==
  ASSUME LinksInv, DataInv, NEW o \in Objects
  PROVE  hasMember(o) <=> \E p \in In(Table) : Same(o, p)
<1> DEFINE b == getHashValue(o)
           s == Chain(b)
<1>0. \A p \in In(Table) : Same(o, p) => getHashValue(p) = b
  BY HashIs, TableRows DEF DataInv, Same
<1>1. CASE b \notin exists
  <2>1. ~hasMember(o)
    BY <1>1 DEF hasMember, findMember
  <2>2. \A p \in In(Table) : ~Same(o, p)
    BY <1>0, <1>1, TableRows
  <2> QED BY <2>1, <2>2
<1>2. CASE b \in exists
  <2>1. findMember(o) = IF next[findPred(b, o)] = tail(b) THEN NullObject ELSE data[next[findPred(b, o)]]
    BY <1>2 DEF findMember, FirstEqual
  <2>2. ASSUME NEW k \in 1 .. Len(s), next[findPred(b, o)] = s[k], Same(data[s[k]], o)
        PROVE  hasMember(o) /\ \E p \in In(Table) : Same(o, p)
    <3>1. s[k] \in Elements /\ b \in Lists
      BY <1>2, TheChain
    <3>2. s[k] # tail(b)
      BY <3>1, TheNodes
    <3>3. data[s[k]] \in In(Table) /\ data[s[k]] # NullObject
      BY <1>2, RowOf
    <3> QED BY <2>1, <2>2, <3>2, <3>3 DEF hasMember, Same
  <2>3. ASSUME next[findPred(b, o)] = tail(b), \A j \in 1 .. Len(s) : ~Same(data[s[j]], o)
        PROVE  ~hasMember(o) /\ \A p \in In(Table) : ~Same(o, p)
    <3>1. ~hasMember(o)
      BY <2>1, <2>3 DEF hasMember
    <3>2. ASSUME NEW p \in In(Table), Same(o, p)
          PROVE  FALSE
      <4>1. Has(Table[b], p)
        BY <1>0, <3>2, TableRows
      <4>2. PICK j \in 1 .. Len(s) : data[s[j]] = p
        BY <1>2, <4>1, RowOf
      <4> QED BY <2>3, <3>2, <4>2 DEF Same
    <3> QED BY <3>1, <3>2
  <2> QED BY <1>2, <2>2, <2>3, FoundPred
<1> QED BY <1>1, <1>2

-----------------------------------------------------------------------------
(* The lists after an object was added, taken out, or all were destroyed. *)
LEMMA AddStep ==
  ASSUME LinksInv, DataInv, NEW o \in Objects, HasRoom, NEW l \in Lists, Add(l, o)
  PROVE  LET e == NewElement
         IN  /\ LinksInv' /\ e \in Elements
             /\ Chains' = With(Chains, l, Push(e, ListAt(Chains, l)))
             /\ Table' = Rows(With(Chains, l, Push(e, ListAt(Chains, l))), data')
             /\ Listed(Chains, e, data, data') /\ data'[e] = o
             /\ data' \in [Entries -> Objects \cup {NullObject}]
             /\ \A m \in Lists : data'[head(m)] = NullObject /\ data'[tail(m)] = NullObject
             /\ \A m \in exists : ~Has(Chain(m), e)
             /\ cut' = cut + 1 + (Len(FreeCells') - Len(FreeCells)) /\ Len(FreeCells') \in Nat
<1> DEFINE e == NewElement
           a == ListAt(Chains, l)
           p == Push(e, a)
           c == With(Chains, l, p)
<1>1. /\ e \in Elements /\ e = CellFor(freeList, cut)
      /\ e \in Entries /\ \A m \in Lists : e # head(m) /\ e # tail(m)
      /\ head(l) \in Entries /\ tail(l) \in Entries /\ head(l) # tail(l)
  BY TheEntries, TheNodes DEF HasRoom, NewElement, CellFor, Null
<1>2. /\ Linked(Chains, FreeCells, next, freeList, cut, heads, tails, MaxElements)
      /\ next \in [Entries -> Entries \cup {Null}] /\ exists \subseteq Lists
      /\ DOMAIN Chains = exists /\ DOMAIN Chains \subseteq Lists
      /\ cut \in Nat /\ size = Sizes(Chains)
      /\ FreeCells \in Seq(1 .. cut) /\ Len(FreeCells) \in Nat
      /\ (freeList = 0 <=> Len(FreeCells) = 0)
  <2>1. Len(FreeCells) # 0 => FreeCells[1] \in 1 .. cut /\ FreeCells[1] # 0
    <3>1. FreeCells \in Seq(1 .. cut) /\ Len(FreeCells) \in Nat /\ cut \in Nat
      BY TheLists
    <3> QED BY <3>1
  <2> QED BY <2>1, TheLists DEF LinksInv, Null
<1>3. \A m \in exists : /\ Chains[m] = Chain(m) /\ Chains[m] \in Seq(Elements) /\ Distinct(Chains[m])
                        /\ next[head(m)] \in Entries \cup {Null}
  BY <1>2, TheChain, TheEntries
<1>4. /\ exists' = exists \cup {l}
      /\ freeList' = FreeThen(next, freeList) /\ cut' = CutThen(freeList, cut)
      /\ next' = [next EXCEPT ![e] = IF l \in exists THEN next[head(l)] ELSE tail(l),
                              ![head(l)] = e, ![tail(l)] = tail(l)]
      /\ data' = [data EXCEPT ![e] = o]
      /\ size' = [size EXCEPT ![l] = @ + 1]
  BY DEF Add, FreeThen, CutThen, Null
<1> HIDE DEF e
<1>5. /\ next' \in [Entries -> Entries \cup {Null}]
      /\ next'[e] = (IF l \in exists THEN next[head(l)] ELSE tail(l))
      /\ next'[head(l)] = e /\ next'[tail(l)] = tail(l)
      /\ \A x \in Entries : x \notin {e, head(l), tail(l)} => next'[x] = next[x]
  BY <1>1, <1>2, <1>3, <1>4
<1>6. /\ MaxElements \in Nat /\ Sentinels(heads, tails, Lists, MaxElements)
      /\ heads[l] = head(l) /\ tails[l] = tail(l)
      /\ Nodes(heads, tails, Lists, MaxElements) = Entries /\ e \in 1 .. MaxElements
  BY <1>1, TheEntries, TheNodes
<1>7. Linked(c, RestFree(FreeCells), next', freeList', cut', heads, tails, MaxElements)
  <2>1. /\ next'[e] = (IF l \in DOMAIN Chains THEN next[heads[l]] ELSE tails[l])
        /\ next'[heads[l]] = e /\ next'[tails[l]] = tails[l]
        /\ \A x \in Nodes(heads, tails, Lists, MaxElements) :
             x \notin {e, heads[l], tails[l]} => next'[x] = next[x]
    BY <1>2, <1>5, <1>6
  <2>2. Linked(With(Chains, l, <<e>> \o ListAt(Chains, l)), RestFree(FreeCells), next',
               FreeThen(next, freeList), CutThen(freeList, cut), heads, tails, MaxElements)
    BY <1>1, <1>2, <1>6, <2>1, AddedFront
  <2> QED BY <1>4, <2>2 DEF Push
<1>8. /\ \A m \in exists : ~Has(Chain(m), e)
  <2>1. \A m \in DOMAIN Chains : ~Has(Chains[m], e)
    BY <1>1, <1>2, <1>6, NewCell
  <2> QED BY <1>2, <1>3, <2>1
<1>9. /\ data' \in [Entries -> Objects \cup {NullObject}] /\ data'[e] = o
      /\ \A x \in Entries : x # e => data'[x] = data[x]
  BY <1>1, <1>4 DEF DataInv
<1>10. \A m \in Lists : data'[head(m)] = NullObject /\ data'[tail(m)] = NullObject
  BY <1>1, <1>9, TheEntries DEF DataInv
<1>11. Listed(Chains, e, data, data')
  <2> SUFFICES ASSUME NEW m \in DOMAIN Chains
               PROVE  SameOn(Chains[m], data, data')
    BY <1>2, <1>3 DEF Listed
  <2>1. \A i \in 1 .. Len(Chain(m)) : Chain(m)[i] \in Entries /\ Chain(m)[i] # e
    <3>1. m \in exists
      BY <1>2
    <3>2. /\ \A i \in 1 .. Len(Chain(m)) : Chain(m)[i] \in Elements /\ Has(Chain(m), Chain(m)[i])
          /\ ~Has(Chain(m), e)
      BY <1>8, <3>1, TheChain
    <3> QED BY <3>2, TheEntries
  <2>2. Chains[m] = Chain(m)
    BY <1>2, <1>3
  <2> QED BY <1>9, <2>1, <2>2 DEF SameOn
<1>12. a \in Seq(Elements) /\ Len(a) \in Nat /\ Len(a) = size[l]
  <2>1. a \in Seq(Elements)
    BY <1>2, <1>3, AtIs
  <2>2. Len(<< >>) = 0
    OBVIOUS
  <2>3. size[l] = IF l \in DOMAIN Chains THEN Len(Chains[l]) ELSE 0
    BY <1>2 DEF Sizes
  <2>4. Len(a) = size[l]
    BY <2>2, <2>3 DEF ListAt
  <2> HIDE DEF a
  <2> QED BY <2>1, <2>4
<1> HIDE DEF a
<1>13. Len(p) = Len(a) + 1
  BY <1>1, <1>12 DEF Push
<1> HIDE DEF p
<1>14. /\ DOMAIN c = exists \cup {l} /\ c = [m \in DOMAIN c |-> c[m]] /\ c[l] = p
       /\ \A m \in exists : m # l => c[m] = Chains[m]
  BY <1>2 DEF With
<1> HIDE DEF c
<1>15. size' = Sizes(c)
  <2>1. size = [m \in Lists |-> IF m \in exists THEN Len(Chains[m]) ELSE 0]
    BY <1>2 DEF Sizes
  <2>2. \A m \in Lists : size'[m] = IF m = l THEN size[l] + 1 ELSE size[m]
    BY <1>4, <2>1
  <2>3. \A m \in Lists : size'[m] = IF m \in DOMAIN c THEN Len(c[m]) ELSE 0
    BY <1>12, <1>13, <1>14, <2>1, <2>2
  <2>4. size' = [m \in Lists |-> size'[m]]
    BY <1>4, <2>1
  <2> QED BY <2>3, <2>4 DEF Sizes
<1>16. /\ LinksInv' /\ Chains' = c /\ FreeCells' = RestFree(FreeCells) /\ Table' = Rows(c, data')
  <2>1. exists' = DOMAIN c /\ DOMAIN c \subseteq Lists
    BY <1>2, <1>4, <1>14
  <2> QED BY <1>5, <1>7, <1>14, <1>15, <2>1, ListsAfter
<1>17. /\ cut' = cut + 1 + (Len(FreeCells') - Len(FreeCells)) /\ Len(FreeCells') \in Nat
  <2>1. CASE freeList = 0
    BY <1>2, <1>4, <1>16, <2>1 DEF CutThen, RestFree
  <2>2. CASE freeList # 0
    <3>1. Len(FreeCells) # 0 /\ cut' = cut /\ FreeCells' = Without(FreeCells, 1) /\ 1 \in 1 .. Len(FreeCells)
      BY <1>2, <1>4, <1>16, <2>2 DEF CutThen, RestFree
    <3>2. Len(FreeCells') = Len(FreeCells) - 1
      BY <1>2, <3>1, WithoutSeq
    <3> QED BY <1>2, <3>1, <3>2
  <2> QED BY <2>1, <2>2
<1> QED BY <1>1, <1>8, <1>9, <1>10, <1>11, <1>16, <1>17 DEF c, p, a, e

(* The k-th element of list l goes back to the pool. *)
Before(l, k) == IF k = 1 THEN head(l) ELSE Chain(l)[k - 1]
Gone(l, k) ==
  LET e == Chain(l)[k]
  IN  /\ next' = [next EXCEPT ![Before(l, k)] = next[e], ![e] = freeList]
      /\ freeList' = e
      /\ size' = [size EXCEPT ![l] = @ - 1]
      /\ UNCHANGED <<key, exists, data, cut>>

LEMMA TakeStep ==
  ASSUME LinksInv, NEW l \in exists, NEW k \in 1 .. Len(Chain(l)), Gone(l, k)
  PROVE  /\ LinksInv' /\ Chains' = With(Chains, l, Without(Chains[l], k))
         /\ Table' = Rows(With(Chains, l, Without(Chains[l], k)), data)
         /\ Len(FreeCells') = Len(FreeCells) + 1 /\ size'[l] # size[l]
<1> DEFINE s == Chain(l)
           e == s[k]
           p == Before(l, k)
           c == With(Chains, l, Without(Chains[l], k))
<1>1. /\ Linked(Chains, FreeCells, next, freeList, cut, heads, tails, MaxElements)
      /\ next \in [Entries -> Entries \cup {Null}] /\ exists \subseteq Lists
      /\ DOMAIN Chains = exists /\ DOMAIN Chains \subseteq Lists /\ l \in DOMAIN Chains
      /\ Chains[l] = s /\ size = Sizes(Chains)
      /\ FreeCells \in Seq(1 .. cut) /\ Len(FreeCells) \in Nat
      /\ freeList \in Entries \cup {Null} /\ 1 .. cut \subseteq Elements
  BY TheLists, TheChain DEF LinksInv
<1>2. /\ s \in Seq(1 .. cut) /\ Len(s) \in Nat /\ k \in 1 .. Len(s)
      /\ Distinct(s) /\ \A i \in 1 .. Len(s) : s[i] \in Elements
      /\ head(l) \in Entries /\ head(l) \notin Elements /\ l \in Lists
  BY TheChain, TheNodes, TheEntries
<1>3. size[l] = Len(s) /\ l \in Lists
  BY <1>1 DEF Sizes
<1> HIDE DEF s
<1>4. e \in 1 .. cut /\ e \in Elements /\ e \in Entries
  <2>1. s[k] \in 1 .. cut
    <3>1. s \in Seq(1 .. cut) /\ k \in 1 .. Len(s) /\ cut \in Nat
      BY <1>2, TheLists
    <3> QED BY <3>1
  <2> QED BY <1>1, <2>1, TheEntries
<1>5. p \in Entries /\ p # e
  <2>1. CASE k = 1
    BY <1>2, <1>4, <2>1 DEF Before
  <2>2. CASE k # 1
    <3>1. k - 1 \in 1 .. Len(s) /\ k - 1 # k
      BY <1>2, <2>2
    <3>2. p = s[k - 1] /\ s[k - 1] \in Elements /\ s[k - 1] # s[k]
      BY <1>2, <2>2, <3>1 DEF s, Distinct, Before
    <3> QED BY <3>2, TheEntries
  <2> QED BY <2>1, <2>2
<1>6. /\ next' = [next EXCEPT ![p] = next[e], ![e] = freeList] /\ freeList' = e
      /\ size' = [size EXCEPT ![l] = @ - 1]
      /\ exists' = exists /\ data' = data /\ cut' = cut
  BY DEF Gone, s
<1>14. p = IF k = 1 THEN head(l) ELSE s[k - 1]
  BY DEF Before, s
<1> HIDE DEF e, p
<1>7. /\ next' \in [Entries -> Entries \cup {Null}]
      /\ next'[p] = next[e] /\ next'[e] = freeList
      /\ \A x \in Entries : x \notin {e, p} => next'[x] = next[x]
  BY <1>1, <1>4, <1>5, <1>6
<1>8. Linked(c, <<e>> \o FreeCells, next', freeList', cut', heads, tails, MaxElements)
  <2>1. /\ MaxElements \in Nat /\ Sentinels(heads, tails, Lists, MaxElements)
        /\ heads[l] = head(l) /\ Nodes(heads, tails, Lists, MaxElements) = Entries
    BY <1>2, TheEntries, TheNodes
  <2>2. /\ k \in 1 .. Len(Chains[l]) /\ Chains[l][k] = e
        /\ p = IF k = 1 THEN heads[l] ELSE Chains[l][k - 1]
    BY <1>1, <1>2, <1>14, <2>1 DEF e
  <2>3. /\ next'[p] = next[Chains[l][k]] /\ next'[Chains[l][k]] = freeList
        /\ \A x \in Nodes(heads, tails, Lists, MaxElements) :
             x \notin {Chains[l][k], p} => next'[x] = next[x]
    BY <1>7, <2>1, <2>2
  <2>4. Linked(c, <<Chains[l][k]>> \o FreeCells, next', Chains[l][k], cut, heads, tails, MaxElements)
    <3>1. /\ Linked(Chains, FreeCells, next, freeList, cut, heads, tails, MaxElements)
          /\ DOMAIN Chains \subseteq Lists /\ l \in DOMAIN Chains
      BY <1>1
    <3> HIDE DEF c
    <3>2. Linked(With(Chains, l, Without(Chains[l], k)), <<Chains[l][k]>> \o FreeCells, next',
                 Chains[l][k], cut, heads, tails, MaxElements)
      BY <2>1, <2>2, <2>3, <3>1, Removed
    <3> QED BY <3>2 DEF c
  <2> QED BY <1>6, <2>2, <2>4
<1>9. Len(Without(Chains[l], k)) = Len(s) - 1
  BY <1>1, <1>2, WithoutSeq
<1>10. /\ DOMAIN c = exists /\ c = [m \in DOMAIN c |-> c[m]] /\ c[l] = Without(Chains[l], k)
       /\ \A m \in exists : m # l => c[m] = Chains[m]
  BY <1>1 DEF With
<1> HIDE DEF c
<1>11. size' = Sizes(c) /\ size'[l] # size[l]
  <2>1. size = [m \in Lists |-> IF m \in exists THEN Len(Chains[m]) ELSE 0]
    BY <1>1 DEF Sizes
  <2>2. \A m \in Lists : size'[m] = IF m = l THEN size[l] - 1 ELSE size[m]
    BY <1>6, <2>1
  <2>3. \A m \in Lists : size'[m] = IF m \in DOMAIN c THEN Len(c[m]) ELSE 0
    BY <1>3, <1>9, <1>10, <2>1, <2>2
  <2>4. size' = [m \in Lists |-> size'[m]]
    BY <1>6, <2>1
  <2>5. size'[l] # size[l]
    BY <1>2, <1>3, <2>2
  <2> QED BY <2>3, <2>4, <2>5 DEF Sizes
<1>12. /\ LinksInv' /\ Chains' = c /\ FreeCells' = <<e>> \o FreeCells /\ Table' = Rows(c, data')
  <2>1. exists' = DOMAIN c /\ DOMAIN c \subseteq Lists
    BY <1>1, <1>6, <1>10
  <2> QED BY <1>7, <1>8, <1>10, <1>11, <2>1, ListsAfter
<1>13. Len(FreeCells') = Len(FreeCells) + 1
  BY <1>1, <1>4, <1>12
<1> QED BY <1>6, <1>11, <1>12, <1>13 DEF c

(* No lists at all. *)
NoChains == [l \in {} |-> << >>]

LEMMA EmptyPool ==
  ASSUME NEW nxt, nxt = [e \in Entries |-> Null]
  PROVE  /\ Linked(NoChains, << >>, nxt, Null, 0, heads, tails, MaxElements)
         /\ nxt \in [Entries -> Entries \cup {Null}]
         /\ Sizes(NoChains) = [l \in Lists |-> 0]
         /\ \A d : In(Rows(NoChains, d)) = {} /\ \A h : Filed(Rows(NoChains, d), h)
<1>1. DOMAIN NoChains = {} /\ \A d : DOMAIN Rows(NoChains, d) = {}
  BY DEF NoChains, Rows
<1>2. nxt \in [Entries -> Entries \cup {Null}] /\ \A x \in 1 .. MaxElements : nxt[x] = 0
  BY TheEntries DEF Null
<1>3. IsChain(<< >>, nxt, Null, 1 .. 0, 0)
  BY DEF IsChain, Null
<1>4. 0 \in 0 .. MaxElements /\ 1 .. 0 = {}
  BY TheEntries
<1>5. Linked(NoChains, << >>, nxt, Null, 0, heads, tails, MaxElements)
  BY <1>1, <1>2, <1>3, <1>4 DEF Linked
<1>6. Sizes(NoChains) = [l \in Lists |-> 0]
  BY <1>1 DEF Sizes
<1>7. \A d : In(Rows(NoChains, d)) = {} /\ \A h : Filed(Rows(NoChains, d), h)
  BY <1>1 DEF In, Filed
<1> QED BY <1>2, <1>5, <1>6, <1>7

-----------------------------------------------------------------------------
(* Nothing in the table is changed. *)
LEMMA SameTable ==
  ASSUME LinksInv, DataInv, UNCHANGED <<listVars, client>>
  PROVE  /\ LinksInv' /\ Chains' = Chains /\ Table' = Table /\ data' = data
         /\ exists' = exists /\ InTable' = InTable /\ Hash' = Hash
         /\ \A l \in exists : Chain(l)' = Chain(l)
         /\ FreeCells' = FreeCells
<1>1. /\ key' = key /\ exists' = exists /\ next' = next /\ data' = data /\ client' = client
      /\ freeList' = freeList /\ cut' = cut /\ size' = size
  BY DEF listVars
<1>2. FreeCells' = FreeCells /\ \A l : Chain(l)' = Chain(l)
  BY <1>1 DEF FreeCells, Chain, ElementsFrom
<1>3. Chains' = Chains
  BY <1>1, <1>2 DEF Chains
<1>4. LinksInv'
  BY <1>1, <1>2, <1>3 DEF LinksInv
<1>5. Table' = Table
  BY <1>1, <1>3 DEF Table
<1>6. InTable' = InTable
  BY <1>1, <1>2 DEF InTable, ObjectsOf
<1>7. Hash' = Hash
  BY <1>1 DEF Hash, getHashValue
<1> QED BY <1>1, <1>2, <1>3, <1>4, <1>5, <1>6, <1>7

LEMMA SameData ==
  ASSUME LinksInv, DataInv, UNCHANGED <<listVars, client, itemsInContainer, alive, held>>
  PROVE  DataInv'
<1>1. /\ data' = data /\ Table' = Table /\ Hash' = Hash /\ FreeCells' = FreeCells
  BY SameTable
<1>2. key' = key /\ cut' = cut
  BY DEF listVars
<1> QED BY <1>1, <1>2 DEF DataInv, Same

(* The data part of the invariant, from the table after a step. *)
LEMMA DataAfter ==
  ASSUME client \in Clients, key = client.key, UNCHANGED <<client, key>>,
         data' \in [Entries -> Objects \cup {NullObject}],
         \A l \in Lists : data'[head(l)] = NullObject /\ data'[tail(l)] = NullObject,
         NEW q, Table' = q, Filed(q, Hash),
         held' \subseteq Objects, held' \cap In(q) = {}, alive' = held' \cup In(q),
         itemsInContainer' = Cardinality(In(q)),
         cut' = itemsInContainer' + Len(FreeCells'),
         client.kind = "Set" => \A o, p \in In(q) : Same(o, p) => o = p
  PROVE  DataInv'
<1>1. Hash' = Hash /\ key' = client'.key /\ client' \in Clients
  BY DEF Hash, getHashValue
<1>2. client'.kind = "Set" => \A o, p \in In(q) : Same(o, p)' => o = p
  BY DEF Same
<1> QED BY <1>1, <1>2 DEF DataInv

-----------------------------------------------------------------------------
LEMMA InitIInv == Init => IInv
<1> SUFFICES ASSUME Init
             PROVE  IInv
  OBVIOUS
<1>1. /\ exists = {} /\ next = [e \in Entries |-> Null] /\ data = [e \in Entries |-> NullObject]
      /\ freeList = Null /\ cut = 0 /\ size = [l \in Lists |-> 0]
  BY DEF Init, NoLists
<1>2. /\ Linked(NoChains, << >>, next, freeList, cut, heads, tails, MaxElements)
      /\ next \in [Entries -> Entries \cup {Null}] /\ size = Sizes(NoChains)
      /\ DOMAIN NoChains \subseteq Lists
  BY <1>1, EmptyPool DEF NoChains
<1>3. FreeCells = << >>
  <2>1. /\ Linked(NoChains, << >>, next, freeList, cut, heads, tails, MaxElements)
        /\ next \in [Entries -> Entries \cup {Null}] /\ DOMAIN NoChains \subseteq Lists
    BY <1>2
  <2>2. Collector(next, Elements, Entries \cup {Null})[freeList] = << >>
    <3> DEFINE c == NoChains
               f == << >>
    <3> HIDE DEF c, f
    <3>1. Linked(c, f, next, freeList, cut, heads, tails, MaxElements) /\ DOMAIN c \subseteq Lists
      BY <2>1 DEF c, f
    <3>2. /\ Collector(next, Elements, Entries \cup {Null})[freeList] = f
          /\ \A l \in DOMAIN c : Collector(next, Elements, Entries \cup {Null})[next[head(l)]] = c[l]
      BY <2>1, <3>1, Collected
    <3> QED BY <3>2 DEF f
  <2> QED BY <2>2 DEF FreeCells, ElementsFrom, Collector, Collects
<1>4. Chains = NoChains
  BY <1>1 DEF Chains, NoChains
<1>5. LinksInv
  BY <1>1, <1>2, <1>3, <1>4 DEF LinksInv
<1>6. Filed(Table, Hash) /\ In(Table) = {}
  BY <1>1, <1>4, EmptyPool DEF Table
<1>7. /\ data \in [Entries -> Objects \cup {NullObject}]
      /\ \A l \in Lists : data[head(l)] = NullObject /\ data[tail(l)] = NullObject
  BY <1>1, TheEntries
<1>8. Cardinality({}) = 0 /\ Len(<< >>) = 0
  BY FS_EmptySet
<1>9. DataInv
  BY <1>1, <1>3, <1>6, <1>7, <1>8 DEF DataInv, Init
<1>10. WalkInv
  BY TheEntries DEF WalkInv, Init
<1> QED BY <1>5, <1>9, <1>10 DEF IInv

(* An object is added at the front of the list of its hash value. *)
LEMMA StepAdd ==
  ASSUME IInv, NEW o \in Objects, o \in held, HasRoom, Turn, AddToTable(o),
         client.kind = "Set" => ~hasMember(o), UNCHANGED <<client, owns, alive, walkVars>>
  PROVE  IInv'
<1> USE DEF IInv
<1> DEFINE l == getHashValue(o)
           e == NewElement
           c == With(Chains, l, Push(e, ListAt(Chains, l)))
           q == With(Table, l, Push(o, ListAt(Table, l)))
<1>1. l \in Lists /\ Hash[o] = l /\ client \in Clients /\ key = client.key
  BY HashIs DEF DataInv
<1>2. /\ LinksInv' /\ e \in Elements /\ Chains' = c /\ Table' = Rows(c, data')
      /\ Listed(Chains, e, data, data') /\ data'[e] = o
      /\ data' \in [Entries -> Objects \cup {NullObject}]
      /\ \A m \in Lists : data'[head(m)] = NullObject /\ data'[tail(m)] = NullObject
      /\ \A m \in exists : ~Has(Chain(m), e)
      /\ cut' = cut + 1 + (Len(FreeCells') - Len(FreeCells)) /\ Len(FreeCells') \in Nat
  BY <1>1, AddStep DEF AddToTable
<1>3. o \notin In(Table) /\ Filed(Table, Hash)
  BY DEF DataInv
<1>4. /\ exists' = exists \cup {l} /\ key' = key /\ client' = client
      /\ itemsInContainer' = itemsInContainer + 1 /\ held' = held \ {o} /\ alive' = alive
      /\ pc' = pc /\ slot' = slot /\ at' = at /\ due' = due /\ done' = done
  BY DEF AddToTable, Add, walkVars
<1>5. DOMAIN Chains = exists /\ \A m \in exists : Chains[m] = Chain(m)
  BY TheLists, TheChain
<1> HIDE DEF l, e
<1>6. Rows(c, data') = q
  <2> DEFINE d2 == data'
  <2>1. Listed(Chains, e, data, d2) /\ d2[e] = o /\ e \in Elements /\ Filed(Rows(Chains, data), Hash)
    BY <1>2, <1>3 DEF Table
  <2> HIDE DEF d2
  <2>2. Rows(c, d2) = With(Rows(Chains, data), l, Push(o, ListAt(Rows(Chains, data), l)))
    BY <2>1, RowsPush
  <2> QED BY <2>2 DEF Table, d2
<1>7. Filed(q, Hash) /\ In(q) = In(Table) \cup {o}
  BY <1>1, <1>3, FiledPush
<1> HIDE DEF q, c
<1>8. DataInv'
  <2>1. IsFiniteSet(In(Table)) /\ In(Table) \subseteq Objects
    BY TableRows
  <2>2. Cardinality(In(q)) = Cardinality(In(Table)) + 1 /\ Cardinality(In(Table)) \in Nat
    BY <1>3, <1>7, <2>1, FS_AddElement, FS_CardinalityType
  <2>3. /\ held \subseteq Objects /\ held \cap In(Table) = {} /\ alive = held \cup In(Table)
        /\ itemsInContainer = Cardinality(In(Table))
        /\ cut = itemsInContainer + Len(FreeCells)
        /\ client.kind = "Set" => \A x, y \in In(Table) : Same(x, y) => x = y
    BY DEF DataInv
  <2>4. /\ held' \subseteq Objects /\ held' \cap In(q) = {} /\ alive' = held' \cup In(q)
    BY <1>4, <1>7, <2>3
  <2>5. /\ itemsInContainer' = Cardinality(In(q))
        /\ cut' = itemsInContainer' + Len(FreeCells')
    <3>1. Len(FreeCells) \in Nat /\ Len(FreeCells') \in Nat
      BY <1>2, TheLists
    <3> QED BY <1>2, <1>4, <2>2, <2>3, <3>1
  <2>6. client.kind = "Set" => \A x, y \in In(q) : Same(x, y) => x = y
    <3> SUFFICES ASSUME client.kind = "Set", NEW x \in In(q), NEW y \in In(q), Same(x, y)
                 PROVE  x = y
      OBVIOUS
    <3>1. \A p \in In(Table) : ~Same(o, p)
      BY Members
    <3> QED BY <1>7, <2>3, <3>1 DEF Same
  <2>7. Table' = q
    BY <1>2, <1>6
  <2> QED BY <1>1, <1>2, <1>4, <1>7, <2>4, <2>5, <2>6, <2>7, DataAfter
<1>9. WalkInv'
  <2>1. /\ pc \in {"none", "ready", "scan"} /\ slot \in 0 .. Buckets
        /\ due \subseteq In(Table) /\ done \subseteq In(Table)
        /\ pc = "none" => due = {} /\ done = {}
    BY DEF WalkInv
  <2>2. In(Table)' = In(Table) \cup {o}
    BY <1>2, <1>6, <1>7
  <2> SUFFICES ASSUME pc # "none"
               PROVE  /\ more => slot \in exists' /\ Has(Chains'[slot], at)
                      /\ \A y \in due : Ahead(Chains', data', slot, at, y)
                      /\ \A y \in done : ~Ahead(Chains', data', slot, at, y)
    BY <1>4, <2>1, <2>2 DEF WalkInv, more
  <2>3. /\ more => slot \in exists /\ Has(Chains[slot], at)
        /\ \A y \in due : Ahead(Chains, data, slot, at, y)
        /\ \A y \in done : ~Ahead(Chains, data, slot, at, y)
    BY DEF WalkInv, Turn
  <2>4. more => slot \in exists' /\ Has(Chains'[slot], at)
    <3> SUFFICES ASSUME slot \in exists, Has(Chains[slot], at)
                 PROVE  slot \in exists' /\ Has(Chains'[slot], at)
      BY <2>3
    <3>1. slot \in exists' /\ Chains'[slot] = c[slot]
      BY <1>2, <1>4
    <3>2. CASE slot = l
      <4>1. c[slot] = Push(e, Chains[slot])
        BY <1>5, <3>2 DEF c, With, ListAt
      <4>2. Chains[slot] \in Seq(Elements)
        BY TheChain
      <4>3. Has(Push(e, Chains[slot]), at)
        BY <1>2, <4>2, HasPush DEF Push
      <4> QED BY <3>1, <4>1, <4>3
    <3>3. CASE slot # l
      <4>1. c[slot] = Chains[slot]
        BY <1>5, <3>3 DEF c, With
      <4> QED BY <3>1, <4>1
    <3> QED BY <3>2, <3>3
  <2>5. slot \in DOMAIN Chains \cup {l} => at # e
    <3>1. slot \in DOMAIN Chains \cup {l} => more
      BY <1>1, <1>5, TheLists, TheEntries DEF more
    <3>2. more => Chains[slot] = Chain(slot) /\ ~Has(Chain(slot), e)
      BY <1>2, <1>5, <2>3
    <3> QED BY <2>3, <3>1, <3>2
  <2>6. \A y : /\ Ahead(Chains, data, slot, at, y) => Ahead(c, data', slot, at, y)
               /\ Ahead(c, data', slot, at, y) => Ahead(Chains, data, slot, at, y) \/ y = o
    <3> SUFFICES ASSUME NEW y
                 PROVE  /\ Ahead(Chains, data, slot, at, y) => Ahead(c, data', slot, at, y)
                        /\ Ahead(c, data', slot, at, y) => Ahead(Chains, data, slot, at, y) \/ y = o
      OBVIOUS
    <3> DEFINE d2 == data'
    <3>1. Listed(Chains, e, data, d2) /\ d2[e] = o /\ e \in Elements /\ Filed(Rows(Chains, data), Hash)
      BY <1>2, <1>3 DEF Table
    <3> HIDE DEF d2
    <3>2. /\ Ahead(Chains, data, slot, at, y) => Ahead(c, d2, slot, at, y)
          /\ Ahead(c, d2, slot, at, y) => Ahead(Chains, data, slot, at, y) \/ y = o
      <4> DEFINE ch == Chains
                 r == With(ch, l, Push(e, ListAt(ch, l)))
      <4>1. o \in Objects /\ (slot \in DOMAIN ch \cup {l} => at # e)
        BY <2>5
      <4>2. Listed(ch, e, data, d2) /\ d2[e] = o /\ e \in Elements /\ Filed(Rows(ch, data), Hash)
        BY <3>1
      <4> HIDE DEF ch, l, e
      <4>3. /\ Ahead(ch, data, slot, at, y) => Ahead(r, d2, slot, at, y)
            /\ Ahead(r, d2, slot, at, y) => Ahead(ch, data, slot, at, y) \/ y = o
        BY ONLY <4>1, <4>2, AheadPush
      <4> QED BY <4>3 DEF c, ch
    <3> QED BY <3>2 DEF d2
  <2>7. o \notin done
    BY <1>3, <2>1
  <2> QED BY <1>2, <2>3, <2>4, <2>6, <2>7
<1> QED BY <1>2, <1>8, <1>9

LEMMA StepBagAdd ==
  ASSUME IInv, NEW o \in Objects, BagAdd(o)
  PROVE  IInv'
<1>1. CASE client.kind = "Set" /\ hasMember(o)
  <2>1. UNCHANGED <<listVars, itemsInContainer, held, client, owns, alive, walkVars>>
    BY <1>1 DEF BagAdd
  <2>2. LinksInv' /\ DataInv'
    BY <2>1, SameTable, SameData DEF IInv
  <2>3. Chains' = Chains /\ Table' = Table /\ exists' = exists /\ data' = data
    BY <2>1, SameTable DEF IInv
  <2>4. WalkInv'
    BY <2>1, <2>3 DEF IInv, WalkInv, walkVars, more
  <2> QED BY <2>2, <2>4 DEF IInv
<1>2. CASE ~(client.kind = "Set" /\ hasMember(o))
  BY <1>2, StepAdd DEF BagAdd
<1> QED BY <1>1, <1>2

(* Owning or not changes neither table nor walk. *)
LEMMA SameWalk ==
  ASSUME IInv, UNCHANGED <<listVars, client, itemsInContainer, alive, held, pc, slot, at, due, done>>
  PROVE  IInv'
<1>1. LinksInv' /\ DataInv'
  BY SameTable, SameData DEF IInv
<1>2. Chains' = Chains /\ Table' = Table /\ exists' = exists /\ data' = data
  BY SameTable DEF IInv
<1>3. WalkInv'
  BY <1>2 DEF IInv, WalkInv, more
<1> QED BY <1>1, <1>3 DEF IInv

(* An element is taken out that the iterator is not at. *)
LEMMA StepTake ==
  ASSUME IInv, NEW l \in exists, NEW k \in 1 .. Len(Chain(l)), Gone(l, k), Turn,
         Chain(l)[k] # Current, NEW del, NEW o, o = data[Chain(l)[k]],
         itemsInContainer' = itemsInContainer - 1,
         alive' = IF del THEN alive \ {o} ELSE alive,
         held' = (IF del THEN held ELSE held \cup {o}) \ {NullObject},
         due' = due \ {o}, done' = done \ {o}, UNCHANGED <<client, pc, slot, at>>
  PROVE  IInv'
<1> USE DEF IInv
<1> DEFINE e == Chain(l)[k]
           c == With(Chains, l, Without(Chains[l], k))
           q == With(Table, l, Without(Table[l], k))
<1>1. /\ LinksInv' /\ Chains' = c /\ Table' = Rows(c, data)
      /\ Len(FreeCells') = Len(FreeCells) + 1 /\ Len(FreeCells) \in Nat
  BY TakeStep, TheLists
<1>2. /\ data' = data /\ exists' = exists /\ cut' = cut /\ key' = key
  BY DEF Gone
<1>3. /\ l \in Lists /\ Chains[l] = Chain(l) /\ Chains[l] \in Seq(Elements)
      /\ k \in 1 .. Len(Chains[l]) /\ e \in Elements
      /\ DOMAIN Chains = exists /\ DOMAIN Table = exists
      /\ \A m \in DOMAIN Chains : Chains[m] \in Seq(Elements) /\ Distinct(Chains[m])
  BY TheLists, TheChain, TableRows
<1>4. /\ k \in 1 .. Len(Table[l]) /\ Table[l][k] = o
      /\ o \in Objects /\ o # NullObject /\ o \in In(Table)
  BY RowOf
<1>5. Filed(Table, Hash) /\ client \in Clients /\ key = client.key
  BY DEF DataInv
<1>6. o = data[e]
  OBVIOUS
<1> HIDE DEF e
<1>7. Rows(c, data) = q
  BY <1>3, RowsWithout DEF Table
<1>8. Filed(q, Hash) /\ In(q) = In(Table) \ {o}
  BY <1>3, <1>4, <1>5, FiledWithout
<1> HIDE DEF q
<1>9. DataInv'
  <2>1. IsFiniteSet(In(Table)) /\ In(Table) \subseteq Objects
    BY TableRows
  <2>2. Cardinality(In(q)) = Cardinality(In(Table)) - 1 /\ Cardinality(In(Table)) \in Nat
    BY <1>4, <1>8, <2>1, FS_RemoveElement, FS_CardinalityType
  <2>3. /\ held \subseteq Objects /\ held \cap In(Table) = {} /\ alive = held \cup In(Table)
        /\ itemsInContainer = Cardinality(In(Table))
        /\ cut = itemsInContainer + Len(FreeCells)
        /\ client.kind = "Set" => \A x, y \in In(Table) : Same(x, y) => x = y
        /\ data \in [Entries -> Objects \cup {NullObject}]
        /\ \A m \in Lists : data[head(m)] = NullObject /\ data[tail(m)] = NullObject
        /\ NullObject \notin Objects
    BY ListAssumption DEF DataInv, NullObject
  <2>4. /\ held' \subseteq Objects /\ held' \cap In(q) = {} /\ alive' = held' \cup In(q)
    <3>1. held' = IF del THEN held ELSE held \cup {o}
      BY <1>4, <2>3
    <3>2. CASE del
      BY <1>4, <1>8, <2>3, <3>1, <3>2
    <3>3. CASE ~del
      BY <1>4, <1>8, <2>3, <3>1, <3>3
    <3> QED BY <3>2, <3>3
  <2>5. /\ itemsInContainer' = Cardinality(In(q))
        /\ cut' = itemsInContainer' + Len(FreeCells')
    <3> DEFINE N == Cardinality(In(Table))
               F == Len(FreeCells)
    <3>1. N \in Nat /\ F \in Nat /\ cut = N + F /\ cut' = cut /\ itemsInContainer' = N - 1
          /\ Len(FreeCells') = F + 1 /\ Cardinality(In(q)) = N - 1
      BY <1>1, <1>2, <2>2, <2>3
    <3> HIDE DEF N, F
    <3> QED BY <3>1
  <2>6. client.kind = "Set" => \A x, y \in In(q) : Same(x, y) => x = y
    BY <1>8, <2>3
  <2>7. Table' = q
    BY <1>1, <1>7
  <2>8. /\ data' \in [Entries -> Objects \cup {NullObject}]
        /\ \A m \in Lists : data'[head(m)] = NullObject /\ data'[tail(m)] = NullObject
    BY <1>2, <2>3
  <2> QED BY <1>2, <1>5, <1>8, <2>4, <2>5, <2>6, <2>7, <2>8, DataAfter
<1>10. WalkInv'
  <2>1. /\ pc \in {"none", "ready", "scan"} /\ slot \in 0 .. Buckets
        /\ due \subseteq In(Table) /\ done \subseteq In(Table)
        /\ pc = "none" => due = {} /\ done = {}
        /\ pc # "scan"
    BY DEF WalkInv, Turn
  <2>2. In(Table)' = In(Table) \ {o}
    BY <1>1, <1>7, <1>8
  <2>3. due' \subseteq In(Table)' /\ done' \subseteq In(Table)'
    BY <2>1, <2>2
  <2> SUFFICES ASSUME pc # "none"
               PROVE  /\ more => slot \in exists /\ Has(Chains'[slot], at)
                      /\ \A y \in due' : Ahead(Chains', data', slot, at, y)
                      /\ \A y \in done' : ~Ahead(Chains', data', slot, at, y)
    BY <1>2, <2>1, <2>3 DEF WalkInv, more
  <2>4. /\ more => slot \in exists /\ Has(Chains[slot], at) /\ at # e
        /\ \A y \in due : Ahead(Chains, data, slot, at, y)
        /\ \A y \in done : ~Ahead(Chains, data, slot, at, y)
    BY <2>1 DEF WalkInv, Current, e
  <2>5. more => Has(Chains'[slot], at)
    <3> SUFFICES ASSUME more
                 PROVE  Has(c[slot], at)
      BY <1>1
    <3>1. CASE slot = l
      <4>1. c[slot] = Without(Chains[l], k)
        BY <1>3, <3>1 DEF With
      <4>2. Chains[l] \in Seq(Elements) /\ Distinct(Chains[l]) /\ k \in 1 .. Len(Chains[l])
        BY <1>3
      <4>3. Has(Without(Chains[l], k), at) <=> Has(Chains[l], at) /\ at # Chains[l][k]
        BY <4>2, HasWithout
      <4> QED BY <1>3, <2>4, <3>1, <4>1, <4>3 DEF e
    <3>2. CASE slot # l
      <4>1. c[slot] = Chains[slot]
        BY <1>3, <2>4, <3>2 DEF With
      <4> QED BY <2>4, <4>1
    <3> QED BY <3>1, <3>2
  <2>6. slot = l => at # Chains[l][k]
    <3>1. slot = l => more
      BY <1>3, TheEntries DEF more
    <3> QED BY <1>3, <2>4, <3>1 DEF e
  <2>7. \A y \in Objects : Ahead(c, data, slot, at, y) <=> Ahead(Chains, data, slot, at, y) /\ y # o
    <3> SUFFICES ASSUME NEW y \in Objects
                 PROVE  Ahead(c, data, slot, at, y) <=> Ahead(Chains, data, slot, at, y) /\ y # o
      OBVIOUS
    <3>1. Filed(Rows(Chains, data), Hash) /\ l \in DOMAIN Chains /\ data[Chains[l][k]] = o
      BY <1>3, <1>5, <1>6 DEF Table, e
    <3> HIDE DEF c
    <3>2. Ahead(With(Chains, l, Without(Chains[l], k)), data, slot, at, y)
            <=> Ahead(Chains, data, slot, at, y) /\ y # data[Chains[l][k]]
      BY <1>3, <2>6, <3>1, AheadWithout
    <3> QED BY <3>1, <3>2 DEF c
  <2>8. In(Table) \subseteq Objects
    BY TableRows
  <2> QED BY <1>1, <1>2, <2>1, <2>4, <2>5, <2>7, <2>8
<1> QED BY <1>1, <1>9, <1>10

(* No equal object, nothing is taken out. *)
LEMMA StepNone ==
  ASSUME IInv, UNCHANGED <<listVars, client, itemsInContainer, pc, slot, at>>, NEW del,
         alive' = IF del THEN alive \ {NullObject} ELSE alive,
         held' = (IF del THEN held ELSE held \cup {NullObject}) \ {NullObject},
         due' = due \ {NullObject}, done' = done \ {NullObject}
  PROVE  IInv'
<1>1. /\ held \subseteq Objects /\ alive \subseteq Objects
      /\ due \subseteq Objects /\ done \subseteq Objects
      /\ NullObject \notin Objects
  <2>1. In(Table) \subseteq Objects /\ NullObject \notin Objects
    BY TableRows, ListAssumption DEF IInv, NullObject
  <2> QED BY <2>1 DEF IInv, DataInv, WalkInv
<1>2. alive' = alive /\ held' = held /\ due' = due /\ done' = done
  BY <1>1
<1> QED BY <1>2, SameWalk

LEMMA StepBagDetach ==
  ASSUME IInv, NEW o \in Objects, NEW dt \in DeleteTypes, BagDetach(o, dt)
  PROVE  IInv'
<1> DEFINE b == getHashValue(o)
           s == Chain(b)
           gone == findMember(o)
           del == delObj(dt)
<1>1. /\ Turn /\ client' = client /\ pc' = pc /\ slot' = slot /\ at' = at
      /\ alive' = (IF del THEN alive \ {gone} ELSE alive)
      /\ held' = (IF del THEN held ELSE held \cup {gone}) \ {NullObject}
      /\ due' = due \ {gone} /\ done' = done \ {gone}
  BY DEF BagDetach
<1>2. CASE b \notin exists
  <2>1. gone = NullObject /\ UNCHANGED <<listVars, itemsInContainer>>
    BY <1>2 DEF BagDetach, findMember
  <2> HIDE DEF del, gone, b
  <2> QED BY <1>1, <2>1, StepNone
<1>3. CASE b \in exists
  <2>1. /\ Detach(b, o)
        /\ itemsInContainer' = IF size'[b] # size[b] THEN itemsInContainer - 1 ELSE itemsInContainer
        /\ next[findPred(b, o)] \notin Elements \cap {Current}
        /\ gone = IF next[findPred(b, o)] = tail(b) THEN NullObject ELSE data[next[findPred(b, o)]]
    BY <1>3 DEF BagDetach, findMember, FirstEqual
  <2>2. ASSUME NEW k \in 1 .. Len(s), findPred(b, o) = Before(b, k), next[findPred(b, o)] = s[k]
        PROVE  IInv'
    <3>1. s[k] \in Elements /\ b \in Lists
      BY <1>3, TheChain DEF IInv
    <3>2. s[k] # tail(b)
      BY <3>1, TheNodes
    <3>3. Gone(b, k)
      BY <2>1, <2>2, <3>2 DEF Detach, Gone
    <3>4. size'[b] # size[b]
      BY <1>3, <3>3, TakeStep DEF IInv
    <3>5. gone = data[s[k]] /\ s[k] # Current /\ itemsInContainer' = itemsInContainer - 1
      BY <2>1, <2>2, <3>1, <3>2, <3>4
    <3> HIDE DEF del, gone, b
    <3> QED BY <1>1, <1>3, <2>2, <3>3, <3>5, StepTake
  <2>3. ASSUME next[findPred(b, o)] = tail(b)
        PROVE  IInv'
    <3>1. gone = NullObject /\ UNCHANGED <<listVars, itemsInContainer>>
      BY <2>1, <2>3 DEF Detach, listVars
    <3> HIDE DEF del, gone, b
    <3> QED BY <1>1, <3>1, StepNone
  <2>4. \/ \E k \in 1 .. Len(s) : findPred(b, o) = Before(b, k) /\ next[findPred(b, o)] = s[k]
        \/ next[findPred(b, o)] = tail(b)
    <3> HIDE DEF b
    <3> QED BY <1>3, FoundPred DEF IInv, Before
  <2> QED BY <2>2, <2>3, <2>4
<1> QED BY <1>2, <1>3

LEMMA StepFlush ==
  ASSUME IInv, NEW dt \in DeleteTypes, Flush(dt)
  PROVE  IInv'
<1> USE DEF IInv
<1>1. /\ exists' = {} /\ next' = [e \in Entries |-> Null] /\ data' = [e \in Entries |-> NullObject]
      /\ freeList' = Null /\ cut' = 0 /\ size' = [l \in Lists |-> 0] /\ key' = key
      /\ itemsInContainer' = 0 /\ client' = client /\ pc = "none"
      /\ pc' = pc /\ slot' = slot /\ at' = at /\ due' = due /\ done' = done
  BY DEF Flush, DestroyAll, walkVars
<1>2. /\ Linked(NoChains, << >>, next', freeList', cut', heads, tails, MaxElements)
      /\ next' \in [Entries -> Entries \cup {Null}] /\ size' = Sizes(NoChains)
      /\ DOMAIN NoChains \subseteq Lists /\ exists' = DOMAIN NoChains
  BY <1>1, EmptyPool DEF NoChains
<1>3. LinksInv' /\ Chains' = NoChains /\ FreeCells' = << >> /\ Table' = Rows(NoChains, data')
  <2>1. NoChains = [l \in DOMAIN NoChains |-> NoChains[l]]
    BY DEF NoChains
  <2> QED BY <1>2, <2>1, ListsAfter
<1>4. In(Rows(NoChains, data')) = {} /\ Filed(Rows(NoChains, data'), Hash)
  BY EmptyPool
<1>5. DataInv'
  <2>1. InTable = In(Table)
    BY InTableIs
  <2>2. /\ alive' = (IF delObj(dt) THEN alive \ InTable ELSE alive)
        /\ held' = (IF delObj(dt) THEN held ELSE held \cup InTable)
    BY DEF Flush
  <2>3. /\ held \subseteq Objects /\ held \cap In(Table) = {} /\ alive = held \cup In(Table)
        /\ In(Table) \subseteq Objects /\ client \in Clients /\ key = client.key
    BY TableRows DEF DataInv
  <2>4. alive' = held' /\ held' \subseteq Objects
    BY <2>1, <2>2, <2>3
  <2>5. /\ data' \in [Entries -> Objects \cup {NullObject}]
        /\ \A l \in Lists : data'[head(l)] = NullObject /\ data'[tail(l)] = NullObject
    BY <1>1, TheEntries
  <2>6. Cardinality({}) = 0 /\ Len(<< >>) = 0
    BY FS_EmptySet
  <2>7. itemsInContainer' = Cardinality({}) /\ cut' = itemsInContainer' + Len(FreeCells')
    BY <1>1, <1>3, <2>6
  <2> DEFINE q == Rows(NoChains, data')
  <2>8. Table' = q /\ In(q) = {} /\ Filed(q, Hash)
    BY <1>3, <1>4
  <2> HIDE DEF q
  <2>9. /\ held' \cap In(q) = {} /\ alive' = held' \cup In(q)
        /\ itemsInContainer' = Cardinality(In(q))
        /\ client.kind = "Set" => \A o, p \in In(q) : Same(o, p) => o = p
    BY <2>4, <2>7, <2>8
  <2> QED BY <1>1, <2>3, <2>4, <2>5, <2>7, <2>8, <2>9, DataAfter
<1>6. WalkInv'
  <2>1. due = {} /\ done = {} /\ slot \in 0 .. Buckets
    BY <1>1 DEF WalkInv
  <2> QED BY <1>1, <2>1 DEF WalkInv
<1> QED BY <1>3, <1>5, <1>6

LEMMA StepOwns ==
  ASSUME IInv, NEW del \in BOOLEAN, OwnsElements(del)
  PROVE  IInv'
BY SameWalk DEF OwnsElements, walkVars

-----------------------------------------------------------------------------
(* The next slot with a list, and what lies ahead from there. *)
LEMMA BumpIs ==
  ASSUME NEW s \in 0 .. Buckets
  PROVE  /\ bump(s) \in s .. Buckets
         /\ bump(s) = Buckets \/ bump(s) \in exists
         /\ \A u \in s .. bump(s) - 1 : u \notin exists
<1> DEFINE good(t) == /\ t = Buckets \/ t \in exists
                      /\ \A u \in s .. t - 1 : u \notin exists
           H == {t \in s .. Buckets : t = Buckets \/ t \in exists}
<1>1. Buckets \in Nat /\ s \in Nat /\ s <= Buckets
  BY TheEntries
<1>2. H \in SUBSET Nat /\ Buckets \in H
  BY <1>1
<1>3. \E m \in H : \A y \in H : m <= y
  <2> HIDE DEF H
  <2> QED BY <1>2, Least
<1>4. PICK m \in H : \A y \in H : m <= y
  BY <1>3
<1>5. m \in s .. Buckets /\ (m = Buckets \/ m \in exists)
  OBVIOUS
<1>6. ASSUME NEW u \in s .. m - 1
      PROVE  u \notin exists
  <2>1. u \in s .. Buckets /\ ~(m <= u)
    BY <1>1, <1>5
  <2> QED BY <1>4, <2>1
<1>7. \E t \in s .. Buckets : good(t)
  BY <1>5, <1>6
<1>8. bump(s) = CHOOSE t \in s .. Buckets : good(t)
  BY DEF bump
<1> HIDE DEF good
<1>9. bump(s) \in s .. Buckets /\ good(bump(s))
  BY <1>7, <1>8
<1> QED BY <1>9 DEF good

(* The objects of the lists from slot s on. *)
Later(s, y) == \E m \in exists : m >= s /\ Has(Table[m], y)

LEMMA ChainsAt ==
  ASSUME LinksInv, DataInv, NEW m \in exists
  PROVE  /\ m \in DOMAIN Chains /\ m \in 0 .. Buckets - 1 /\ m \in Int
         /\ Chains[m] = Chain(m) /\ Mapped(Chains[m], data) = Table[m]
         /\ Chains[m] \in Seq(Elements) /\ Len(Chains[m]) \in Nat
         /\ Distinct(Chains[m]) /\ Distinct(Table[m])
BY TheLists, TheChain, TheEntries, RowOf

(* At the end of the list of its slot, an iterator has the later lists ahead;
   at the first element, or at the end of an empty list, that list too. *)
LEMMA AtTheEnd ==
  ASSUME LinksInv, DataInv, NEW l \in exists, NEW y
  PROVE  Ahead(Chains, data, l, tail(l), y) <=> Later(l + 1, y)
<1>1. DOMAIN Chains = exists /\ l \in Int
  BY TheLists, ChainsAt
<1>2. ~Lies(Chains[l], data, tail(l), "forward", y)
  <2>1. \A i \in 1 .. Len(Chain(l)) : Chain(l)[i] \in Elements
    BY TheChain
  <2>2. tail(l) \notin Elements /\ Chains[l] = Chain(l)
    BY TheNodes, TheChain
  <2> QED BY <2>1, <2>2 DEF Lies
<1>3. \A m \in exists : m \in Int /\ Mapped(Chains[m], data) = Table[m]
  BY ChainsAt
<1>4. \A m \in exists : m > l <=> m >= l + 1
  BY <1>1, <1>3
<1> QED BY <1>1, <1>2, <1>3, <1>4 DEF Ahead, Later

LEMMA AtTheStart ==
  ASSUME LinksInv, DataInv, NEW l \in exists
  PROVE  /\ Has(Chains[l], next[head(l)]) \/ next[head(l)] = tail(l)
         /\ \A y : Ahead(Chains, data, l, next[head(l)], y) <=> Later(l, y)
<1> DEFINE s == Chain(l)
           x == next[head(l)]
<1>1. /\ DOMAIN Chains = exists /\ l \in Int /\ Chains[l] = s
      /\ Table[l] = Mapped(s, data) /\ DOMAIN s = 1 .. Len(s) /\ Len(s) \in Nat
  BY TheLists, TheChain, ChainsAt
<1>2. x = IF Len(s) = 0 THEN tail(l) ELSE s[1]
  BY TheChain DEF IsChain
<1>3. Has(s, x) \/ x = tail(l)
  BY <1>1, <1>2 DEF Has
<1>4. \A y : Lies(s, data, x, "forward", y) <=> Has(Mapped(s, data), y)
  <2> SUFFICES ASSUME NEW y
               PROVE  Lies(s, data, x, "forward", y) <=> Has(Mapped(s, data), y)
    OBVIOUS
  <2>1. /\ Len(Mapped(s, data)) = Len(s)
        /\ \A i \in 1 .. Len(s) : Mapped(s, data)[i] = data[s[i]]
    <3> HIDE DEF s
    <3> QED BY <1>1 DEF Mapped
  <2>2. ASSUME Lies(s, data, x, "forward", y)
        PROVE  Has(Mapped(s, data), y)
    BY <2>1, <2>2 DEF Lies, Has
  <2>3. ASSUME Has(Mapped(s, data), y)
        PROVE  Lies(s, data, x, "forward", y)
    <3>1. PICK i \in 1 .. Len(s) : data[s[i]] = y
      BY <2>1, <2>3 DEF Has
    <3>2. 1 \in 1 .. Len(s) /\ s[1] = x /\ Onward("forward", 1, i)
      BY <1>1, <1>2, <3>1 DEF Onward
    <3> QED BY <3>1, <3>2 DEF Lies
  <2> QED BY <2>2, <2>3
<1>5. \A m \in exists : m \in Int /\ Mapped(Chains[m], data) = Table[m]
  BY ChainsAt
<1>6. \A m \in exists : m >= l <=> m > l \/ m = l
  BY <1>1, <1>5
<1> HIDE DEF s, x
<1>7. \A y : Ahead(Chains, data, l, x, y) <=> Later(l, y)
  BY <1>1, <1>4, <1>5, <1>6 DEF Ahead, Later
<1> QED BY <1>1, <1>3, <1>7 DEF x

LEMMA AtNothing ==
  ASSUME LinksInv, DataInv
  PROVE  \A x, y : ~Ahead(Chains, data, Buckets, x, y)
<1>1. \A m \in DOMAIN Chains : m \in 0 .. Buckets - 1
  BY TheLists, TheEntries
<1>2. \A m \in DOMAIN Chains : ~(m > Buckets) /\ m # Buckets
  BY <1>1, TheEntries
<1> QED BY <1>2 DEF Ahead

(* From slot s on, the iterator comes to a list, or to its end. *)
LEMMA Arrives ==
  ASSUME LinksInv, DataInv, NEW s \in 0 .. Buckets, NEW x,
         bump(s) < Buckets => x = ListIteratorAt(bump(s))
  PROVE  LET t == bump(s)
         IN  /\ t \in 0 .. Buckets
             /\ t < Buckets => t \in exists /\ (Has(Chains[t], x) \/ x = tail(t))
             /\ \A y : Ahead(Chains, data, t, x, y) <=> Later(s, y)
<1> DEFINE t == bump(s)
<1>1. t \in s .. Buckets /\ (t = Buckets \/ t \in exists) /\ \A u \in s .. t - 1 : u \notin exists
  BY BumpIs
<1>2. s \in Int /\ Buckets \in Int /\ t \in Int /\ t \in 0 .. Buckets /\ s <= t /\ t <= Buckets
  BY <1>1, TheEntries
<1>3. x = ListIteratorAt(t) \/ ~(t < Buckets)
  OBVIOUS
<1> HIDE DEF t
<1>4. \A y : Later(t, y) <=> Later(s, y)
  <2>1. \A m \in exists : m \in Int /\ m < Buckets
    BY ChainsAt, TheEntries
  <2>2. ASSUME NEW m \in exists
        PROVE  m >= s <=> m >= t
    <3>1. m \in Int
      BY <2>1
    <3>2. ~(m \in s .. t - 1)
      BY <1>1
    <3> QED BY <1>2, <3>1, <3>2
  <2> QED BY <2>2 DEF Later
<1>5. CASE t < Buckets
  <2>1. t \in exists
    BY <1>1, <1>2, <1>5
  <2>2. x = next[head(t)]
    BY <1>3, <1>5, <2>1 DEF ListIteratorAt
  <2>3. /\ Has(Chains[t], x) \/ x = tail(t)
        /\ \A y : Ahead(Chains, data, t, x, y) <=> Later(t, y)
    BY <2>1, <2>2, AtTheStart
  <2> QED BY <1>2, <1>4, <2>1, <2>3 DEF t
<1>6. CASE ~(t < Buckets)
  <2>1. t = Buckets
    BY <1>2, <1>6
  <2>2. \A y : ~Later(t, y)
    <3>1. \A m \in exists : m \in 0 .. Buckets - 1
      BY ChainsAt
    <3>2. \A m \in exists : ~(m >= t)
      BY <2>1, <3>1, TheEntries
    <3> QED BY <3>2 DEF Later
  <2>3. \A y : ~Ahead(Chains, data, t, x, y)
    BY <2>1, AtNothing
  <2> QED BY <1>2, <1>4, <1>6, <2>2, <2>3 DEF t
<1> QED BY <1>5, <1>6

(* The steps of a walk leave the table alone. *)
LEMMA WalkAfter ==
  ASSUME LinksInv, DataInv, UNCHANGED <<listVars, tableVars>>,
         pc' \in {"ready", "scan"}, slot' \in 0 .. Buckets,
         due' \subseteq In(Table), done' \subseteq In(Table),
         slot' < Buckets => /\ slot' \in exists
                            /\ Has(Chains[slot'], at') \/ (pc' = "scan" /\ at' = tail(slot')),
         \A y \in due' : Ahead(Chains, data, slot', at', y),
         \A y \in done' : ~Ahead(Chains, data, slot', at', y)
  PROVE  IInv'
<1>1. LinksInv' /\ DataInv'
  BY SameTable, SameData DEF tableVars
<1>2. Chains' = Chains /\ Table' = Table /\ exists' = exists /\ data' = data
  BY SameTable DEF tableVars
<1>3. pc' # "none" /\ In(Table)' = In(Table)
  BY <1>2
<1>4. WalkInv'
  BY <1>2, <1>3 DEF WalkInv, more
<1> QED BY <1>1, <1>4 DEF IInv

LEMMA StepRestart ==
  ASSUME IInv, Restart
  PROVE  IInv'
<1>1. /\ LinksInv /\ DataInv /\ UNCHANGED <<listVars, tableVars>>
      /\ slot' = bump(0) /\ at' = (IF slot' < Buckets THEN ListIteratorAt(slot') ELSE Null)
      /\ pc' = (IF slot' < Buckets THEN "scan" ELSE "ready")
      /\ due' = InTable /\ done' = {}
  BY DEF IInv, Restart
<1>2. 0 \in 0 .. Buckets
  BY TheEntries
<1>3. /\ slot' \in 0 .. Buckets
      /\ slot' < Buckets => slot' \in exists /\ (Has(Chains[slot'], at') \/ at' = tail(slot'))
      /\ \A y : Ahead(Chains, data, slot', at', y) <=> Later(0, y)
  <2> DEFINE x == at'
  <2>1. bump(0) < Buckets => x = ListIteratorAt(bump(0))
    BY <1>1
  <2> HIDE DEF x
  <2>2. LET t == bump(0)
        IN  /\ t \in 0 .. Buckets
            /\ t < Buckets => t \in exists /\ (Has(Chains[t], x) \/ x = tail(t))
            /\ \A y : Ahead(Chains, data, t, x, y) <=> Later(0, y)
    BY <1>1, <1>2, <2>1, Arrives
  <2> QED BY <1>1, <2>2 DEF x
<1>4. due' \subseteq In(Table) /\ \A y \in due' : Later(0, y)
  <2>1. due' = In(Table)
    BY <1>1, InTableIs
  <2>2. \A y \in In(Table) : \E m \in exists : Has(Table[m], y)
    BY <1>1, TableRows
  <2>3. \A m \in exists : m >= 0
    BY <1>1, ChainsAt
  <2> QED BY <2>1, <2>2, <2>3 DEF Later
<1>5. /\ pc' \in {"ready", "scan"} /\ done' \subseteq In(Table)
      /\ slot' < Buckets => pc' = "scan"
      /\ \A y \in done' : ~Ahead(Chains, data, slot', at', y)
  BY <1>1
<1>6. /\ slot' < Buckets => /\ slot' \in exists
                            /\ Has(Chains[slot'], at') \/ (pc' = "scan" /\ at' = tail(slot'))
      /\ \A y \in due' : Ahead(Chains, data, slot', at', y)
  BY <1>3, <1>4, <1>5
<1> QED BY <1>1, <1>3, <1>4, <1>5, <1>6, WalkAfter

LEMMA StepIncrement ==
  ASSUME IInv, Increment
  PROVE  IInv'
<1> DEFINE s == Chain(slot)
<1>1. /\ LinksInv /\ DataInv /\ UNCHANGED <<listVars, tableVars>>
      /\ pc = "ready" /\ more /\ slot' = slot /\ at' = next[at] /\ pc' = "scan"
      /\ due' = due \ {data[at]} /\ done' = done \cup (due \cap {data[at]})
  BY DEF IInv, Increment
<1>2. /\ slot \in 0 .. Buckets /\ due \subseteq In(Table) /\ done \subseteq In(Table)
      /\ slot \in exists /\ Has(Chains[slot], at)
      /\ \A y \in due : Ahead(Chains, data, slot, at, y)
      /\ \A y \in done : ~Ahead(Chains, data, slot, at, y)
  BY <1>1 DEF IInv, WalkInv
<1>3. /\ Chains[slot] = s /\ s \in Seq(Elements) /\ Len(s) \in Nat /\ Distinct(s)
      /\ Mapped(s, data) = Table[slot] /\ Distinct(Table[slot]) /\ slot \in Int
  BY <1>1, <1>2, ChainsAt
<1>4. PICK i \in 1 .. Len(s) : s[i] = at
  BY <1>2, <1>3 DEF Has
<1>5. /\ at' = Beyond(s, "forward", i, tail(slot))
      /\ Has(s, at') \/ at' = tail(slot)
  <2>1. next[s[i]] = IF i = Len(s) THEN tail(slot) ELSE s[i + 1]
    BY <1>1, <1>2, <1>4, TheChain DEF IsChain
  <2>2. i # Len(s) => i + 1 \in 1 .. Len(s)
    BY <1>3, <1>4
  <2> HIDE DEF s
  <2> QED BY <1>1, <1>4, <2>1, <2>2 DEF Beyond, Has
<1>6. data[at] = Table[slot][i] /\ data[at] \in Objects /\ getHashValue(data[at]) = slot
  <2>1. /\ Table[slot][i] = data[s[i]] /\ data[s[i]] \in Objects
        /\ Has(Table[slot], data[s[i]])
        /\ \A y \in Objects : Has(Table[slot], y) => getHashValue(y) = slot
    BY <1>1, <1>2, <1>4, RowOf
  <2> QED BY <1>4, <2>1
<1>7. \A y : Lies(s, data, at', "forward", y) <=> Lies(s, data, at, "forward", y) /\ y # data[at]
  <2>1. ~Has(s, tail(slot))
    <3>1. tail(slot) \notin Elements
      BY <1>1, <1>2, TheLists, TheNodes
    <3> QED BY <1>1, <1>2, <3>1, TheChain
  <2>2. Distinct(Mapped(s, data)) /\ "forward" \in {"forward", "backward"}
    BY <1>3
  <2> HIDE DEF s
  <2>3. \A y : Lies(s, data, Beyond(s, "forward", i, tail(slot)), "forward", y)
                 <=> Lies(s, data, s[i], "forward", y) /\ y # data[s[i]]
    BY <1>3, <1>4, <2>1, <2>2, LiesNext
  <2> QED BY <1>4, <1>5, <2>3
<1>8. \A y : Ahead(Chains, data, slot, at', y)
               <=> Ahead(Chains, data, slot, at, y) /\ y # data[at]
  <2> SUFFICES ASSUME NEW y
               PROVE  Ahead(Chains, data, slot, at', y)
                        <=> Ahead(Chains, data, slot, at, y) /\ y # data[at]
    OBVIOUS
  <2>1. DOMAIN Chains = exists
    BY <1>1, TheLists
  <2>2. ASSUME NEW m \in exists, m > slot, Has(Mapped(Chains[m], data), y)
        PROVE  y # data[at]
    <3>1. Has(Table[m], y)
      BY <1>1, <2>2, ChainsAt
    <3>2. y \in Objects => getHashValue(y) = m
      BY <1>1, <3>1, RowOf
    <3>3. m # slot
      BY <1>1, <1>3, <2>2, ChainsAt
    <3> QED BY <1>6, <3>2, <3>3
  <2> HIDE DEF s
  <2> QED BY <1>2, <1>3, <1>7, <2>1, <2>2 DEF Ahead
<1>9. /\ \A y \in due' : Ahead(Chains, data, slot', at', y)
      /\ \A y \in done' : ~Ahead(Chains, data, slot', at', y)
      /\ due' \subseteq In(Table) /\ done' \subseteq In(Table)
  BY <1>1, <1>2, <1>8
<1>10. Has(Chains[slot'], at') \/ (pc' = "scan" /\ at' = tail(slot'))
  BY <1>1, <1>3, <1>5
<1>11. pc' \in {"ready", "scan"} /\ slot' \in 0 .. Buckets /\ slot' \in exists
  BY <1>1, <1>2
<1> QED BY <1>1, <1>9, <1>10, <1>11, WalkAfter

LEMMA StepScan ==
  ASSUME IInv, Scan
  PROVE  IInv'
<1>1. /\ LinksInv /\ DataInv /\ UNCHANGED <<listVars, tableVars>> /\ pc = "scan"
      /\ due' = due /\ done' = done
  BY DEF IInv, Scan
<1>2. /\ slot \in 0 .. Buckets /\ due \subseteq In(Table) /\ done \subseteq In(Table)
      /\ more => slot \in exists /\ (Has(Chains[slot], at) \/ at = tail(slot))
      /\ \A y \in due : Ahead(Chains, data, slot, at, y)
      /\ \A y \in done : ~Ahead(Chains, data, slot, at, y)
  BY <1>1 DEF IInv, WalkInv
<1>3. /\ \A l \in Lists : data[tail(l)] = NullObject /\ tail(l) # Null
      /\ exists \subseteq Lists
  BY <1>1, TheNodes, TheLists DEF DataInv
<1>4. CASE ~(at # Null /\ data[at] = NullObject)
  <2>1. pc' = "ready" /\ slot' = slot /\ at' = at
    BY <1>4 DEF Scan
  <2>2. slot' < Buckets => slot' \in exists /\ Has(Chains[slot'], at')
    BY <1>2, <1>3, <1>4, <2>1 DEF more
  <2> QED BY <1>1, <1>2, <2>1, <2>2, WalkAfter
<1>5. CASE at # Null /\ data[at] = NullObject /\ more
  <2>1. /\ slot' = bump(slot + 1) /\ at' = ListIteratorAt(SlotShown(slot')) /\ pc' = "scan"
    BY <1>5 DEF Scan
  <2>2. slot \in exists /\ at = tail(slot)
    <3>1. slot \in exists /\ (Has(Chains[slot], at) \/ at = tail(slot))
      BY <1>2, <1>5
    <3>2. ASSUME Has(Chains[slot], at)
          PROVE  FALSE
      <4>1. PICK i \in 1 .. Len(Chain(slot)) : Chain(slot)[i] = at
        BY <1>1, <3>1, <3>2, ChainsAt DEF Has
      <4> QED BY <1>1, <1>5, <3>1, <4>1, RowOf
    <3> QED BY <3>1, <3>2
  <2>3. slot + 1 \in 0 .. Buckets
    BY <1>2, <1>5, TheEntries DEF more
  <2>4. \A y : Ahead(Chains, data, slot, at, y) <=> Later(slot + 1, y)
    BY <1>1, <2>2, AtTheEnd
  <2>5. /\ slot' \in 0 .. Buckets
        /\ slot' < Buckets => slot' \in exists /\ (Has(Chains[slot'], at') \/ at' = tail(slot'))
        /\ \A y : Ahead(Chains, data, slot', at', y) <=> Later(slot + 1, y)
    <3> DEFINE x == at'
               n == slot + 1
    <3>1. n \in 0 .. Buckets /\ (bump(n) < Buckets => x = ListIteratorAt(bump(n)))
      BY <2>1, <2>3 DEF SlotShown
    <3> HIDE DEF x, n
    <3>2. LET t == bump(n)
          IN  /\ t \in 0 .. Buckets
              /\ t < Buckets => t \in exists /\ (Has(Chains[t], x) \/ x = tail(t))
              /\ \A y : Ahead(Chains, data, t, x, y) <=> Later(n, y)
      BY <1>1, <3>1, Arrives
    <3>3. slot' = bump(n)
      BY <2>1 DEF n
    <3>4. /\ slot' \in 0 .. Buckets
          /\ slot' < Buckets => slot' \in exists /\ (Has(Chains[slot'], x) \/ x = tail(slot'))
          /\ \A y : Ahead(Chains, data, slot', x, y) <=> Later(n, y)
      BY <3>2, <3>3
    <3> QED BY <3>4 DEF x, n
  <2>6. /\ \A y \in due' : Ahead(Chains, data, slot', at', y)
        /\ \A y \in done' : ~Ahead(Chains, data, slot', at', y)
    BY <1>1, <1>2, <2>4, <2>5
  <2> QED BY <1>1, <1>2, <2>1, <2>5, <2>6, WalkAfter
<1>6. CASE at # Null /\ data[at] = NullObject /\ ~more
  <2>1. slot' = slot /\ pc' = "scan"
    BY <1>6 DEF Scan
  <2>2. slot = Buckets
    BY <1>2, <1>6, TheEntries DEF more
  <2>3. \A x, y : ~Ahead(Chains, data, slot, x, y)
    BY <1>1, <2>2, AtNothing
  <2>4. ~(slot' < Buckets) /\ \A y : ~Ahead(Chains, data, slot', at', y)
    BY <1>6, <2>1, <2>3 DEF more
  <2> QED BY <1>1, <1>2, <2>1, <2>3, <2>4, WalkAfter
<1> QED BY <1>4, <1>5, <1>6

LEMMA StepEndWalk ==
  ASSUME IInv, EndWalk
  PROVE  IInv'
<1>1. LinksInv' /\ DataInv'
  BY SameTable, SameData DEF IInv, EndWalk, tableVars
<1>2. 0 \in 0 .. Buckets
  BY TheEntries
<1>3. WalkInv'
  BY <1>2 DEF EndWalk, WalkInv
<1> QED BY <1>1, <1>3 DEF IInv

LEMMA StepIInv ==
  ASSUME IInv, [Next]_vars
  PROVE  IInv'
<1>1. ASSUME NEW o \in Objects, BagAdd(o)
      PROVE  IInv'
  BY <1>1, StepBagAdd
<1>2. ASSUME NEW o \in Objects, NEW dt \in DeleteTypes, BagDetach(o, dt)
      PROVE  IInv'
  BY <1>2, StepBagDetach
<1>3. ASSUME NEW dt \in DeleteTypes, Flush(dt)
      PROVE  IInv'
  BY <1>3, StepFlush
<1>4. ASSUME NEW del \in BOOLEAN, OwnsElements(del)
      PROVE  IInv'
  BY <1>4, StepOwns
<1>5. CASE Restart
  BY <1>5, StepRestart
<1>6. CASE Walk
  BY <1>6, StepIncrement, StepScan, StepEndWalk DEF Walk
<1>7. CASE UNCHANGED vars
  BY <1>7, SameWalk DEF vars, tableVars, walkVars
<1> QED BY <1>1, <1>2, <1>3, <1>4, <1>5, <1>6, <1>7 DEF Next

LEMMA AlwaysIInv == Spec => []IInv
BY InitIInv, StepIInv, PTL DEF Spec

-----------------------------------------------------------------------------
LEMMA PoolFollows ==
  ASSUME LinksInv
  PROVE  PoolSound
<1>1. ASSUME NEW l \in exists
      PROVE  LET chain == Chain(l)
                 end == IF chain = << >> THEN head(l) ELSE Last(chain)
             IN  size[l] = Len(chain) /\ next[end] = tail(l) /\ next[tail(l)] = tail(l)
  <2> DEFINE s == Chain(l)
  <2>1. /\ s \in Seq(1 .. cut) /\ Len(s) \in Nat /\ size[l] = Len(s) /\ next[tail(l)] = tail(l)
        /\ IsChain(s, next, next[head(l)], 1 .. cut, tail(l))
    BY TheChain
  <2> HIDE DEF s
  <2>2. CASE s = << >>
    BY <2>1, <2>2 DEF IsChain, s
  <2>3. CASE s # << >>
    <3>1. Len(s) \in 1 .. Len(s) /\ Last(s) = s[Len(s)]
      BY <2>1, <2>3 DEF Last
    <3> QED BY <2>1, <2>3, <3>1 DEF IsChain, s
  <2> QED BY <2>2, <2>3
<1>2. IsInjective(FreeCells)
  <2>1. FreeCells \in Seq(1 .. cut) /\ Distinct(FreeCells)
    BY TheLists
  <2>2. DOMAIN FreeCells = 1 .. Len(FreeCells)
    BY <2>1
  <2> QED BY <2>1, <2>2 DEF Distinct, IsInjective
<1>3. FreeCells \in Seq(1 .. cut) /\ \A x : x \in ToSet(FreeCells) <=> Has(FreeCells, x)
  BY TheLists, ToSetHas
<1>4. ASSUME NEW l \in exists
      PROVE  /\ IsInjective(Chain(l)) /\ \A x : x \in ToSet(Chain(l)) <=> Has(Chain(l), x)
             /\ \A x : Has(Chain(l), x) => x \in 1 .. cut /\ ~Has(FreeCells, x)
  <2> DEFINE s == Chain(l)
  <2>1. /\ s \in Seq(1 .. cut) /\ Distinct(s) /\ DOMAIN s = 1 .. Len(s)
        /\ \A x : Has(s, x) => ~Has(FreeCells, x)
        /\ IsChain(s, next, next[head(l)], 1 .. cut, tail(l))
    BY TheChain
  <2> HIDE DEF s
  <2>2. /\ IsInjective(s) /\ \A x : x \in ToSet(s) <=> Has(s, x)
        /\ \A x : Has(s, x) => x \in 1 .. cut
    BY <2>1, ToSetHas, ChainIn DEF Distinct, IsInjective
  <2> QED BY <2>1, <2>2 DEF s
<1>5. \A l \in exists : /\ IsInjective(Chain(l))
                        /\ ToSet(Chain(l)) \cap ToSet(FreeCells) = {}
  BY <1>3, <1>4
<1>6. ASSUME NEW l \in exists, NEW m \in exists \ {l}
      PROVE  ToSet(Chain(l)) \cap ToSet(Chain(m)) = {}
  BY <1>4, TheLists
<1>7. ToSet(FreeCells) \cup UNION {ToSet(Chain(l)) : l \in exists} = 1 .. cut
  <2>1. \A x : Has(FreeCells, x) => x \in 1 .. cut
    <3> DEFINE f == FreeCells
    <3>1. f \in Seq(1 .. cut) /\ cut \in Nat
      BY <1>3, TheLists
    <3> HIDE DEF f
    <3>2. \A i \in 1 .. Len(f) : f[i] \in 1 .. cut
      BY <3>1
    <3> QED BY <3>2 DEF Has, f
  <2>2. \A x \in 1 .. cut : Has(FreeCells, x) \/ \E l \in exists : Has(Chain(l), x)
    BY TheLists
  <2>3. \A x : x \in UNION {ToSet(Chain(l)) : l \in exists} <=> \E l \in exists : Has(Chain(l), x)
    BY <1>4
  <2> QED BY <1>3, <1>4, <2>1, <2>2, <2>3
<1> QED BY <1>1, <1>2, <1>5, <1>6, <1>7 DEF PoolSound

(* However a Bag, Set or Dictionary is used, by add, detach, flush and
   ownsElements, every object is with the client, destroyed or filed once under
   its hash value, no cell of the pool is lost or in two places, the counts fit,
   a Set has no two equal objects, and findMember finds what is there
   (hashtbl.cpp, bag.cpp, set.cpp, list.cpp). *)
THEOREM HashTableNothingLost == Spec => []NothingLost
<1>1. ASSUME IInv
      PROVE  NothingLost
  <2> USE <1>1 DEF IInv
  <2>1. PoolSound
    BY PoolFollows
  <2>2. InTable = In(Table)
    BY InTableIs
  <2>3. /\ itemsInContainer = Cardinality(InTable) /\ cut = itemsInContainer + Len(FreeCells)
        /\ held \cap InTable = {} /\ alive = held \cup InTable
        /\ client.kind = "Set" => \A o, p \in InTable : Same(o, p) => o = p
    BY <2>2 DEF DataInv
  <2>4. ASSUME NEW b \in exists, NEW o \in ToSet(ObjectsOf(b))
        PROVE  getHashValue(o) = b
    <3>1. /\ Table[b] = ObjectsOf(b) /\ Table[b] \in Seq(Objects)
          /\ \A y \in Objects : Has(Table[b], y) => getHashValue(y) = b
      BY RowOf DEF Mapped, ObjectsOf
    <3>2. o \in Objects /\ Has(Table[b], o)
      <4>1. ToSet(Table[b]) \subseteq Objects
        BY <3>1 DEF ToSet
      <4> QED BY <3>1, <4>1, ToSetHas
    <3> QED BY <3>1, <3>2
  <2>5. \A o \in Objects : hasMember(o) <=> \E p \in InTable : Same(o, p)
    BY <2>2, Members
  <2> QED BY <2>1, <2>3, <2>4, <2>5 DEF NothingLost
<1> QED BY <1>1, AlwaysIInv, PTL

(* A walk over the whole table, list after list, never stands at an object it
   has returned or one that is not there, and at its end it has returned each
   that was there all along, whatever was added or detached meanwhile other
   than the object it was at (HashTableIterator). *)
THEOREM HashTableWalks == Spec => []WalksTheTable
<1>1. ASSUME IInv
      PROVE  WalksTheTable
  <2> USE <1>1 DEF IInv
  <2> SUFFICES ASSUME pc = "ready"
               PROVE  IF more THEN at \in Elements /\ data[at] \in InTable \ done ELSE due = {}
    BY DEF WalksTheTable
  <2>1. /\ slot \in 0 .. Buckets
        /\ more => slot \in exists /\ Has(Chains[slot], at)
        /\ \A y \in due : Ahead(Chains, data, slot, at, y)
        /\ \A y \in done : ~Ahead(Chains, data, slot, at, y)
    BY DEF WalkInv
  <2>2. CASE more
    <3> DEFINE s == Chain(slot)
    <3>1. Chains[slot] = s /\ slot \in DOMAIN Chains
      BY <2>1, <2>2, ChainsAt
    <3>2. PICK i \in 1 .. Len(s) : s[i] = at
      BY <2>1, <2>2, <3>1 DEF Has
    <3>3. at \in Elements /\ data[at] \in InTable /\ i \in Int
      BY <2>1, <2>2, <3>2, TheChain, RowOf, InTableIs
    <3>4. Lies(s, data, at, "forward", data[at])
      BY <3>2, <3>3 DEF Lies, Onward
    <3>5. Ahead(Chains, data, slot, at, data[at])
      BY <3>1, <3>4 DEF Ahead
    <3> QED BY <2>1, <2>2, <3>3, <3>5
  <2>3. CASE ~more
    <3>1. slot = Buckets
      BY <2>1, <2>3, TheEntries DEF more
    <3> QED BY <2>1, <2>3, <3>1, AtNothing
  <2> QED BY <2>2, <2>3
<1> QED BY <1>1, AlwaysIInv, PTL
=============================================================================
