----------------------------- MODULE Induction ------------------------------
(***************************************************************************)
(* Induction on numbers and along chains of links, as facts about sets and *)
(* sequences: what the proofs about vectors, lists and MicroCalc need to   *)
(* reason about recursive functions and walks of any length; and linked    *)
(* lists that share a pool of cells, as links, sequences and objects.  Then *)
(* search trees as links: what attaching, unlinking and rotating do to one, *)
(* to its black heights and to its colours; and rings of links, and the     *)
(* one sequence of a finite set in the order of a relation.                 *)
(***************************************************************************)
EXTENDS Integers, Sequences, FiniteSetTheorems, TLAPS

(* A finite set of numbers that has all below each of its numbers is an
   interval from 0. *)
LEMMA DownClosed ==
  ASSUME NEW U \in SUBSET Nat, IsFiniteSet(U),
         \A i \in U : \A j \in 0 .. i : j \in U
  PROVE  Cardinality(U) \in Nat /\ U = 0 .. Cardinality(U) - 1
<1>. DEFINE k == Cardinality(U)
<1>1. k \in Nat
  BY FS_CardinalityType
<1>2. ASSUME NEW i \in U
      PROVE  i \in 0 .. k - 1
  <2>1. i \in Nat /\ 0 .. i \in SUBSET U
    OBVIOUS
  <2>2. Cardinality(0 .. i) = i + 1
    BY <2>1, FS_Interval
  <2>3. Cardinality(0 .. i) <= k
    BY <2>1, FS_Subset
  <2>. HIDE DEF k
  <2>. QED BY <2>1, <2>2, <2>3, <1>1
<1>3. IsFiniteSet(0 .. k - 1) /\ Cardinality(0 .. k - 1) = k
  <2>1. 0 \in Int /\ k - 1 \in Int
    BY <1>1
  <2>2. /\ IsFiniteSet(0 .. k - 1)
        /\ Cardinality(0 .. k - 1) = IF 0 > k - 1 THEN 0 ELSE k - 1 - 0 + 1
    BY <2>1, FS_Interval
  <2>. HIDE DEF k
  <2>. QED BY <2>2, <1>1
<1>4. U \in SUBSET (0 .. k - 1)
  BY <1>2
<1>5. U = 0 .. k - 1
  BY <1>3, <1>4, FS_Subset
<1>. QED BY <1>1, <1>5

(* A set of numbers has a least one. *)
LEMMA Least ==
  ASSUME NEW S \in SUBSET Nat, NEW x \in S
  PROVE  \E m \in S : \A y \in S : m <= y
<1>. DEFINE U == {u \in 0 .. x : \A v \in 0 .. u : v \notin S}
            k == Cardinality(U)
<1>1. U \in SUBSET Nat /\ U \in SUBSET (0 .. x)
  OBVIOUS
<1>2. IsFiniteSet(U)
  <2>1. 0 \in Int /\ x \in Int
    OBVIOUS
  <2>. QED BY <1>1, <2>1, FS_Interval, FS_Subset
<1>3. \A i \in U : \A j \in 0 .. i : j \in U
  OBVIOUS
<1>4. k \in Nat /\ U = 0 .. k - 1
  <2>. HIDE DEF U
  <2>. QED BY <1>1, <1>2, <1>3, DownClosed
<1>5. x \notin U
  OBVIOUS
<1>6. k <= x
  <2>. HIDE DEF U, k
  <2>. QED BY <1>4, <1>5
<1>7. k \notin U
  <2>. HIDE DEF U, k
  <2>. QED BY <1>4
<1>8. PICK v \in 0 .. k : v \in S
  <2>. HIDE DEF k
  <2>. QED BY <1>4, <1>6, <1>7
<1>9. \A y \in S : k <= y
  <2>1. SUFFICES ASSUME NEW y \in S, y < k
                 PROVE  FALSE
    <3>. HIDE DEF k
    <3>. QED BY <1>4
  <2>2. y \in U
    <3>. HIDE DEF U, k
    <3>. QED BY <1>4, <2>1
  <2>. QED BY <2>2
<1>10. v = k
  <2>. HIDE DEF U, k
  <2>. QED BY <1>4, <1>8, <1>9
<1>. QED BY <1>8, <1>9, <1>10

(* Induction: a set with 0 that is closed under + 1 has every number. *)
LEMMA NatInduct ==
  ASSUME NEW S, 0 \in S, \A n \in Nat : n \in S => n + 1 \in S
  PROVE  \A n \in Nat : n \in S
<1>1. SUFFICES ASSUME NEW x \in Nat, x \notin S
               PROVE  FALSE
  OBVIOUS
<1> DEFINE T == {n \in Nat : n \notin S}
<1>2. PICK m \in T : \A y \in T : m <= y
  <2>1. T \in SUBSET Nat /\ x \in T
    BY <1>1
  <2> HIDE DEF T
  <2> QED BY <2>1, Least
<1>3. m \in Nat /\ m # 0 /\ m \notin S
  BY <1>2
<1>4. m - 1 \in Nat /\ m - 1 \notin T
  BY <1>2, <1>3
<1>5. m - 1 \in S
  BY <1>4
<1> QED
  BY <1>3, <1>4, <1>5

(* Numbers with a bound have a greatest, and a least. *)
LEMMA Greatest ==
  ASSUME NEW S \in SUBSET Int, NEW x \in S, NEW n \in Int, \A y \in S : y <= n
  PROVE  \E m \in S : \A y \in S : m >= y
<1> DEFINE T == {k \in Nat : n - k \in S}
<1>1. T \in SUBSET Nat /\ n - x \in T
  OBVIOUS
<1>2. PICK k \in T : \A j \in T : k <= j
  <2> HIDE DEF T
  <2> QED BY <1>1, Least
<1>3. n - k \in S /\ k \in Nat
  BY <1>2
<1>4. ASSUME NEW y \in S
      PROVE  n - k >= y
  <2>1. n - y \in T
    OBVIOUS
  <2>2. k <= n - y
    <3> HIDE DEF T
    <3> QED BY <1>2, <2>1
  <2> HIDE DEF T
  <2> QED BY <1>3, <2>2
<1> QED BY <1>3, <1>4

(* A sum that is built up step by step exists. *)
LEMMA SumExists ==
  ASSUME NEW n \in Nat, NEW w, \A i \in 0 .. n - 1 : w[i] \in Nat
  PROVE  \E f \in [0 .. n -> Nat] :
           f = [i \in 0 .. n |-> IF i = 0 THEN 0 ELSE f[i - 1] + w[i - 1]]
<1> DEFINE Sum(f, k) == /\ f \in [0 .. k -> Nat]
                        /\ f[0] = 0
                        /\ \A i \in 1 .. k : f[i] = f[i - 1] + w[i - 1]
           S == {k \in Nat : k <= n => \E f : Sum(f, k)}
<1>1. 0 \in S
  <2>1. Sum([i \in 0 .. 0 |-> 0], 0)
    OBVIOUS
  <2> HIDE DEF Sum
  <2> QED BY <2>1
<1>2. ASSUME NEW k \in Nat, k \in S
      PROVE  k + 1 \in S
  <2> SUFFICES ASSUME k + 1 <= n
               PROVE  \E f : Sum(f, k + 1)
    OBVIOUS
  <2>1. PICK f : Sum(f, k)
    BY <1>2
  <2> DEFINE g == [i \in 0 .. k + 1 |-> IF i = k + 1 THEN f[k] + w[k] ELSE f[i]]
  <2>2. f[k] \in Nat /\ w[k] \in Nat /\ \A i \in 0 .. k : f[i] \in Nat
    BY <2>1
  <2>3. g \in [0 .. k + 1 -> Nat] /\ g[0] = 0
    BY <2>1, <2>2
  <2>4. ASSUME NEW i \in 1 .. k + 1
        PROVE  g[i] = g[i - 1] + w[i - 1]
    <3>1. CASE i = k + 1
      BY <3>1
    <3>2. CASE i # k + 1
      <4>1. i \in 1 .. k /\ i \in 0 .. k + 1 /\ i - 1 \in 0 .. k + 1 /\ i - 1 # k + 1
        BY <3>2
      <4> QED BY <4>1, <3>2, <2>1
    <3> QED BY <3>1, <3>2
  <2>5. Sum(g, k + 1)
    <3> HIDE DEF g
    <3> QED BY <2>3, <2>4
  <2> HIDE DEF g, Sum
  <2> QED BY <2>5
<1>3. \A k \in Nat : k \in S
  <2> HIDE DEF S
  <2> QED BY <1>1, <1>2, NatInduct
<1>4. PICK f : Sum(f, n)
  <2>1. n \in S
    BY <1>3
  <2> HIDE DEF Sum
  <2> QED BY <2>1
<1>5. \A i \in 0 .. n : f[i] = IF i = 0 THEN 0 ELSE f[i - 1] + w[i - 1]
  BY <1>4
<1> QED BY <1>4, <1>5

-----------------------------------------------------------------------------
(* s follows the links nxt through L, to its last element before it leaves L. *)
IsPath(s, nxt, L) ==
  /\ s \in Seq(L) /\ Len(s) >= 1
  /\ \A i \in 1 .. Len(s) - 1 : nxt[s[i]] = s[i + 1]
  /\ nxt[s[Len(s)]] \notin L

(* Links lead one way only: a path is as long as any other from its start, and
   has the same elements. *)
LEMMA PathWithin ==
  ASSUME NEW L, NEW nxt, NEW s, NEW t, IsPath(s, nxt, L), IsPath(t, nxt, L),
         s[1] = t[1]
  PROVE  \A i \in 1 .. Len(s) : i \in 1 .. Len(t) /\ s[i] = t[i]
<1> DEFINE S == {n \in Nat : n + 1 \in 1 .. Len(s) =>
                               n + 1 \in 1 .. Len(t) /\ s[n + 1] = t[n + 1]}
<1>1. 0 \in S
  BY DEF IsPath
<1>2. ASSUME NEW n \in Nat, n \in S
      PROVE  n + 1 \in S
  <2> SUFFICES ASSUME n + 2 \in 1 .. Len(s)
               PROVE  n + 2 \in 1 .. Len(t) /\ s[n + 2] = t[n + 2]
    OBVIOUS
  <2>1. /\ n + 1 \in 1 .. Len(s) - 1 /\ n + 1 \in 1 .. Len(t)
        /\ s[n + 1] = t[n + 1] /\ (n + 1) + 1 = n + 2
        /\ Len(s) \in Nat /\ Len(t) \in Nat
    BY <1>2 DEF IsPath
  <2>2. nxt[t[n + 1]] = s[n + 2] /\ s[n + 2] \in L
    BY <2>1 DEF IsPath
  <2>3. n + 1 # Len(t)
    BY <2>2 DEF IsPath
  <2>4. n + 1 \in 1 .. Len(t) - 1
    BY <2>1, <2>3
  <2> QED
    BY <2>1, <2>2, <2>4 DEF IsPath
<1>3. \A n \in Nat : n \in S
  <2> HIDE DEF S
  <2> QED BY <1>1, <1>2, NatInduct
<1> SUFFICES ASSUME NEW i \in 1 .. Len(s)
             PROVE  i \in 1 .. Len(t) /\ s[i] = t[i]
  OBVIOUS
<1>4. Len(s) \in Nat /\ i - 1 \in Nat /\ (i - 1) + 1 = i
  BY DEF IsPath
<1> QED
  BY <1>3, <1>4

LEMMA PathIsUnique ==
  ASSUME NEW L, NEW nxt, NEW s, NEW t, IsPath(s, nxt, L), IsPath(t, nxt, L),
         s[1] = t[1]
  PROVE  s = t
<1>1. \A i \in 1 .. Len(s) : i \in 1 .. Len(t) /\ s[i] = t[i]
  BY PathWithin
<1>2. \A i \in 1 .. Len(t) : i \in 1 .. Len(s) /\ t[i] = s[i]
  BY PathWithin
<1>3. /\ s \in Seq(L) /\ t \in Seq(L)
      /\ Len(s) \in Nat /\ Len(t) \in Nat /\ Len(s) >= 1 /\ Len(t) >= 1
  BY DEF IsPath
<1>4. Len(s) = Len(t)
  <2>1. Len(s) \in 1 .. Len(t) /\ Len(t) \in 1 .. Len(s)
    BY <1>1, <1>2, <1>3
  <2> QED BY <2>1, <1>3
<1> QED
  BY <1>1, <1>3, <1>4

(* What is left of a path from its i-th element on, and a path with one more
   element before it. *)
LEMMA PathSuffix ==
  ASSUME NEW L, NEW nxt, NEW s, IsPath(s, nxt, L), NEW i \in 1 .. Len(s)
  PROVE  /\ IsPath(SubSeq(s, i, Len(s)), nxt, L)
         /\ SubSeq(s, i, Len(s))[1] = s[i]
<1> DEFINE t == SubSeq(s, i, Len(s))
<1>1. s \in Seq(L) /\ Len(s) \in Nat /\ i \in Nat /\ 1 <= i /\ i <= Len(s)
  BY DEF IsPath
<1>2. /\ t \in Seq(L) /\ Len(t) = Len(s) - i + 1
      /\ \A j \in 1 .. Len(t) : t[j] = s[i + j - 1]
  BY <1>1
<1> HIDE DEF t
<1>3. \A j \in 1 .. Len(t) - 1 : nxt[t[j]] = t[j + 1]
  <2> SUFFICES ASSUME NEW j \in 1 .. Len(t) - 1
               PROVE  nxt[t[j]] = t[j + 1]
    OBVIOUS
  <2>1. /\ i + j - 1 \in 1 .. Len(s) - 1
        /\ j \in 1 .. Len(t) /\ j + 1 \in 1 .. Len(t)
        /\ i + (j + 1) - 1 = (i + j - 1) + 1
    BY <1>1, <1>2
  <2> QED
    BY <1>2, <2>1 DEF IsPath
<1>4. t[Len(t)] = s[Len(s)] /\ t[1] = s[i] /\ Len(t) >= 1
  <2>1. /\ 1 \in 1 .. Len(t) /\ Len(t) \in 1 .. Len(t) /\ Len(t) >= 1
        /\ i + 1 - 1 = i /\ i + Len(t) - 1 = Len(s)
    BY <1>1, <1>2
  <2>2. t[1] = s[i + 1 - 1] /\ t[Len(t)] = s[i + Len(t) - 1]
    BY <1>2, <2>1
  <2> QED BY <2>1, <2>2
<1>5. IsPath(t, nxt, L)
  BY <1>2, <1>3, <1>4 DEF IsPath
<1> QED
  BY <1>4, <1>5 DEF t

LEMMA PathPrepend ==
  ASSUME NEW L, NEW nxt, NEW s, IsPath(s, nxt, L), NEW x \in L, nxt[x] = s[1]
  PROVE  IsPath(<<x>> \o s, nxt, L) /\ (<<x>> \o s)[1] = x
<1> DEFINE t == <<x>> \o s
<1>1. s \in Seq(L) /\ Len(s) \in Nat /\ Len(s) >= 1
  BY DEF IsPath
<1>2. /\ t \in Seq(L) /\ Len(t) = Len(s) + 1 /\ t[1] = x
      /\ \A j \in 2 .. Len(t) : t[j] = s[j - 1]
  BY <1>1
<1> HIDE DEF t
<1>3. \A j \in 1 .. Len(t) - 1 : nxt[t[j]] = t[j + 1]
  <2> SUFFICES ASSUME NEW j \in 1 .. Len(t) - 1
               PROVE  nxt[t[j]] = t[j + 1]
    OBVIOUS
  <2>1. CASE j = 1
    BY <2>1, <1>1, <1>2
  <2>2. CASE j # 1
    <3>1. /\ j - 1 \in 1 .. Len(s) - 1 /\ j \in 2 .. Len(t)
          /\ j + 1 \in 2 .. Len(t) /\ (j - 1) + 1 = j /\ (j + 1) - 1 = j
      BY <2>2, <1>1, <1>2
    <3> QED
      BY <3>1, <1>2 DEF IsPath
  <2> QED BY <2>1, <2>2
<1>4. t[Len(t)] = s[Len(s)]
  BY <1>1, <1>2
<1> QED
  BY <1>1, <1>2, <1>3, <1>4 DEF IsPath, t

(* g collects the elements along the links, from each x of E on. *)
Collects(g, nxt, L, E) ==
  g = [x \in E |-> IF x \in L THEN <<x>> \o g[nxt[x]] ELSE << >>]

Collector(nxt, L, E) == CHOOSE g : Collects(g, nxt, L, E)

(* When a path leads on from every element, the recursive function that
   collects the elements along the links exists, and it returns that path. *)
LEMMA PathFunction ==
  ASSUME NEW L, NEW E, L \subseteq E, NEW nxt, \A x \in L : nxt[x] \in E,
         \A x \in L : \E s : IsPath(s, nxt, L) /\ s[1] = x
  PROVE  \E g : Collects(g, nxt, L, E)
<1> DEFINE path(x) == CHOOSE s : IsPath(s, nxt, L) /\ s[1] = x
           g == [x \in E |-> IF x \in L THEN path(x) ELSE << >>]
<1>1. \A x \in L : IsPath(path(x), nxt, L) /\ path(x)[1] = x
  OBVIOUS
<1>2. ASSUME NEW x \in L
      PROVE  path(x) = <<x>> \o g[nxt[x]]
  <2>1. CASE nxt[x] \in L
    <3>1. g[nxt[x]] = path(nxt[x])
      BY <2>1
    <3>2. IsPath(path(nxt[x]), nxt, L) /\ path(nxt[x])[1] = nxt[x]
      BY <1>1, <2>1
    <3> HIDE DEF path, g
    <3>3. /\ IsPath(<<x>> \o path(nxt[x]), nxt, L)
          /\ (<<x>> \o path(nxt[x]))[1] = x
      BY <3>2, PathPrepend
    <3>4. path(x)[1] = x /\ IsPath(path(x), nxt, L)
      BY <1>1
    <3>5. path(x) = <<x>> \o path(nxt[x])
      BY <3>3, <3>4, PathIsUnique
    <3> QED
      BY <3>1, <3>5
  <2>2. CASE nxt[x] \notin L
    <3>1. g[nxt[x]] = << >>
      BY <2>2
    <3> HIDE DEF path, g
    <3>2. IsPath(<<x>>, nxt, L) /\ <<x>>[1] = x
      BY <2>2 DEF IsPath
    <3>3. path(x) = <<x>>
      BY <3>2, <1>1, PathIsUnique
    <3> QED
      BY <3>1, <3>3
  <2> QED BY <2>1, <2>2
<1>3. /\ g = [x \in E |-> g[x]]
      /\ \A x \in E : g[x] = IF x \in L THEN <<x>> \o g[nxt[x]] ELSE << >>
  <2>1. \A x \in E : g[x] = IF x \in L THEN <<x>> \o g[nxt[x]] ELSE << >>
    <3>1. ASSUME NEW x \in E, x \in L
          PROVE  g[x] = path(x)
      BY <3>1
    <3>2. ASSUME NEW x \in E, x \notin L
          PROVE  g[x] = << >>
      BY <3>2
    <3> HIDE DEF g, path
    <3> QED BY <1>2, <3>1, <3>2
  <2>2. g = [x \in E |-> g[x]]
    OBVIOUS
  <2> HIDE DEF g
  <2> QED BY <2>1, <2>2
<1>4. Collects(g, nxt, L, E)
  <2> HIDE DEF g
  <2> QED BY <1>3 DEF Collects
<1> HIDE DEF g
<1> QED BY <1>4

LEMMA PathFunctionValue ==
  ASSUME NEW L, NEW E, L \subseteq E, NEW nxt, \A x \in L : nxt[x] \in E,
         NEW g, Collects(g, nxt, L, E),
         NEW s, IsPath(s, nxt, L)
  PROVE  g[s[1]] = s
<1> DEFINE rest(i) == SubSeq(s, i, Len(s))
           S == {n \in Nat : n < Len(s) => g[s[Len(s) - n]] = rest(Len(s) - n)}
<1>1. s \in Seq(L) /\ Len(s) \in Nat /\ Len(s) >= 1
  BY DEF IsPath
<1>2. \A i \in 1 .. Len(s) : s[i] \in L
  BY <1>1
<1>3. \A x \in L : g[x] = <<x>> \o g[nxt[x]]
  BY DEF Collects
<1>4. \A x \in E : x \notin L => g[x] = << >>
  BY DEF Collects
<1>5. 0 \in S
  <2>1. s[Len(s)] \in L /\ nxt[s[Len(s)]] \in E /\ nxt[s[Len(s)]] \notin L
    BY <1>1, <1>2 DEF IsPath
  <2>2. g[s[Len(s)]] = <<s[Len(s)]>> \o << >>
    BY <2>1, <1>3, <1>4
  <2>3. <<s[Len(s)]>> \o << >> = <<s[Len(s)]>>
    BY <1>1, <1>2
  <2>4. rest(Len(s)) = <<s[Len(s)]>>
    <3>1. /\ rest(Len(s)) \in Seq(L) /\ Len(rest(Len(s))) = 1
          /\ rest(Len(s))[1] = s[Len(s)]
      BY <1>1
    <3>2. /\ <<s[Len(s)]>> \in Seq(L) /\ Len(<<s[Len(s)]>>) = 1
          /\ <<s[Len(s)]>>[1] = s[Len(s)]
      BY <1>1, <1>2
    <3> HIDE DEF rest
    <3> QED BY <3>1, <3>2
  <2>5. Len(s) - 0 = Len(s)
    BY <1>1
  <2> QED
    BY <2>2, <2>3, <2>4, <2>5
<1>6. ASSUME NEW n \in Nat, n \in S, n + 1 < Len(s)
      PROVE  g[s[Len(s) - (n + 1)]] = rest(Len(s) - (n + 1))
  <2> DEFINE i == Len(s) - (n + 1)
  <2>1. /\ i \in 1 .. Len(s) - 1 /\ i + 1 = Len(s) - n /\ i \in 1 .. Len(s)
    BY <1>1, <1>6
  <2>2. g[s[i + 1]] = rest(i + 1)
    <3>1. n < Len(s)
      BY <1>1, <1>6
    <3>2. g[s[Len(s) - n]] = rest(Len(s) - n)
      BY <1>6, <3>1
    <3> HIDE DEF i, rest
    <3> QED BY <2>1, <3>2
  <2> HIDE DEF i
  <2>3. nxt[s[i]] = s[i + 1] /\ s[i] \in L
    BY <1>2, <2>1 DEF IsPath
  <2>4. g[s[i]] = <<s[i]>> \o rest(i + 1)
    BY <1>3, <2>2, <2>3
  <2>5. <<s[i]>> \o SubSeq(s, i + 1, Len(s)) = SubSeq(s, i, Len(s))
    BY <1>1, <2>1
  <2> QED
    BY <2>4, <2>5 DEF i
<1>7. \A n \in Nat : n \in S
  <2>1. \A n \in Nat : n \in S => n + 1 \in S
    <3> HIDE DEF rest
    <3> QED BY <1>6
  <2> HIDE DEF S
  <2> QED BY <1>5, <2>1, NatInduct
<1>8. g[s[Len(s) - (Len(s) - 1)]] = rest(Len(s) - (Len(s) - 1))
  <2>1. Len(s) - 1 \in Nat /\ Len(s) - 1 < Len(s)
    BY <1>1
  <2>2. Len(s) - 1 \in S
    BY <1>7, <2>1
  <2> HIDE DEF rest
  <2> QED BY <2>1, <2>2
<1>9. Len(s) - (Len(s) - 1) = 1 /\ rest(1) = s
  BY <1>1
<1> QED
  BY <1>8, <1>9

-----------------------------------------------------------------------------
(* s follows the links nxt from first through L, and its last link is end: a
   linked list with its sentinel. *)
IsChain(s, nxt, first, L, end) ==
  /\ s \in Seq(L)
  /\ first = IF Len(s) = 0 THEN end ELSE s[1]
  /\ \A i \in 1 .. Len(s) : nxt[s[i]] = IF i = Len(s) THEN end ELSE s[i + 1]

(* s without its k-th element. *)
Without(s, k) == [j \in 1 .. Len(s) - 1 |-> IF j < k THEN s[j] ELSE s[j + 1]]

LEMMA WithoutSeq ==
  ASSUME NEW L, NEW s \in Seq(L), NEW k \in 1 .. Len(s)
  PROVE  /\ Without(s, k) \in Seq(L) /\ Len(Without(s, k)) = Len(s) - 1
         /\ \A j \in 1 .. Len(s) - 1 :
              Without(s, k)[j] = IF j < k THEN s[j] ELSE s[j + 1]
<1>1. Len(s) \in Nat /\ Len(s) - 1 \in Nat /\ \A j \in 1 .. Len(s) : s[j] \in L
  OBVIOUS
<1>2. Without(s, k) \in [1 .. Len(s) - 1 -> L]
  BY <1>1 DEF Without
<1> QED BY <1>1, <1>2 DEF Without

(* A chain that is not empty is a path, and from each of its elements there is
   one. *)
LEMMA ChainIsPath ==
  ASSUME NEW L, NEW nxt, NEW first, NEW end, end \notin L, NEW s,
         IsChain(s, nxt, first, L, end), Len(s) # 0
  PROVE  IsPath(s, nxt, L) /\ s[1] = first /\ first \in L
BY DEF IsChain, IsPath

LEMMA ChainPaths ==
  ASSUME NEW L, NEW nxt, NEW first, NEW end, end \notin L, NEW s,
         IsChain(s, nxt, first, L, end), NEW i \in 1 .. Len(s)
  PROVE  \E p : IsPath(p, nxt, L) /\ p[1] = s[i]
<1>1. IsPath(s, nxt, L)
  BY ChainIsPath DEF IsChain
<1> QED BY <1>1, PathSuffix

(* No element is in s twice. *)
Distinct(s) == \A i, j \in 1 .. Len(s) : s[i] = s[j] => i = j

(* Two places of the same element have the same way to the end: so there are no
   two in a chain, and none in two chains that end differently. *)
LEMMA ChainInjective ==
  ASSUME NEW L, NEW nxt, NEW first, NEW end, end \notin L, NEW s,
         IsChain(s, nxt, first, L, end)
  PROVE  Distinct(s)
<1> SUFFICES ASSUME NEW i \in 1 .. Len(s), NEW j \in 1 .. Len(s), s[i] = s[j]
             PROVE  i = j
  BY DEF Distinct
<1>1. IsPath(s, nxt, L) /\ s \in Seq(L) /\ Len(s) \in Nat
  BY ChainIsPath DEF IsChain
<1>2. SubSeq(s, i, Len(s)) = SubSeq(s, j, Len(s))
  <2>1. /\ IsPath(SubSeq(s, i, Len(s)), nxt, L) /\ SubSeq(s, i, Len(s))[1] = s[i]
        /\ IsPath(SubSeq(s, j, Len(s)), nxt, L) /\ SubSeq(s, j, Len(s))[1] = s[j]
    BY <1>1, PathSuffix
  <2> QED BY <2>1, PathIsUnique
<1>3. /\ Len(SubSeq(s, i, Len(s))) = Len(s) - i + 1
      /\ Len(SubSeq(s, j, Len(s))) = Len(s) - j + 1
  BY <1>1
<1> QED BY <1>1, <1>2, <1>3

LEMMA ChainsApart ==
  ASSUME NEW L, NEW nxt, NEW first1, NEW end1, NEW first2, NEW end2,
         end1 \notin L, end2 \notin L, end1 # end2,
         NEW s, IsChain(s, nxt, first1, L, end1),
         NEW t, IsChain(t, nxt, first2, L, end2)
  PROVE  \A i \in 1 .. Len(s), j \in 1 .. Len(t) : s[i] # t[j]
<1> SUFFICES ASSUME NEW i \in 1 .. Len(s), NEW j \in 1 .. Len(t), s[i] = t[j]
             PROVE  FALSE
  OBVIOUS
<1>1. /\ IsPath(s, nxt, L) /\ s \in Seq(L) /\ Len(s) \in Nat
      /\ IsPath(t, nxt, L) /\ t \in Seq(L) /\ Len(t) \in Nat
  BY ChainIsPath DEF IsChain
<1> DEFINE p == SubSeq(s, i, Len(s))
           q == SubSeq(t, j, Len(t))
<1>2. p = q
  <2>1. /\ IsPath(p, nxt, L) /\ p[1] = s[i] /\ IsPath(q, nxt, L) /\ q[1] = t[j]
    BY <1>1, PathSuffix
  <2> HIDE DEF p, q
  <2> QED BY <2>1, PathIsUnique
<1>3. /\ Len(p) = Len(s) - i + 1 /\ p[Len(s) - i + 1] = s[Len(s)]
      /\ Len(q) = Len(t) - j + 1 /\ q[Len(t) - j + 1] = t[Len(t)]
  BY <1>1
<1>4. nxt[s[Len(s)]] = end1 /\ nxt[t[Len(t)]] = end2
  BY <1>1 DEF IsChain
<1> HIDE DEF p, q
<1> QED BY <1>2, <1>3, <1>4

-----------------------------------------------------------------------------
(* A chain as its links change: links elsewhere, a new element at either end,
   or an element taken out. *)
LEMMA ChainKept ==
  ASSUME NEW L, NEW M, NEW nxt, NEW nx2, NEW first, NEW end, NEW s,
         IsChain(s, nxt, first, L, end), \A i \in 1 .. Len(s) : s[i] \in M,
         \A i \in 1 .. Len(s) : nx2[s[i]] = nxt[s[i]]
  PROVE  IsChain(s, nx2, first, M, end)
BY DEF IsChain

LEMMA ChainPush ==
  ASSUME NEW L, NEW nxt, NEW nx2, NEW first, NEW end, NEW s,
         IsChain(s, nxt, first, L, end), NEW e \in L, nx2[e] = first,
         \A i \in 1 .. Len(s) : nx2[s[i]] = nxt[s[i]]
  PROVE  /\ IsChain(<<e>> \o s, nx2, e, L, end)
         /\ Len(<<e>> \o s) = Len(s) + 1 /\ (<<e>> \o s)[1] = e
         /\ \A i \in 2 .. Len(s) + 1 : (<<e>> \o s)[i] = s[i - 1]
<1> DEFINE t == <<e>> \o s
<1>1. /\ s \in Seq(L) /\ Len(s) \in Nat /\ t \in Seq(L) /\ Len(t) = Len(s) + 1
      /\ t[1] = e /\ \A i \in 2 .. Len(s) + 1 : t[i] = s[i - 1]
  BY DEF IsChain
<1>2. ASSUME NEW i \in 1 .. Len(s) + 1
      PROVE  nx2[t[i]] = IF i = Len(s) + 1 THEN end ELSE t[i + 1]
  <2>1. CASE i = 1
    <3> HIDE DEF t
    <3> QED BY <1>1, <2>1 DEF IsChain
  <2>2. CASE i # 1
    <3>1. /\ i - 1 \in 1 .. Len(s) /\ i \in 2 .. Len(s) + 1
          /\ i # Len(s) + 1 => i + 1 \in 2 .. Len(s) + 1 /\ (i + 1) - 1 = (i - 1) + 1
          /\ i - 1 = Len(s) <=> i = Len(s) + 1
      BY <1>1, <2>2
    <3>2. nxt[s[i - 1]] = IF i - 1 = Len(s) THEN end ELSE s[(i - 1) + 1]
      BY <3>1 DEF IsChain
    <3> HIDE DEF t
    <3> QED BY <1>1, <3>1, <3>2
  <2> QED BY <2>1, <2>2
<1> HIDE DEF t
<1>3. IsChain(t, nx2, e, L, end)
  BY <1>1, <1>2 DEF IsChain
<1> QED BY <1>1, <1>3 DEF t

LEMMA ChainAppend ==
  ASSUME NEW L, NEW nxt, NEW nx2, NEW first, NEW first2, NEW end, NEW s,
         IsChain(s, nxt, first, L, end), NEW e \in L, nx2[e] = end,
         first2 = IF Len(s) = 0 THEN e ELSE first,
         \A i \in 1 .. Len(s) : nx2[s[i]] = IF i = Len(s) THEN e ELSE nxt[s[i]]
  PROVE  IsChain(Append(s, e), nx2, first2, L, end)
<1>1. /\ s \in Seq(L) /\ Len(s) \in Nat /\ Append(s, e) \in Seq(L)
      /\ Len(Append(s, e)) = Len(s) + 1
      /\ \A i \in 1 .. Len(s) + 1 : Append(s, e)[i] = IF i = Len(s) + 1 THEN e ELSE s[i]
  BY DEF IsChain
<1> QED BY <1>1 DEF IsChain

LEMMA ChainWithout ==
  ASSUME NEW L, NEW nxt, NEW nx2, NEW first, NEW first2, NEW end, NEW s,
         IsChain(s, nxt, first, L, end), NEW k \in 1 .. Len(s),
         first2 = IF k = 1 THEN nxt[s[1]] ELSE first,
         k # 1 => nx2[s[k - 1]] = nxt[s[k]],
         \A i \in 1 .. Len(s) : i \notin {k - 1, k} => nx2[s[i]] = nxt[s[i]]
  PROVE  IsChain(Without(s, k), nx2, first2, L, end)
<1> DEFINE t == Without(s, k)
<1>1. /\ s \in Seq(L) /\ Len(s) \in Nat /\ t \in Seq(L) /\ Len(t) = Len(s) - 1
      /\ \A j \in 1 .. Len(s) - 1 : t[j] = IF j < k THEN s[j] ELSE s[j + 1]
  BY WithoutSeq DEF IsChain
<1>2. ASSUME NEW j \in 1 .. Len(s) - 1
      PROVE  nx2[t[j]] = IF j = Len(s) - 1 THEN end ELSE t[j + 1]
  <2> HIDE DEF t
  <2>1. CASE j > k - 1
    <3>1. /\ t[j] = s[j + 1] /\ j + 1 \in 1 .. Len(s) /\ j + 1 \notin {k - 1, k}
          /\ j # Len(s) - 1 => t[j + 1] = s[(j + 1) + 1]
      BY <1>1, <2>1
    <3> QED BY <3>1, <1>1 DEF IsChain
  <2>2. CASE j < k - 1
    <3>1. /\ t[j] = s[j] /\ j \in 1 .. Len(s) /\ j \notin {k - 1, k}
          /\ j # Len(s) /\ j # Len(s) - 1 /\ t[j + 1] = s[j + 1]
      BY <1>1, <2>2
    <3> QED BY <3>1, <1>1 DEF IsChain
  <2>3. CASE j = k - 1
    <3>1. /\ t[j] = s[k - 1] /\ k # 1 /\ nxt[s[k]] = IF k = Len(s) THEN end ELSE s[k + 1]
          /\ j # Len(s) - 1 => t[j + 1] = s[k + 1]
      BY <1>1, <2>3 DEF IsChain
    <3> QED BY <3>1, <1>1, <2>3
  <2> QED BY <1>1, <2>1, <2>2, <2>3
<1>3. first2 = IF Len(t) = 0 THEN end ELSE t[1]
  <2> HIDE DEF t
  <2> QED BY <1>1 DEF IsChain
<1> HIDE DEF t
<1>4. IsChain(t, nx2, first2, L, end)
  BY <1>1, <1>2, <1>3 DEF IsChain
<1> QED BY <1>4 DEF t

(* A function that goes on along the links, from number to number, exists. *)
Goes(f, links, e, n) == f = [i \in 0 .. n |-> IF i = 0 THEN e ELSE links[f[i - 1]]]

LEMMA GoesExists ==
  ASSUME NEW n \in Nat, NEW e, NEW links
  PROVE  \E f : Goes(f, links, e, n)
<1> DEFINE Steps(f, k) == Goes(f, links, e, k)
           S == {k \in Nat : \E f : Steps(f, k)}
<1>1. 0 \in S
  <2>1. Steps([i \in 0 .. 0 |-> e], 0)
    BY DEF Goes
  <2> HIDE DEF Steps
  <2> QED BY <2>1
<1>2. ASSUME NEW k \in Nat, k \in S
      PROVE  k + 1 \in S
  <2>1. PICK f : Steps(f, k)
    BY <1>2
  <2> DEFINE g == [i \in 0 .. k + 1 |-> IF i = k + 1 THEN links[f[k]] ELSE f[i]]
  <2>2. ASSUME NEW i \in 0 .. k + 1
        PROVE  g[i] = IF i = 0 THEN e ELSE links[g[i - 1]]
    <3>1. CASE i = k + 1
      BY <3>1 DEF Goes
    <3>2. CASE i # k + 1
      <4>1. /\ i \in 0 .. k /\ g[i] = f[i]
            /\ i # 0 => i - 1 \in 0 .. k /\ g[i - 1] = f[i - 1]
        BY <3>2
      <4>2. f[i] = IF i = 0 THEN e ELSE links[f[i - 1]]
        BY <2>1, <4>1 DEF Goes
      <4> HIDE DEF g
      <4> QED BY <4>1, <4>2
    <3> QED BY <3>1, <3>2
  <2>3. g = [i \in 0 .. k + 1 |-> g[i]]
    OBVIOUS
  <2>4. Steps(g, k + 1)
    <3> HIDE DEF g
    <3> QED BY <2>2, <2>3 DEF Goes
  <2> HIDE DEF Steps
  <2> QED BY <2>4
<1>3. n \in S
  <2> HIDE DEF S
  <2> QED BY <1>1, <1>2, NatInduct
<1> QED BY <1>3

-----------------------------------------------------------------------------
(* Lists in a pool of cells 1 .. M, the first ct of which were ever used: c[l]
   is list l, between its sentinels hd[l] and tl[l], f the free cells from fl
   on.  0 is the null link. *)
Has(s, x) == \E i \in 1 .. Len(s) : s[i] = x

Sentinels(hd, tl, D, M) ==
  \A l \in D : /\ hd[l] \notin 0 .. M /\ tl[l] \notin 0 .. M
               /\ \A m \in D : /\ hd[l] # tl[m]
                               /\ l # m => hd[l] # hd[m] /\ tl[l] # tl[m]

Nodes(hd, tl, D, M) == (1 .. M) \cup {hd[m] : m \in D} \cup {tl[m] : m \in D}

Linked(c, f, nxt, fl, ct, hd, tl, M) ==
  /\ ct \in 0 .. M
  /\ \A l \in DOMAIN c : /\ IsChain(c[l], nxt, nxt[hd[l]], 1 .. ct, tl[l])
                         /\ nxt[tl[l]] = tl[l]
  /\ IsChain(f, nxt, fl, 1 .. ct, 0)
  /\ \A x \in 1 .. ct : Has(f, x) \/ \E l \in DOMAIN c : Has(c[l], x)
  /\ \A x \in 1 .. M : x > ct => nxt[x] = 0

(* The cell of a new element, and what is left of the pool. *)
CellFor(fl, ct) == IF fl # 0 THEN fl ELSE ct + 1
CutThen(fl, ct) == IF fl = 0 THEN ct + 1 ELSE ct
FreeThen(nxt, fl) == IF fl = 0 THEN 0 ELSE nxt[fl]
RestFree(f) == IF Len(f) = 0 THEN f ELSE Without(f, 1)

(* Every cell that was used is in one place only. *)
LEMMA LinkedApart ==
  ASSUME NEW M \in Nat, NEW hd, NEW tl, NEW D, Sentinels(hd, tl, D, M),
         NEW c, DOMAIN c \subseteq D, NEW f, NEW nxt, NEW fl, NEW ct,
         Linked(c, f, nxt, fl, ct, hd, tl, M)
  PROVE  /\ Distinct(f)
         /\ \A l \in DOMAIN c : Distinct(c[l])
         /\ \A l \in DOMAIN c : \A x : ~(Has(c[l], x) /\ Has(f, x))
         /\ \A l, m \in DOMAIN c : \A x : Has(c[l], x) /\ Has(c[m], x) => l = m
<1>1. /\ IsChain(f, nxt, fl, 1 .. ct, 0) /\ 0 \notin 1 .. ct
      /\ \A l \in DOMAIN c : /\ IsChain(c[l], nxt, nxt[hd[l]], 1 .. ct, tl[l])
                             /\ tl[l] \notin 1 .. ct /\ tl[l] # 0
      /\ \A l, m \in DOMAIN c : l # m => tl[l] # tl[m]
  BY DEF Linked, Sentinels
<1>2. Distinct(f)
  <2>1. IsChain(f, nxt, fl, 1 .. ct, 0) /\ 0 \notin 1 .. ct
    BY <1>1
  <2> QED BY <2>1, ChainInjective
<1>3. ASSUME NEW l \in DOMAIN c
      PROVE  Distinct(c[l])
  <2>1. IsChain(c[l], nxt, nxt[hd[l]], 1 .. ct, tl[l]) /\ tl[l] \notin 1 .. ct
    BY <1>1
  <2> QED BY <2>1, ChainInjective
<1>4. ASSUME NEW l \in DOMAIN c, NEW x, Has(c[l], x), Has(f, x)
      PROVE  FALSE
  <2>1. \A i \in 1 .. Len(c[l]), j \in 1 .. Len(f) : c[l][i] # f[j]
    BY <1>1, ChainsApart
  <2> QED BY <2>1, <1>4 DEF Has
<1>5. ASSUME NEW l \in DOMAIN c, NEW m \in DOMAIN c, NEW x, Has(c[l], x), Has(c[m], x), l # m
      PROVE  FALSE
  <2>1. \A i \in 1 .. Len(c[l]), j \in 1 .. Len(c[m]) : c[l][i] # c[m][j]
    BY <1>1, <1>5, ChainsApart
  <2> QED BY <2>1, <1>5 DEF Has
<1> QED BY <1>2, <1>3, <1>4, <1>5

(* The recursive function that collects elements finds each list and the free
   ones. *)
LEMMA LinkedCollected ==
  ASSUME NEW M \in Nat, NEW hd, NEW tl, NEW D, Sentinels(hd, tl, D, M),
         NEW c, DOMAIN c \subseteq D, NEW f, NEW nxt, NEW fl, NEW ct,
         Linked(c, f, nxt, fl, ct, hd, tl, M),
         NEW E, Nodes(hd, tl, D, M) \cup {0} \subseteq E,
         \A x \in 1 .. M : nxt[x] \in E
  PROVE  /\ Collector(nxt, 1 .. M, E)[fl] = f
         /\ \A l \in DOMAIN c : Collector(nxt, 1 .. M, E)[nxt[hd[l]]] = c[l]
<1> DEFINE g == Collector(nxt, 1 .. M, E)
<1>1. /\ ct \in 0 .. M /\ 0 \notin 1 .. M /\ 1 .. M \subseteq E /\ 0 \in E
      /\ IsChain(f, nxt, fl, 1 .. M, 0)
      /\ \A l \in DOMAIN c : /\ IsChain(c[l], nxt, nxt[hd[l]], 1 .. M, tl[l])
                             /\ tl[l] \notin 1 .. M /\ tl[l] \in E
  <2>1. ASSUME NEW s, NEW first, NEW end, IsChain(s, nxt, first, 1 .. ct, end)
        PROVE  IsChain(s, nxt, first, 1 .. M, end)
    <3>1. \A i \in 1 .. Len(s) : s[i] \in 1 .. M
      BY <2>1 DEF IsChain, Linked
    <3> QED BY <2>1, <3>1, ChainKept
  <2> QED BY <2>1 DEF Linked, Sentinels, Nodes
<1>2. ASSUME NEW x \in 1 .. M
      PROVE  \E p : IsPath(p, nxt, 1 .. M) /\ p[1] = x
  <2>1. CASE x \in 1 .. ct /\ Has(f, x)
    BY <2>1, <1>1, ChainPaths DEF Has
  <2>2. CASE \E l \in DOMAIN c : Has(c[l], x)
    <3>1. PICK l \in DOMAIN c : Has(c[l], x)
      BY <2>2
    <3> QED BY <3>1, <1>1, ChainPaths DEF Has
  <2>3. CASE x > ct
    <3>1. IsPath(<<x>>, nxt, 1 .. M) /\ <<x>>[1] = x
      BY <2>3, <1>1 DEF Linked, IsPath
    <3> QED BY <3>1
  <2> QED BY <1>1, <2>1, <2>2, <2>3 DEF Linked
<1>3. Collects(g, nxt, 1 .. M, E)
  BY <1>1, <1>2, PathFunction DEF Collector
<1> HIDE DEF g
<1>4. ASSUME NEW s, NEW first, NEW end \in E \ (1 .. M), IsChain(s, nxt, first, 1 .. M, end)
      PROVE  g[first] = s
  <2>1. CASE Len(s) = 0
    BY <1>3, <1>4, <2>1 DEF Collects, IsChain
  <2>2. CASE Len(s) # 0
    <3>1. IsPath(s, nxt, 1 .. M) /\ s[1] = first
      BY <1>4, <2>2, ChainIsPath
    <3> QED BY <1>1, <1>3, <3>1, PathFunctionValue
  <2> QED BY <2>1, <2>2
<1>5. g[fl] = f /\ \A l \in DOMAIN c : g[nxt[hd[l]]] = c[l]
  BY <1>1, <1>4
<1> QED BY <1>5 DEF g

(* A cell leaves the pool. *)
LEMMA NewCell ==
  ASSUME NEW M \in Nat, NEW hd, NEW tl, NEW D, Sentinels(hd, tl, D, M),
         NEW c, DOMAIN c \subseteq D, NEW f, NEW nxt, NEW fl, NEW ct,
         Linked(c, f, nxt, fl, ct, hd, tl, M),
         NEW e \in 1 .. M, e = CellFor(fl, ct)
  PROVE  /\ CutThen(fl, ct) \in ct .. M /\ e \in 1 .. CutThen(fl, ct)
         /\ IsChain(RestFree(f), nxt, FreeThen(nxt, fl), 1 .. CutThen(fl, ct), 0)
         /\ ~Has(RestFree(f), e)
         /\ \A l \in DOMAIN c :
              /\ IsChain(c[l], nxt, nxt[hd[l]], 1 .. CutThen(fl, ct), tl[l])
              /\ ~Has(c[l], e)
         /\ \A x \in 1 .. CutThen(fl, ct) :
              x = e \/ Has(RestFree(f), x) \/ \E l \in DOMAIN c : Has(c[l], x)
         /\ \A x \in 1 .. M : x > CutThen(fl, ct) => nxt[x] = 0
<1> DEFINE ct2 == CutThen(fl, ct)
           f2 == RestFree(f)
<1>1. /\ ct \in 0 .. M /\ ct \in Nat /\ f \in Seq(1 .. ct) /\ Len(f) \in Nat
      /\ fl = IF Len(f) = 0 THEN 0 ELSE f[1]
      /\ \A i \in 1 .. Len(f) : f[i] \in 1 .. ct
      /\ \A l \in DOMAIN c : \A i \in 1 .. Len(c[l]) : c[l][i] \in 1 .. ct
  BY DEF Linked, IsChain
<1>2. ASSUME NEW s, NEW first, NEW end, IsChain(s, nxt, first, 1 .. ct, end), ct2 \in ct .. M
      PROVE  IsChain(s, nxt, first, 1 .. ct2, end)
  <2>1. \A i \in 1 .. Len(s) : s[i] \in 1 .. ct2
    BY <1>1, <1>2 DEF IsChain
  <2> QED BY <1>2, <2>1, ChainKept
<1>3. CASE Len(f) = 0
  <2>1. /\ ct2 = ct + 1 /\ f2 = f /\ e = ct + 1 /\ fl = 0 /\ FreeThen(nxt, fl) = 0
        /\ ct2 \in ct .. M
    BY <1>1, <1>3 DEF CutThen, RestFree, CellFor, FreeThen
  <2>2. IsChain(f2, nxt, FreeThen(nxt, fl), 1 .. ct2, 0)
    BY <1>2, <2>1 DEF Linked
  <2>3. \A l \in DOMAIN c : IsChain(c[l], nxt, nxt[hd[l]], 1 .. ct2, tl[l])
    BY <1>2, <2>1 DEF Linked
  <2>4. ~Has(f2, e) /\ \A l \in DOMAIN c : ~Has(c[l], e)
    BY <1>1, <2>1 DEF Has
  <2>5. \A x \in 1 .. ct2 : x = e \/ Has(f2, x) \/ \E l \in DOMAIN c : Has(c[l], x)
    BY <1>1, <2>1 DEF Linked
  <2>6. \A x \in 1 .. M : x > ct2 => nxt[x] = 0
    BY <1>1, <2>1 DEF Linked
  <2> QED BY <1>1, <2>1, <2>2, <2>3, <2>4, <2>5, <2>6
<1>4. CASE Len(f) # 0
  <2>1. /\ 1 \in 1 .. Len(f) /\ f2 = Without(f, 1) /\ fl = f[1] /\ fl \in 1 .. ct
        /\ ct2 = ct /\ e = f[1] /\ FreeThen(nxt, fl) = nxt[f[1]] /\ ct2 \in ct .. M
    BY <1>1, <1>4 DEF CutThen, RestFree, CellFor, FreeThen
  <2>2. /\ f2 \in Seq(1 .. ct) /\ Len(f2) = Len(f) - 1
        /\ \A j \in 1 .. Len(f) - 1 : f2[j] = f[j + 1]
    <3>1. /\ Without(f, 1) \in Seq(1 .. ct) /\ Len(Without(f, 1)) = Len(f) - 1
          /\ \A j \in 1 .. Len(f) - 1 :
               Without(f, 1)[j] = IF j < 1 THEN f[j] ELSE f[j + 1]
      BY <1>1, <2>1, WithoutSeq
    <3> HIDE DEF f2
    <3> QED BY <2>1, <3>1
  <2>3. IsChain(f2, nxt, FreeThen(nxt, fl), 1 .. ct2, 0)
    <3>1. IsChain(f, nxt, fl, 1 .. ct, 0)
      BY DEF Linked
    <3> QED BY <2>1, <3>1, ChainWithout
  <2>4. ~Has(f2, e)
    <3> SUFFICES ASSUME NEW j \in 1 .. Len(f) - 1, f2[j] = f[1]
                 PROVE  FALSE
      BY <2>1, <2>2 DEF Has
    <3>1. f[j + 1] = f[1] /\ j + 1 \in 1 .. Len(f) /\ j + 1 # 1
      BY <1>1, <2>2
    <3>2. Distinct(f)
      BY LinkedApart
    <3> QED BY <2>1, <3>1, <3>2 DEF Distinct
  <2>5. \A l \in DOMAIN c : ~Has(c[l], e)
    <3>1. Has(f, e)
      BY <2>1 DEF Has
    <3> QED BY <3>1, LinkedApart
  <2>6. \A x \in 1 .. ct2 : x = e \/ Has(f2, x) \/ \E l \in DOMAIN c : Has(c[l], x)
    <3> SUFFICES ASSUME NEW x \in 1 .. ct, Has(f, x), x # e
                 PROVE  Has(f2, x)
      BY <2>1 DEF Linked
    <3>1. PICK i \in 1 .. Len(f) : f[i] = x
      BY DEF Has
    <3>2. i - 1 \in 1 .. Len(f) - 1 /\ (i - 1) + 1 = i
      BY <1>1, <2>1, <3>1
    <3>3. f2[i - 1] = x /\ i - 1 \in 1 .. Len(f2)
      BY <2>2, <3>1, <3>2
    <3> QED BY <3>3 DEF Has
  <2>7. \A l \in DOMAIN c : IsChain(c[l], nxt, nxt[hd[l]], 1 .. ct2, tl[l])
    BY <2>1 DEF Linked
  <2>8. \A x \in 1 .. M : x > ct2 => nxt[x] = 0
    BY <2>1 DEF Linked
  <2> QED BY <2>1, <2>3, <2>4, <2>5, <2>6, <2>7, <2>8
<1> QED BY <1>3, <1>4

(* The elements of a sequence with one more, at the front or the back, or one
   less. *)
LEMMA HasPush ==
  ASSUME NEW L, NEW s \in Seq(L), NEW e \in L
  PROVE  \A x : Has(<<e>> \o s, x) <=> x = e \/ Has(s, x)
<1>1. /\ Len(s) \in Nat /\ Len(<<e>> \o s) = Len(s) + 1 /\ (<<e>> \o s)[1] = e
      /\ \A i \in 1 .. Len(s) + 1 : i # 1 => (<<e>> \o s)[i] = s[i - 1]
  OBVIOUS
<1> DEFINE t == <<e>> \o s
<1> HIDE DEF t
<1>2. ASSUME NEW x, Has(t, x), x # e
      PROVE  Has(s, x)
  <2>1. PICK i \in 1 .. Len(s) + 1 : t[i] = x
    BY <1>1, <1>2 DEF Has, t
  <2>2. i # 1 /\ i - 1 \in 1 .. Len(s) /\ s[i - 1] = x
    BY <1>1, <1>2, <2>1 DEF t
  <2> QED BY <2>2 DEF Has
<1>3. ASSUME NEW x, Has(s, x)
      PROVE  Has(t, x)
  <2>1. PICK i \in 1 .. Len(s) : s[i] = x
    BY <1>3 DEF Has
  <2>2. i + 1 \in 1 .. Len(s) + 1 /\ i + 1 # 1 /\ (i + 1) - 1 = i
    BY <1>1
  <2>3. i + 1 \in 1 .. Len(t) /\ t[i + 1] = x
    BY <1>1, <2>1, <2>2 DEF t
  <2> QED BY <2>3 DEF Has
<1>4. Has(t, e)
  <2>1. 1 \in 1 .. Len(t) /\ t[1] = e
    BY <1>1 DEF t
  <2> QED BY <2>1 DEF Has
<1>5. \A x : Has(t, x) <=> x = e \/ Has(s, x)
  BY <1>2, <1>3, <1>4
<1> QED BY <1>5 DEF t

LEMMA HasAppend ==
  ASSUME NEW L, NEW s \in Seq(L), NEW e \in L
  PROVE  \A x : Has(Append(s, e), x) <=> x = e \/ Has(s, x)
<1>1. /\ Len(s) \in Nat /\ Len(Append(s, e)) = Len(s) + 1
      /\ \A i \in 1 .. Len(s) + 1 : Append(s, e)[i] = IF i = Len(s) + 1 THEN e ELSE s[i]
  OBVIOUS
<1> DEFINE t == Append(s, e)
<1> HIDE DEF t
<1>2. ASSUME NEW x, Has(t, x), x # e
      PROVE  Has(s, x)
  <2>1. PICK i \in 1 .. Len(s) + 1 : t[i] = x
    BY <1>1, <1>2 DEF Has, t
  <2>2. i \in 1 .. Len(s) /\ s[i] = x
    BY <1>1, <1>2, <2>1 DEF t
  <2> QED BY <2>2 DEF Has
<1>3. ASSUME NEW x, Has(s, x)
      PROVE  Has(t, x)
  <2>1. PICK i \in 1 .. Len(s) : s[i] = x
    BY <1>3 DEF Has
  <2>2. i \in 1 .. Len(t) /\ t[i] = x
    BY <1>1, <2>1 DEF t
  <2> QED BY <2>2 DEF Has
<1>4. Has(t, e)
  <2>1. Len(s) + 1 \in 1 .. Len(t) /\ t[Len(s) + 1] = e
    BY <1>1 DEF t
  <2> QED BY <2>1 DEF Has
<1>5. \A x : Has(t, x) <=> x = e \/ Has(s, x)
  BY <1>2, <1>3, <1>4
<1> QED BY <1>5 DEF t

LEMMA HasWithout ==
  ASSUME NEW L, NEW s \in Seq(L), Distinct(s), NEW k \in 1 .. Len(s)
  PROVE  \A x : Has(Without(s, k), x) <=> Has(s, x) /\ x # s[k]
<1> DEFINE t == Without(s, k)
<1>1. /\ Len(s) \in Nat /\ Len(t) = Len(s) - 1
      /\ \A j \in 1 .. Len(s) - 1 : t[j] = IF j < k THEN s[j] ELSE s[j + 1]
  BY WithoutSeq
<1> HIDE DEF t
<1>2. ASSUME NEW x, Has(t, x)
      PROVE  Has(s, x) /\ x # s[k]
  <2>1. PICK j \in 1 .. Len(s) - 1 : t[j] = x
    BY <1>1, <1>2 DEF Has
  <2>2. PICK i \in 1 .. Len(s) : s[i] = x /\ i # k
    <3>1. CASE j < k
      BY <1>1, <2>1, <3>1
    <3>2. CASE ~(j < k)
      <4>1. j + 1 \in 1 .. Len(s) /\ s[j + 1] = x /\ j + 1 # k
        BY <1>1, <2>1, <3>2
      <4> QED BY <4>1
    <3> QED BY <3>1, <3>2
  <2>3. s[k] # s[i]
    BY <2>2 DEF Distinct
  <2> QED BY <2>2, <2>3 DEF Has
<1>3. ASSUME NEW x, Has(s, x), x # s[k]
      PROVE  Has(t, x)
  <2>1. PICK i \in 1 .. Len(s) : s[i] = x /\ i # k
    BY <1>3 DEF Has
  <2>2. CASE i < k
    <3>1. i \in 1 .. Len(t) /\ t[i] = x
      BY <1>1, <2>1, <2>2
    <3> QED BY <3>1 DEF Has
  <2>3. CASE i > k
    <3>1. i - 1 \in 1 .. Len(t) /\ i - 1 \in 1 .. Len(s) - 1 /\ ~(i - 1 < k) /\ (i - 1) + 1 = i
      BY <1>1, <2>1, <2>3
    <3>2. t[i - 1] = x
      BY <1>1, <2>1, <3>1
    <3> QED BY <3>1, <3>2 DEF Has
  <2> QED BY <1>1, <2>1, <2>2, <2>3
<1> QED BY <1>2, <1>3 DEF t

(* A chain lies where its elements do, and is the same in links that agree on
   them. *)
LEMMA ChainIn ==
  ASSUME NEW L, NEW nxt, NEW first, NEW end, NEW s, IsChain(s, nxt, first, L, end)
  PROVE  /\ s \in Seq(L) /\ Len(s) \in Nat
         /\ \A i \in 1 .. Len(s) : s[i] \in L
         /\ \A x : Has(s, x) => x \in L
BY DEF IsChain, Has

LEMMA ChainStays ==
  ASSUME NEW L, NEW K, NEW nxt, NEW nx2, NEW first, NEW end, NEW s,
         IsChain(s, nxt, first, L, end),
         \A x : Has(s, x) => x \in K /\ nx2[x] = nxt[x]
  PROVE  /\ IsChain(s, nx2, first, K, end)
         /\ \A i \in 1 .. Len(s) : nx2[s[i]] = nxt[s[i]]
<1>1. \A i \in 1 .. Len(s) : s[i] \in K /\ nx2[s[i]] = nxt[s[i]]
  BY DEF Has
<1> QED BY <1>1, ChainKept

(* One list and the free list have changed, and the others have not. *)
With(c, l, s) == [m \in DOMAIN c \cup {l} |-> IF m = l THEN s ELSE c[m]]

LEMMA Relinked ==
  ASSUME NEW M \in Nat, NEW hd, NEW tl,
         NEW c, NEW f, NEW nxt, NEW fl, NEW ct, Linked(c, f, nxt, fl, ct, hd, tl, M),
         NEW l, NEW s, NEW f2, NEW nx2, NEW fl2, NEW ct2 \in ct .. M,
         IsChain(s, nx2, nx2[hd[l]], 1 .. ct2, tl[l]), nx2[tl[l]] = tl[l],
         IsChain(f2, nx2, fl2, 1 .. ct2, 0),
         \A m \in DOMAIN c \ {l} :
           /\ nx2[hd[m]] = nxt[hd[m]] /\ nx2[tl[m]] = nxt[tl[m]]
           /\ \A x : Has(c[m], x) => nx2[x] = nxt[x],
         \A x \in 1 .. ct2 : \/ Has(s, x) \/ Has(f2, x)
                             \/ \E m \in DOMAIN c \ {l} : Has(c[m], x),
         \A x \in 1 .. M : x > ct2 => nx2[x] = 0
  PROVE  Linked(With(c, l, s), f2, nx2, fl2, ct2, hd, tl, M)
<1> DEFINE c2 == With(c, l, s)
<1>1. /\ DOMAIN c2 = DOMAIN c \cup {l} /\ c2[l] = s
      /\ \A m \in DOMAIN c \ {l} : c2[m] = c[m]
  BY DEF With
<1> HIDE DEF c2
<1>2. ct \in 0 .. M /\ ct2 \in 0 .. M /\ 1 .. ct \subseteq 1 .. ct2
  BY DEF Linked
<1>3. ASSUME NEW m \in DOMAIN c2
      PROVE  IsChain(c2[m], nx2, nx2[hd[m]], 1 .. ct2, tl[m]) /\ nx2[tl[m]] = tl[m]
  <2>1. CASE m = l
    BY <1>1, <2>1
  <2>2. CASE m # l
    <3>1. /\ m \in DOMAIN c \ {l} /\ c2[m] = c[m]
          /\ IsChain(c[m], nxt, nxt[hd[m]], 1 .. ct, tl[m]) /\ nxt[tl[m]] = tl[m]
      BY <1>1, <2>2 DEF Linked
    <3>2. \A x : Has(c[m], x) => x \in 1 .. ct2 /\ nx2[x] = nxt[x]
      BY <1>2, <3>1, ChainIn
    <3>3. IsChain(c[m], nx2, nxt[hd[m]], 1 .. ct2, tl[m])
      BY <3>1, <3>2, ChainStays
    <3> QED BY <3>1, <3>3
  <2> QED BY <2>1, <2>2
<1>4. \A x \in 1 .. ct2 : Has(f2, x) \/ \E m \in DOMAIN c2 : Has(c2[m], x)
  BY <1>1
<1>5. Linked(c2, f2, nx2, fl2, ct2, hd, tl, M)
  BY <1>2, <1>3, <1>4 DEF Linked
<1> QED BY <1>5 DEF c2

(* A new element at the front of a list, which may be a new list. *)
ListAt(c, l) == IF l \in DOMAIN c THEN c[l] ELSE << >>

LEMMA AddedFront ==
  ASSUME NEW M \in Nat, NEW hd, NEW tl, NEW D, Sentinels(hd, tl, D, M),
         NEW c, DOMAIN c \subseteq D, NEW f, NEW nxt, NEW fl, NEW ct,
         Linked(c, f, nxt, fl, ct, hd, tl, M),
         NEW e \in 1 .. M, e = CellFor(fl, ct), NEW l \in D, NEW nx2,
         nx2[e] = IF l \in DOMAIN c THEN nxt[hd[l]] ELSE tl[l],
         nx2[hd[l]] = e, nx2[tl[l]] = tl[l],
         \A x \in Nodes(hd, tl, D, M) : x \notin {e, hd[l], tl[l]} => nx2[x] = nxt[x]
  PROVE  Linked(With(c, l, <<e>> \o ListAt(c, l)), RestFree(f), nx2, FreeThen(nxt, fl),
                CutThen(fl, ct), hd, tl, M)
<1> DEFINE ct2 == CutThen(fl, ct)
           f2 == RestFree(f)
           fl2 == FreeThen(nxt, fl)
           s == ListAt(c, l)
           first == IF l \in DOMAIN c THEN nxt[hd[l]] ELSE tl[l]
<1>1. /\ ct2 \in ct .. M /\ e \in 1 .. ct2
      /\ IsChain(f2, nxt, fl2, 1 .. ct2, 0)
      /\ ~Has(f2, e)
      /\ \A m \in DOMAIN c : /\ IsChain(c[m], nxt, nxt[hd[m]], 1 .. ct2, tl[m])
                             /\ ~Has(c[m], e)
      /\ \A x \in 1 .. ct2 : x = e \/ Has(f2, x) \/ \E m \in DOMAIN c : Has(c[m], x)
      /\ \A x \in 1 .. M : x > ct2 => nxt[x] = 0
  BY NewCell
<1>2. IsChain(s, nxt, first, 1 .. ct2, tl[l]) /\ ~Has(s, e)
  <2>1. CASE l \in DOMAIN c
    BY <1>1, <2>1 DEF ListAt
  <2>2. CASE l \notin DOMAIN c
    <3>1. s = << >> /\ first = tl[l]
      BY <2>2 DEF ListAt
    <3> HIDE DEF s, first
    <3> QED BY <3>1 DEF IsChain, Has
  <2> QED BY <2>1, <2>2
<1>3. nx2[e] = first /\ (l \in DOMAIN c => s = c[l])
  BY DEF ListAt
<1> HIDE DEF ct2, f2, fl2, s, first
<1>4. /\ ct2 \in Nat /\ ct2 \in 0 .. M /\ 1 .. ct2 \subseteq 1 .. M
      /\ ct \in 0 .. M
  BY <1>1 DEF Linked
<1>5. \A x \in 1 .. M : x # e => nx2[x] = nxt[x]
  <2>1. \A x \in 1 .. M : x \in Nodes(hd, tl, D, M) /\ x # hd[l] /\ x # tl[l]
    BY DEF Nodes, Sentinels
  <2> QED BY <2>1
<1>6. \A m \in DOMAIN c \ {l} : nx2[hd[m]] = nxt[hd[m]] /\ nx2[tl[m]] = nxt[tl[m]]
  <2>1. \A m \in D : hd[m] \in Nodes(hd, tl, D, M) /\ tl[m] \in Nodes(hd, tl, D, M)
    BY DEF Nodes
  <2>2. \A m \in D \ {l} : hd[m] \notin {e, hd[l], tl[l]} /\ tl[m] \notin {e, hd[l], tl[l]}
    BY DEF Sentinels
  <2> QED BY <2>1, <2>2
<1>7. ASSUME NEW t, NEW a, NEW end, IsChain(t, nxt, a, 1 .. ct2, end), ~Has(t, e)
      PROVE  \A x : Has(t, x) => x \in 1 .. ct2 /\ nx2[x] = nxt[x]
  BY <1>4, <1>5, <1>7, ChainIn
<1>8. IsChain(<<e>> \o s, nx2, nx2[hd[l]], 1 .. ct2, tl[l])
  <2>1. \A i \in 1 .. Len(s) : nx2[s[i]] = nxt[s[i]]
    <3>1. \A x : Has(s, x) => x \in 1 .. ct2 /\ nx2[x] = nxt[x]
      BY <1>2, <1>7
    <3> QED BY <3>1 DEF Has
  <2> QED BY <1>1, <1>2, <1>3, <2>1, ChainPush
<1>9. IsChain(f2, nx2, fl2, 1 .. ct2, 0)
  BY <1>1, <1>7, ChainStays
<1>10. \A x : Has(<<e>> \o s, x) <=> x = e \/ Has(s, x)
  BY <1>1, <1>2, ChainIn, HasPush
<1>11. \A x \in 1 .. ct2 : \/ Has(<<e>> \o s, x) \/ Has(f2, x)
                           \/ \E m \in DOMAIN c \ {l} : Has(c[m], x)
  BY <1>1, <1>3, <1>10
<1>12. \A x \in 1 .. M : x > ct2 => nx2[x] = 0
  BY <1>1, <1>4, <1>5
<1>13. \A m \in DOMAIN c \ {l} : \A x : Has(c[m], x) => nx2[x] = nxt[x]
  BY <1>1, <1>7
<1>14. Linked(With(c, l, <<e>> \o s), f2, nx2, fl2, ct2, hd, tl, M)
  BY <1>1, <1>6, <1>8, <1>9, <1>11, <1>12, <1>13, Relinked
<1> QED BY <1>14 DEF ct2, f2, fl2, s

(* A new element at the back of a list. *)
LEMMA AddedBack ==
  ASSUME NEW M \in Nat, NEW hd, NEW tl, NEW D, Sentinels(hd, tl, D, M),
         NEW c, DOMAIN c \subseteq D, NEW f, NEW nxt, NEW fl, NEW ct,
         Linked(c, f, nxt, fl, ct, hd, tl, M),
         NEW e \in 1 .. M, e = CellFor(fl, ct), NEW l \in DOMAIN c, NEW nx2, NEW p,
         p = IF Len(c[l]) = 0 THEN hd[l] ELSE c[l][Len(c[l])],
         nx2[e] = tl[l], nx2[p] = e,
         \A x \in Nodes(hd, tl, D, M) : x \notin {e, p} => nx2[x] = nxt[x]
  PROVE  Linked(With(c, l, Append(c[l], e)), RestFree(f), nx2, FreeThen(nxt, fl),
                CutThen(fl, ct), hd, tl, M)
<1> DEFINE ct2 == CutThen(fl, ct)
           f2 == RestFree(f)
           fl2 == FreeThen(nxt, fl)
           s == c[l]
<1>1. /\ ct2 \in ct .. M /\ e \in 1 .. ct2
      /\ IsChain(f2, nxt, fl2, 1 .. ct2, 0)
      /\ ~Has(f2, e)
      /\ \A m \in DOMAIN c : /\ IsChain(c[m], nxt, nxt[hd[m]], 1 .. ct2, tl[m])
                             /\ ~Has(c[m], e)
      /\ \A x \in 1 .. ct2 : x = e \/ Has(f2, x) \/ \E m \in DOMAIN c : Has(c[m], x)
      /\ \A x \in 1 .. M : x > ct2 => nxt[x] = 0
  BY NewCell
<1>2. \A x : Has(f2, x) => Has(f, x)
  <2>1. CASE Len(f) = 0
    BY <2>1 DEF RestFree
  <2>2. CASE Len(f) # 0
    <3>1. f \in Seq(1 .. ct) /\ 1 \in 1 .. Len(f) /\ Distinct(f)
      <4>1. IsChain(f, nxt, fl, 1 .. ct, 0) /\ Distinct(f)
        BY LinkedApart DEF Linked
      <4>2. f \in Seq(1 .. ct) /\ Len(f) \in Nat
        BY <4>1, ChainIn
      <4> QED BY <2>2, <4>1, <4>2
    <3>2. f2 = Without(f, 1)
      BY <2>2 DEF RestFree
    <3> HIDE DEF f2
    <3> QED BY <3>1, <3>2, HasWithout
  <2> QED BY <2>1, <2>2
<1> HIDE DEF ct2, f2, fl2
<1>3. /\ ct2 \in Nat /\ ct2 \in 0 .. M /\ 1 .. ct2 \subseteq 1 .. M
      /\ ct \in 0 .. M /\ 1 .. ct \subseteq 1 .. ct2
  BY <1>1 DEF Linked
<1>4. /\ IsChain(s, nxt, nxt[hd[l]], 1 .. ct2, tl[l]) /\ ~Has(s, e)
      /\ s \in Seq(1 .. ct2) /\ Len(s) \in Nat /\ Distinct(s)
  BY <1>1, ChainIn, LinkedApart
<1>5. \/ Len(s) = 0 /\ p = hd[l] /\ p \notin 1 .. M
      \/ Len(s) # 0 /\ p = s[Len(s)] /\ Has(s, p) /\ p \in 1 .. ct2 /\ p \in 1 .. M
  <2>1. CASE Len(s) = 0
    <3>1. p = hd[l] /\ hd[l] \notin 0 .. M
      BY <2>1 DEF Sentinels
    <3> QED BY <2>1, <3>1
  <2>2. CASE Len(s) # 0
    <3>1. Len(s) \in 1 .. Len(s)
      BY <1>4, <2>2
    <3>2. Has(s, p) /\ p = s[Len(s)]
      BY <2>2, <3>1 DEF Has
    <3> QED BY <1>3, <1>4, <2>2, <3>2, ChainIn
  <2> QED BY <2>1, <2>2
<1>6. \A x \in 1 .. M : x # e /\ x # p => nx2[x] = nxt[x]
  BY DEF Nodes
<1>7. \A m \in D : /\ hd[m] # p => nx2[hd[m]] = nxt[hd[m]]
                   /\ nx2[tl[m]] = nxt[tl[m]]
                   /\ m # l => hd[m] # p
  <2>1. \A m \in D : hd[m] \in Nodes(hd, tl, D, M) /\ tl[m] \in Nodes(hd, tl, D, M)
    BY DEF Nodes
  <2>2. \A m \in D : hd[m] # e /\ tl[m] # e /\ tl[m] # p
    <3>1. \A m \in D : hd[m] \notin 0 .. M /\ tl[m] \notin 0 .. M /\ hd[l] # tl[m]
      BY DEF Sentinels
    <3> QED BY <1>5, <3>1
  <2>3. \A m \in D : m # l => hd[m] # p
    <3>1. \A m \in D : hd[m] \notin 0 .. M /\ (m # l => hd[m] # hd[l])
      BY DEF Sentinels
    <3> QED BY <1>5, <3>1
  <2> QED BY <2>1, <2>2, <2>3
<1>8. ASSUME NEW t, NEW a, NEW end, IsChain(t, nxt, a, 1 .. ct2, end), ~Has(t, e), ~Has(t, p)
      PROVE  \A x : Has(t, x) => x \in 1 .. ct2 /\ nx2[x] = nxt[x]
  BY <1>3, <1>6, <1>8, ChainIn
<1>9. ~Has(f2, p) /\ \A m \in DOMAIN c \ {l} : ~Has(c[m], p)
  <2>1. CASE p \notin 1 .. M
    BY <1>1, <1>3, <2>1, ChainIn
  <2>2. CASE Has(s, p)
    BY <1>2, <2>2, LinkedApart
  <2> QED BY <1>5, <2>1, <2>2
<1>10. IsChain(Append(s, e), nx2, nx2[hd[l]], 1 .. ct2, tl[l])
  <2>1. nx2[hd[l]] = IF Len(s) = 0 THEN e ELSE nxt[hd[l]]
    <3>1. Len(s) # 0 => hd[l] # p
      BY <1>5 DEF Sentinels
    <3> QED BY <1>5, <1>7, <3>1
  <2>2. ASSUME NEW i \in 1 .. Len(s)
        PROVE  nx2[s[i]] = IF i = Len(s) THEN e ELSE nxt[s[i]]
    <3>1. Len(s) \in 1 .. Len(s) /\ p = s[Len(s)]
      BY <1>4, <1>5
    <3>2. CASE i = Len(s)
      BY <3>1, <3>2
    <3>3. CASE i # Len(s)
      <4>1. Has(s, s[i]) /\ s[i] # p
        BY <1>4, <3>1, <3>3 DEF Has, Distinct
      <4>2. s[i] # e /\ s[i] \in 1 .. M
        BY <1>3, <1>4, <4>1, ChainIn
      <4> QED BY <1>6, <3>3, <4>1, <4>2
    <3> QED BY <3>2, <3>3
  <2> HIDE DEF s
  <2> QED BY <1>1, <1>4, <2>1, <2>2, ChainAppend
<1>11. IsChain(f2, nx2, fl2, 1 .. ct2, 0)
  BY <1>1, <1>8, <1>9, ChainStays
<1>12. \A x : Has(Append(s, e), x) <=> x = e \/ Has(s, x)
  BY <1>1, <1>4, HasAppend
<1>13. \A x \in 1 .. ct2 : \/ Has(Append(s, e), x) \/ Has(f2, x)
                           \/ \E m \in DOMAIN c \ {l} : Has(c[m], x)
  <2> HIDE DEF s
  <2>1. \A m \in DOMAIN c : m = l => c[m] = s
    BY DEF s
  <2> QED BY <1>1, <1>12, <2>1
<1>14. \A x \in 1 .. M : x > ct2 => nx2[x] = 0
  BY <1>1, <1>3, <1>5, <1>6
<1>15. \A m \in DOMAIN c \ {l} : \A x : Has(c[m], x) => nx2[x] = nxt[x]
  BY <1>1, <1>8, <1>9
<1>16. nx2[tl[l]] = tl[l]
  BY <1>7 DEF Linked
<1>17. Linked(With(c, l, Append(s, e)), f2, nx2, fl2, ct2, hd, tl, M)
  <2>1. \A m \in DOMAIN c \ {l} : nx2[hd[m]] = nxt[hd[m]] /\ nx2[tl[m]] = nxt[tl[m]]
    BY <1>7
  <2> QED BY <1>1, <1>10, <1>11, <1>13, <1>14, <1>15, <1>16, <2>1, Relinked
<1> QED BY <1>17 DEF ct2, f2, fl2

(* The k-th element of a list goes back to the pool. *)
LEMMA Removed ==
  ASSUME NEW M \in Nat, NEW hd, NEW tl, NEW D, Sentinels(hd, tl, D, M),
         NEW c, DOMAIN c \subseteq D, NEW f, NEW nxt, NEW fl, NEW ct,
         Linked(c, f, nxt, fl, ct, hd, tl, M),
         NEW l \in DOMAIN c, NEW k \in 1 .. Len(c[l]), NEW nx2, NEW p,
         p = IF k = 1 THEN hd[l] ELSE c[l][k - 1],
         nx2[p] = nxt[c[l][k]], nx2[c[l][k]] = fl,
         \A x \in Nodes(hd, tl, D, M) : x \notin {c[l][k], p} => nx2[x] = nxt[x]
  PROVE  /\ Linked(With(c, l, Without(c[l], k)), <<c[l][k]>> \o f, nx2, c[l][k],
                   ct, hd, tl, M)
         /\ c[l][k] \in 1 .. M
<1> DEFINE s == c[l]
           e == s[k]
<1>1. /\ ct \in 0 .. M /\ ct \in Nat /\ 1 .. ct \subseteq 1 .. M
      /\ IsChain(f, nxt, fl, 1 .. ct, 0)
      /\ \A m \in DOMAIN c : /\ IsChain(c[m], nxt, nxt[hd[m]], 1 .. ct, tl[m])
                             /\ nxt[tl[m]] = tl[m]
      /\ \A x \in 1 .. ct : Has(f, x) \/ \E m \in DOMAIN c : Has(c[m], x)
      /\ \A x \in 1 .. M : x > ct => nxt[x] = 0
  BY DEF Linked
<1>2. /\ s \in Seq(1 .. ct) /\ Len(s) \in Nat /\ Distinct(s)
      /\ \A i \in 1 .. Len(s) : s[i] \in 1 .. ct
  <2>1. IsChain(s, nxt, nxt[hd[l]], 1 .. ct, tl[l])
    BY <1>1
  <2>2. Distinct(s)
    BY LinkedApart
  <2> HIDE DEF s
  <2> QED BY <2>1, <2>2, ChainIn
<1>3. k \in 1 .. Len(s) /\ Has(s, e) /\ e \in 1 .. ct
  <2>1. k \in 1 .. Len(s)
    OBVIOUS
  <2> HIDE DEF s
  <2>2. e \in 1 .. ct
    BY <1>2, <2>1
  <2> QED BY <2>1, <2>2 DEF Has
<1>4. \/ k = 1 /\ p = hd[l] /\ p \notin 1 .. M
      \/ k # 1 /\ p = s[k - 1] /\ Has(s, p) /\ p \in 1 .. ct /\ p # e
  <2>1. CASE k = 1
    <3>1. p = hd[l] /\ hd[l] \notin 0 .. M
      BY <2>1 DEF Sentinels
    <3> QED BY <2>1, <3>1
  <2>2. CASE k # 1
    <3>1. k - 1 \in 1 .. Len(s) /\ k - 1 # k
      BY <1>2, <2>2
    <3>2. p = s[k - 1]
      BY <2>2
    <3> HIDE DEF s
    <3>3. Has(s, p)
      BY <3>1, <3>2 DEF Has
    <3>4. p \in 1 .. ct
      BY <1>2, <3>1, <3>2
    <3>5. p # s[k]
      BY <1>2, <1>3, <3>1, <3>2 DEF Distinct
    <3> QED BY <2>2, <3>2, <3>3, <3>4, <3>5
  <2> QED BY <2>1, <2>2
<1>5. \A x \in 1 .. M : x # e /\ x # p => nx2[x] = nxt[x]
  BY DEF Nodes
<1>6. \A m \in D : /\ hd[m] # p => nx2[hd[m]] = nxt[hd[m]]
                   /\ nx2[tl[m]] = nxt[tl[m]]
                   /\ m # l => hd[m] # p
  <2>1. \A m \in D : hd[m] \in Nodes(hd, tl, D, M) /\ tl[m] \in Nodes(hd, tl, D, M)
    BY DEF Nodes
  <2>2. \A m \in D : hd[m] # e /\ tl[m] # e /\ tl[m] # p
    <3>1. \A m \in D : hd[m] \notin 0 .. M /\ tl[m] \notin 0 .. M /\ hd[l] # tl[m]
      BY DEF Sentinels
    <3> QED BY <1>1, <1>3, <1>4, <3>1
  <2>3. \A m \in D : m # l => hd[m] # p
    <3>1. \A m \in D : hd[m] \notin 0 .. M /\ (m # l => hd[m] # hd[l])
      BY DEF Sentinels
    <3> QED BY <1>1, <1>4, <3>1
  <2> QED BY <2>1, <2>2, <2>3
<1>7. ASSUME NEW t, NEW a, NEW end, IsChain(t, nxt, a, 1 .. ct, end), ~Has(t, e), ~Has(t, p)
      PROVE  \A x : Has(t, x) => x \in 1 .. ct /\ nx2[x] = nxt[x]
  BY <1>1, <1>5, <1>7, ChainIn
<1>8. /\ ~Has(f, e) /\ ~Has(f, p)
      /\ \A m \in DOMAIN c \ {l} : ~Has(c[m], e) /\ ~Has(c[m], p)
  <2>1. ~Has(f, e) /\ \A m \in DOMAIN c \ {l} : ~Has(c[m], e)
    BY <1>3, LinkedApart
  <2>2. CASE p \notin 1 .. M
    BY <1>1, <2>1, <2>2, ChainIn
  <2>3. CASE Has(s, p)
    BY <2>1, <2>3, LinkedApart
  <2> QED BY <1>4, <2>2, <2>3
<1>9. IsChain(Without(s, k), nx2, nx2[hd[l]], 1 .. ct, tl[l])
  <2>1. nx2[hd[l]] = IF k = 1 THEN nxt[s[1]] ELSE nxt[hd[l]]
    <3>1. k # 1 => hd[l] # p
      BY <1>1, <1>4 DEF Sentinels
    <3> QED BY <1>4, <1>6, <3>1
  <2>2. k # 1 => nx2[s[k - 1]] = nxt[s[k]]
    BY <1>4
  <2>3. ASSUME NEW i \in 1 .. Len(s), i \notin {k - 1, k}
        PROVE  nx2[s[i]] = nxt[s[i]]
    <3>1. s[i] # e /\ s[i] \in 1 .. M
      BY <1>1, <1>2, <2>3 DEF Distinct
    <3>2. k # 1 => k - 1 \in 1 .. Len(s)
      BY <1>2
    <3>3. s[i] # p
      BY <1>2, <1>4, <2>3, <3>1, <3>2 DEF Distinct
    <3> QED BY <1>5, <3>1, <3>3
  <2>4. IsChain(s, nxt, nxt[hd[l]], 1 .. ct, tl[l])
    BY <1>1
  <2> HIDE DEF s, e
  <2> QED BY <1>3, <2>1, <2>2, <2>3, <2>4, ChainWithout
<1>10. IsChain(<<e>> \o f, nx2, e, 1 .. ct, 0)
  <2>1. \A x : Has(f, x) => x \in 1 .. ct /\ nx2[x] = nxt[x]
    BY <1>1, <1>7, <1>8
  <2>2. \A i \in 1 .. Len(f) : nx2[f[i]] = nxt[f[i]]
    BY <2>1 DEF Has
  <2>3. nx2[e] = fl
    OBVIOUS
  <2> HIDE DEF s, e
  <2> QED BY <1>1, <1>3, <2>2, <2>3, ChainPush
<1>11. \A x : Has(<<e>> \o f, x) <=> x = e \/ Has(f, x)
  <2>1. f \in Seq(1 .. ct)
    BY <1>1, ChainIn
  <2> HIDE DEF s, e
  <2> QED BY <1>3, <2>1, HasPush
<1>12. \A x : Has(Without(s, k), x) <=> Has(s, x) /\ x # e
  <2> QED BY <1>2, HasWithout
<1>13. \A x \in 1 .. ct : \/ Has(Without(s, k), x) \/ Has(<<e>> \o f, x)
                          \/ \E m \in DOMAIN c \ {l} : Has(c[m], x)
  <2>1. \A m \in DOMAIN c : m = l => c[m] = s
    OBVIOUS
  <2> HIDE DEF s, e
  <2> QED BY <1>1, <1>11, <1>12, <2>1
<1>14. \A x \in 1 .. M : x > ct => nx2[x] = 0
  BY <1>1, <1>3, <1>4, <1>5
<1>15. \A m \in DOMAIN c \ {l} : \A x : Has(c[m], x) => nx2[x] = nxt[x]
  BY <1>1, <1>7, <1>8
<1>16. nx2[tl[l]] = tl[l]
  BY <1>1, <1>6
<1>17. Linked(With(c, l, Without(s, k)), <<e>> \o f, nx2, e, ct, hd, tl, M)
  <2>1. \A m \in DOMAIN c \ {l} : nx2[hd[m]] = nxt[hd[m]] /\ nx2[tl[m]] = nxt[tl[m]]
    BY <1>6
  <2>2. ct \in ct .. M
    BY <1>1
  <2> HIDE DEF s, e
  <2> QED BY <1>9, <1>10, <1>13, <1>14, <1>15, <1>16, <2>1, <2>2, Relinked
<1> QED BY <1>1, <1>3, <1>17

(* All elements of a list go back to the pool, from the first to the last. *)
Freed(s, f) ==
  [i \in 1 .. Len(s) + Len(f) |-> IF i <= Len(s) THEN s[Len(s) + 1 - i] ELSE f[i - Len(s)]]

LEMMA AllFreed ==
  ASSUME NEW M \in Nat, NEW hd, NEW tl, NEW D, Sentinels(hd, tl, D, M),
         NEW c, DOMAIN c \subseteq D, NEW f, NEW nxt, NEW fl, NEW ct,
         Linked(c, f, nxt, fl, ct, hd, tl, M),
         NEW l \in DOMAIN c, NEW nx2, NEW fl2,
         nx2[hd[l]] = tl[l],
         fl2 = IF Len(c[l]) = 0 THEN fl ELSE c[l][Len(c[l])],
         \A i \in 1 .. Len(c[l]) : nx2[c[l][i]] = IF i = 1 THEN fl ELSE c[l][i - 1],
         \A x \in Nodes(hd, tl, D, M) : x # hd[l] /\ ~Has(c[l], x) => nx2[x] = nxt[x]
  PROVE  Linked(With(c, l, << >>), Freed(c[l], f), nx2, fl2, ct, hd, tl, M)
<1> DEFINE s == c[l]
           n == Len(s)
           r == Freed(s, f)
<1>1. /\ ct \in 0 .. M /\ ct \in Nat /\ 1 .. ct \subseteq 1 .. M /\ ct \in ct .. M
      /\ IsChain(f, nxt, fl, 1 .. ct, 0)
      /\ \A m \in DOMAIN c : /\ IsChain(c[m], nxt, nxt[hd[m]], 1 .. ct, tl[m])
                             /\ nxt[tl[m]] = tl[m]
      /\ \A x \in 1 .. ct : Has(f, x) \/ \E m \in DOMAIN c : Has(c[m], x)
      /\ \A x \in 1 .. M : x > ct => nxt[x] = 0
  BY DEF Linked
<1>2. /\ s \in Seq(1 .. ct) /\ Len(s) \in Nat
      /\ f \in Seq(1 .. ct) /\ Len(f) \in Nat
      /\ \A i \in 1 .. Len(s) : s[i] \in 1 .. ct
      /\ \A i \in 1 .. Len(f) : f[i] \in 1 .. ct
      /\ \A x : Has(s, x) => x \in 1 .. ct
  BY <1>1, ChainIn
<1>3. /\ r \in Seq(1 .. ct) /\ Len(r) = n + Len(f)
      /\ \A i \in 1 .. n + Len(f) : r[i] = IF i <= n THEN s[n + 1 - i] ELSE f[i - n]
  <2>1. n + Len(f) \in Nat
    BY <1>2
  <2>2. \A i \in 1 .. n + Len(f) : IF i <= n THEN s[n + 1 - i] \in 1 .. ct ELSE f[i - n] \in 1 .. ct
    <3> SUFFICES ASSUME NEW i \in 1 .. n + Len(f)
                 PROVE  IF i <= n THEN s[n + 1 - i] \in 1 .. ct ELSE f[i - n] \in 1 .. ct
      OBVIOUS
    <3>1. n \in Nat
      BY <1>2
    <3> HIDE DEF n
    <3>2. i <= n => n + 1 - i \in 1 .. n
      BY <3>1
    <3>3. ~(i <= n) => i - n \in 1 .. Len(f)
      BY <1>2, <3>1
    <3> QED BY <1>2, <3>2, <3>3 DEF n
  <2>3. r = [i \in 1 .. n + Len(f) |-> IF i <= n THEN s[n + 1 - i] ELSE f[i - n]]
    BY DEF Freed
  <2> HIDE DEF r, s
  <2>4. r \in [1 .. n + Len(f) -> 1 .. ct]
    BY <2>2, <2>3
  <2> QED BY <2>1, <2>3, <2>4
<1>4. \A x \in 1 .. M : ~Has(s, x) => nx2[x] = nxt[x]
  BY DEF Nodes, Sentinels
<1>5. \A m \in D : /\ m # l => nx2[hd[m]] = nxt[hd[m]]
                   /\ nx2[tl[m]] = nxt[tl[m]]
  <2>1. \A m \in D : hd[m] \in Nodes(hd, tl, D, M) /\ tl[m] \in Nodes(hd, tl, D, M)
    BY DEF Nodes
  <2>2. \A m \in D : /\ hd[m] \notin 0 .. M /\ tl[m] \notin 0 .. M /\ hd[l] # tl[m]
                     /\ (m # l => hd[m] # hd[l])
    BY DEF Sentinels
  <2>3. \A m \in D : ~Has(s, hd[m]) /\ ~Has(s, tl[m])
    <3>1. \A x : Has(s, x) => x \in 0 .. M
      BY <1>1, <1>2
    <3> HIDE DEF s
    <3> QED BY <2>2, <3>1
  <2> QED BY <2>1, <2>2, <2>3
<1>6. \A x : Has(f, x) => x \in 1 .. ct /\ nx2[x] = nxt[x]
  <2>1. \A x : Has(f, x) => x \in 1 .. ct /\ ~Has(s, x)
    BY <1>1, ChainIn, LinkedApart
  <2> QED BY <1>1, <1>4, <2>1
<1>7. ASSUME NEW i \in 1 .. n + Len(f)
      PROVE  nx2[r[i]] = IF i = n + Len(f) THEN 0 ELSE r[i + 1]
  <2>0. /\ \A j \in 1 .. Len(f) : nx2[f[j]] = IF j = Len(f) THEN 0 ELSE f[j + 1]
        /\ fl = IF Len(f) = 0 THEN 0 ELSE f[1]
    <3>1. IsChain(f, nx2, fl, 1 .. ct, 0)
      BY <1>1, <1>6, ChainStays
    <3> QED BY <3>1 DEF IsChain
  <2>4. n \in Nat
    BY <1>2
  <2> HIDE DEF r, s, n
  <2>1. CASE i < n
    <3>1. /\ r[i] = s[n + 1 - i] /\ r[i + 1] = s[n + 1 - (i + 1)] /\ i # n + Len(f)
          /\ n + 1 - i \in 1 .. n /\ n + 1 - i # 1 /\ (n + 1 - i) - 1 = n + 1 - (i + 1)
      BY <1>2, <1>3, <2>1, <2>4
    <3> QED BY <3>1 DEF n, s
  <2>2. CASE i = n
    <3>1. /\ r[i] = s[1] /\ 1 \in 1 .. n
          /\ i # n + Len(f) => r[i + 1] = f[1]
          /\ i = n + Len(f) <=> Len(f) = 0
      <4>1. /\ i <= n /\ n + 1 - i = 1 /\ 1 \in 1 .. n
            /\ i = n + Len(f) <=> Len(f) = 0
        BY <1>2, <2>2, <2>4
      <4>2. i # n + Len(f) => i + 1 \in 1 .. n + Len(f) /\ ~(i + 1 <= n) /\ (i + 1) - n = 1
        BY <1>2, <2>2, <2>4
      <4> QED BY <1>3, <4>1, <4>2
    <3> QED BY <2>0, <3>1 DEF n, s
  <2>3. CASE i > n
    <3>1. /\ r[i] = f[i - n] /\ i - n \in 1 .. Len(f)
          /\ i # n + Len(f) => r[i + 1] = f[(i - n) + 1]
          /\ i = n + Len(f) <=> i - n = Len(f)
      <4>1. i # n + Len(f) => i + 1 \in 1 .. n + Len(f) /\ ~(i + 1 <= n) /\ (i + 1) - n = (i - n) + 1
        BY <1>2, <2>3, <2>4
      <4>2. i - n \in 1 .. Len(f) /\ ~(i <= n) /\ (i = n + Len(f) <=> i - n = Len(f))
        BY <1>2, <2>3, <2>4
      <4> QED BY <1>3, <4>1, <4>2
    <3> QED BY <2>0, <3>1
  <2> QED BY <2>1, <2>2, <2>3, <2>4
<1>8. IsChain(r, nx2, fl2, 1 .. ct, 0)
  <2>1. fl2 = IF Len(r) = 0 THEN 0 ELSE r[1]
    <3>1. fl = IF Len(f) = 0 THEN 0 ELSE f[1]
      BY <1>1 DEF IsChain
    <3>2. CASE n = 0
      <4>1. fl2 = fl /\ Len(r) = Len(f) /\ (Len(f) # 0 => r[1] = f[1])
        <5> HIDE DEF r
        <5>1. Len(f) # 0 => 1 \in 1 .. n + Len(f) /\ ~(1 <= n) /\ 1 - n = 1
          BY <1>2, <3>2
        <5> QED BY <1>2, <1>3, <3>2, <5>1
      <4> HIDE DEF r
      <4> QED BY <3>1, <4>1
    <3>3. CASE n # 0
      <4> HIDE DEF r
      <4>1. 1 \in 1 .. n + Len(f) /\ 1 <= n /\ n + 1 - 1 = n /\ Len(r) # 0
        BY <1>2, <1>3, <3>3
      <4> QED BY <1>3, <3>3, <4>1
    <3> QED BY <3>2, <3>3
  <2> HIDE DEF r
  <2> QED BY <1>3, <1>7, <2>1 DEF IsChain
<1>9. \A x : Has(s, x) \/ Has(f, x) => Has(r, x)
  <2> HIDE DEF r
  <2>1. ASSUME NEW x, Has(s, x)
        PROVE  Has(r, x)
    <3>1. PICK i \in 1 .. n : s[i] = x
      BY <2>1 DEF Has
    <3>2. /\ n + 1 - i \in 1 .. n + Len(f) /\ n + 1 - i <= n /\ n + 1 - (n + 1 - i) = i
          /\ n + 1 - i \in 1 .. Len(r)
      BY <1>2, <1>3
    <3>3. r[n + 1 - i] = x
      BY <1>3, <3>1, <3>2
    <3> QED BY <3>2, <3>3 DEF Has
  <2>2. ASSUME NEW x, Has(f, x)
        PROVE  Has(r, x)
    <3>1. PICK i \in 1 .. Len(f) : f[i] = x
      BY <2>2 DEF Has
    <3>2. n + i \in 1 .. n + Len(f) /\ ~(n + i <= n) /\ (n + i) - n = i /\ n + i \in 1 .. Len(r)
      BY <1>2, <1>3
    <3>3. r[n + i] = x
      BY <1>3, <3>1, <3>2
    <3> QED BY <3>2, <3>3 DEF Has
  <2> QED BY <2>1, <2>2
<1> HIDE DEF r
<1>10. \A x \in 1 .. ct : \/ Has(<< >>, x) \/ Has(r, x)
                          \/ \E m \in DOMAIN c \ {l} : Has(c[m], x)
  BY <1>1, <1>9
<1>11. \A x \in 1 .. M : x > ct => nx2[x] = 0
  BY <1>1, <1>2, <1>4
<1>12. \A m \in DOMAIN c \ {l} : \A x : Has(c[m], x) => nx2[x] = nxt[x]
  <2>1. \A m \in DOMAIN c \ {l} : \A x : Has(c[m], x) => x \in 1 .. ct /\ ~Has(s, x)
    BY <1>1, ChainIn, LinkedApart
  <2> QED BY <1>1, <1>4, <2>1
<1>13. nx2[tl[l]] = tl[l] /\ IsChain(<< >>, nx2, nx2[hd[l]], 1 .. ct, tl[l])
  BY <1>1, <1>5 DEF IsChain
<1>14. Linked(With(c, l, << >>), r, nx2, fl2, ct, hd, tl, M)
  <2>1. \A m \in DOMAIN c \ {l} : nx2[hd[m]] = nxt[hd[m]] /\ nx2[tl[m]] = nxt[tl[m]]
    BY <1>5
  <2> QED BY <1>1, <1>8, <1>10, <1>11, <1>12, <1>13, <2>1, Relinked
<1> QED BY <1>14 DEF r
(* As many different numbers up to n are n at the most. *)
LEMMA DistinctLen ==
  ASSUME NEW n \in Nat, NEW s \in Seq(1 .. n), Distinct(s)
  PROVE  Len(s) <= n
<1>1. /\ s \in [1 .. Len(s) -> 1 .. n] /\ Len(s) \in Nat
  OBVIOUS
<1>2. s \in Injection(1 .. Len(s), 1 .. n)
  BY <1>1 DEF Distinct, Injection, IsInjective
<1>3. /\ IsFiniteSet(1 .. n) /\ Cardinality(1 .. n) = n
      /\ Cardinality(1 .. Len(s)) = Len(s)
  <2>1. \A k \in Nat : IsFiniteSet(1 .. k) /\ Cardinality(1 .. k) = k
    BY FS_Interval
  <2> QED BY <1>1, <2>1
<1>4. Cardinality(1 .. Len(s)) <= Cardinality(1 .. n)
  BY <1>2, <1>3, FS_Injection
<1> QED BY <1>3, <1>4

-----------------------------------------------------------------------------
(* The objects of a sequence of elements, as the sequence changes. *)
Mapped(s, d) == [i \in DOMAIN s |-> d[s[i]]]
Push(x, s) == <<x>> \o s
SameOn(s, d, d2) == \A i \in 1 .. Len(s) : d2[s[i]] = d[s[i]]

LEMMA MapPush ==
  ASSUME NEW L, NEW Q, NEW s \in Seq(L), NEW e \in L, NEW o, NEW d, NEW d2,
         Mapped(s, d) \in Seq(Q), o \in Q, d2[e] = o, SameOn(s, d, d2)
  PROVE  Mapped(Push(e, s), d2) = Push(o, Mapped(s, d))
<1> DEFINE t == <<e>> \o s
           q == Mapped(s, d)
           r == <<o>> \o q
<1>1. /\ Len(s) \in Nat /\ Len(t) = Len(s) + 1 /\ DOMAIN t = 1 .. Len(s) + 1
      /\ t[1] = e /\ \A i \in 2 .. Len(s) + 1 : t[i] = s[i - 1]
  OBVIOUS
<1>2. Len(q) = Len(s) /\ \A i \in 1 .. Len(s) : q[i] = d[s[i]]
  BY DEF Mapped
<1> HIDE DEF q
<1>3. /\ DOMAIN r = 1 .. Len(s) + 1 /\ r[1] = o
      /\ \A i \in 2 .. Len(s) + 1 : r[i] = q[i - 1]
      /\ r = [i \in 1 .. Len(s) + 1 |-> r[i]]
  BY <1>2
<1> HIDE DEF t, r
<1>4. ASSUME NEW i \in 1 .. Len(s) + 1
      PROVE  r[i] = d2[t[i]]
  <2>1. CASE i = 1
    BY <1>1, <1>3, <2>1
  <2>2. CASE i # 1
    <3>1. i \in 2 .. Len(s) + 1 /\ i - 1 \in 1 .. Len(s)
      BY <1>1, <2>2
    <3> QED BY <1>1, <1>2, <1>3, <3>1 DEF SameOn
  <2> QED BY <2>1, <2>2
<1>5. Mapped(t, d2) = r
  BY <1>1, <1>3, <1>4 DEF Mapped
<1> QED BY <1>5 DEF t, r, q, Push

LEMMA MapAppend ==
  ASSUME NEW L, NEW Q, NEW s \in Seq(L), NEW e \in L, NEW o, NEW d, NEW d2,
         Mapped(s, d) \in Seq(Q), o \in Q, d2[e] = o, SameOn(s, d, d2)
  PROVE  Mapped(Append(s, e), d2) = Append(Mapped(s, d), o)
<1> DEFINE t == Append(s, e)
           q == Mapped(s, d)
           r == Append(q, o)
<1>1. /\ Len(s) \in Nat /\ DOMAIN t = 1 .. Len(s) + 1
      /\ \A i \in 1 .. Len(s) + 1 : t[i] = IF i = Len(s) + 1 THEN e ELSE s[i]
  OBVIOUS
<1>2. q \in Seq(Q) /\ Len(q) = Len(s) /\ \A i \in 1 .. Len(s) : q[i] = d[s[i]]
  BY DEF Mapped
<1> HIDE DEF q
<1>3. /\ \A i \in 1 .. Len(s) + 1 : r[i] = IF i = Len(s) + 1 THEN o ELSE q[i]
      /\ r = [i \in 1 .. Len(s) + 1 |-> r[i]]
  <2>1. /\ r \in Seq(Q) /\ Len(r) = Len(q) + 1 /\ Len(q) \in Nat
        /\ \A i \in 1 .. Len(q) + 1 : r[i] = IF i = Len(q) + 1 THEN o ELSE q[i]
    BY <1>2
  <2> HIDE DEF r
  <2>2. r = [i \in 1 .. Len(r) |-> r[i]]
    BY <2>1
  <2> QED BY <1>2, <2>1, <2>2
<1> HIDE DEF t, r
<1>4. ASSUME NEW i \in 1 .. Len(s) + 1
      PROVE  r[i] = d2[t[i]]
  <2>1. CASE i = Len(s) + 1
    BY <1>1, <1>3, <2>1
  <2>2. CASE i # Len(s) + 1
    <3>1. i \in 1 .. Len(s)
      BY <1>1, <2>2
    <3> QED BY <1>1, <1>2, <1>3, <2>2, <3>1 DEF SameOn
  <2> QED BY <2>1, <2>2
<1>5. Mapped(t, d2) = r
  BY <1>1, <1>3, <1>4 DEF Mapped
<1> QED BY <1>5 DEF t, r, q

LEMMA MapWithout ==
  ASSUME NEW L, NEW s \in Seq(L), NEW k \in 1 .. Len(s), NEW d
  PROVE  Mapped(Without(s, k), d) = Without(Mapped(s, d), k)
<1> DEFINE t == Without(s, k)
           q == Mapped(s, d)
<1>1. Len(s) \in Nat /\ k \in 1 .. Len(s)
  OBVIOUS
<1>2. /\ DOMAIN t = 1 .. Len(s) - 1
      /\ \A i \in 1 .. Len(s) - 1 : t[i] = IF i < k THEN s[i] ELSE s[i + 1]
  BY DEF Without
<1>3. Len(q) = Len(s) /\ \A i \in 1 .. Len(s) : q[i] = d[s[i]]
  BY DEF Mapped
<1> HIDE DEF q, t
<1>4. \A i \in 1 .. Len(s) - 1 : d[t[i]] = IF i < k THEN q[i] ELSE q[i + 1]
  <2>1. \A i \in 1 .. Len(s) - 1 : i \in 1 .. Len(s) /\ i + 1 \in 1 .. Len(s)
    BY <1>1
  <2> QED BY <1>2, <1>3, <2>1
<1>5. Mapped(t, d) = Without(q, k)
  BY <1>2, <1>3, <1>4 DEF Mapped, Without
<1> QED BY <1>5 DEF t, q

-----------------------------------------------------------------------------
(* y is the object of element x of s, or of an element that comes after x on a
   walk in direction w. *)
Onward(w, j, i) == IF w = "forward" THEN j <= i ELSE i <= j
Lies(s, d, x, w, y) ==
  \E i, j \in 1 .. Len(s) : s[j] = x /\ Onward(w, j, i) /\ d[s[i]] = y

(* With the new element e, that has object o, what lay ahead still does, and
   nothing but o came to. *)
StillLies(s, d, t, d2, e, o, w) ==
  \A x, y : x # e => /\ Lies(s, d, x, w, y) => Lies(t, d2, x, w, y)
                     /\ Lies(t, d2, x, w, y) => Lies(s, d, x, w, y) \/ y = o

LEMMA LiesPush ==
  ASSUME NEW L, NEW s \in Seq(L), NEW e \in L, NEW o, NEW d, NEW d2, d2[e] = o,
         SameOn(s, d, d2), NEW w
  PROVE  StillLies(s, d, Push(e, s), d2, e, o, w)
<1> DEFINE t == Push(e, s)
<1>1. /\ Len(s) \in Nat /\ Len(t) = Len(s) + 1 /\ t[1] = e
      /\ \A i \in 1 .. Len(s) : t[i + 1] = s[i]
  BY DEF Push
<1>2. \A i \in 1 .. Len(s) : d2[s[i]] = d[s[i]]
  BY DEF SameOn
<1> HIDE DEF t
<1> SUFFICES ASSUME NEW x, NEW y, x # e
             PROVE  /\ Lies(s, d, x, w, y) => Lies(t, d2, x, w, y)
                    /\ Lies(t, d2, x, w, y) => Lies(s, d, x, w, y) \/ y = o
  BY DEF t, StillLies
<1>3. ASSUME Lies(s, d, x, w, y)
      PROVE  Lies(t, d2, x, w, y)
  <2>1. PICK i \in 1 .. Len(s), j \in 1 .. Len(s) : s[j] = x /\ Onward(w, j, i) /\ d[s[i]] = y
    BY <1>3 DEF Lies
  <2>2. i + 1 \in 1 .. Len(t) /\ j + 1 \in 1 .. Len(t) /\ Onward(w, j + 1, i + 1)
    BY <1>1, <2>1 DEF Onward
  <2>3. t[j + 1] = x /\ d2[t[i + 1]] = y
    BY <1>1, <1>2, <2>1
  <2> QED BY <2>2, <2>3 DEF Lies
<1>4. ASSUME Lies(t, d2, x, w, y), y # o
      PROVE  Lies(s, d, x, w, y)
  <2>1. PICK i \in 1 .. Len(t), j \in 1 .. Len(t) : t[j] = x /\ Onward(w, j, i) /\ d2[t[i]] = y
    BY <1>4 DEF Lies
  <2>2. j # 1 /\ i # 1
    BY <1>1, <1>4, <2>1
  <2>3. /\ i - 1 \in 1 .. Len(s) /\ j - 1 \in 1 .. Len(s) /\ Onward(w, j - 1, i - 1)
        /\ (i - 1) + 1 = i /\ (j - 1) + 1 = j
    BY <1>1, <2>1, <2>2 DEF Onward
  <2>4. s[j - 1] = x /\ d[s[i - 1]] = y
    BY <1>1, <1>2, <2>1, <2>3
  <2> QED BY <2>3, <2>4 DEF Lies
<1> QED BY <1>3, <1>4

LEMMA LiesAppend ==
  ASSUME NEW L, NEW s \in Seq(L), NEW e \in L, NEW o, NEW d, NEW d2, d2[e] = o,
         SameOn(s, d, d2), NEW w
  PROVE  StillLies(s, d, Append(s, e), d2, e, o, w)
<1> DEFINE t == Append(s, e)
<1>1. /\ Len(s) \in Nat /\ Len(t) = Len(s) + 1 /\ t[Len(s) + 1] = e
      /\ \A i \in 1 .. Len(s) : t[i] = s[i]
  OBVIOUS
<1>2. \A i \in 1 .. Len(s) : d2[s[i]] = d[s[i]]
  BY DEF SameOn
<1> HIDE DEF t
<1> SUFFICES ASSUME NEW x, NEW y, x # e
             PROVE  /\ Lies(s, d, x, w, y) => Lies(t, d2, x, w, y)
                    /\ Lies(t, d2, x, w, y) => Lies(s, d, x, w, y) \/ y = o
  BY DEF t, StillLies
<1>3. ASSUME Lies(s, d, x, w, y)
      PROVE  Lies(t, d2, x, w, y)
  <2>1. PICK i \in 1 .. Len(s), j \in 1 .. Len(s) : s[j] = x /\ Onward(w, j, i) /\ d[s[i]] = y
    BY <1>3 DEF Lies
  <2>2. i \in 1 .. Len(t) /\ j \in 1 .. Len(t)
    BY <1>1
  <2>3. t[j] = x /\ d2[t[i]] = y
    BY <1>1, <1>2, <2>1
  <2> QED BY <2>1, <2>2, <2>3 DEF Lies
<1>4. ASSUME Lies(t, d2, x, w, y), y # o
      PROVE  Lies(s, d, x, w, y)
  <2>1. PICK i \in 1 .. Len(t), j \in 1 .. Len(t) : t[j] = x /\ Onward(w, j, i) /\ d2[t[i]] = y
    BY <1>4 DEF Lies
  <2>2. j # Len(s) + 1 /\ i # Len(s) + 1
    BY <1>1, <1>4, <2>1
  <2>3. i \in 1 .. Len(s) /\ j \in 1 .. Len(s)
    BY <1>1, <2>2
  <2>4. s[j] = x /\ d[s[i]] = y
    BY <1>1, <1>2, <2>1, <2>3
  <2> QED BY <2>1, <2>3, <2>4 DEF Lies
<1> QED BY <1>3, <1>4

LEMMA LiesWithout ==
  ASSUME NEW L, NEW s \in Seq(L), NEW k \in 1 .. Len(s), NEW d, Distinct(Mapped(s, d)), NEW w
  PROVE  \A x, y : x # s[k] =>
           (Lies(Without(s, k), d, x, w, y) <=> Lies(s, d, x, w, y) /\ y # d[s[k]])
<1> DEFINE t == Without(s, k)
<1>1. /\ Len(s) \in Nat /\ Len(t) = Len(s) - 1 /\ k \in 1 .. Len(s)
      /\ \A i \in 1 .. Len(s) - 1 : t[i] = IF i < k THEN s[i] ELSE s[i + 1]
  <2>1. Len(s) \in Nat /\ k \in 1 .. Len(s)
    OBVIOUS
  <2> QED BY <2>1, WithoutSeq
<1>2. \A i, j \in 1 .. Len(s) : d[s[i]] = d[s[j]] => i = j
  <2>1. Len(Mapped(s, d)) = Len(s) /\ \A i \in 1 .. Len(s) : Mapped(s, d)[i] = d[s[i]]
    BY DEF Mapped
  <2> QED BY <2>1 DEF Distinct
<1> HIDE DEF t
<1> SUFFICES ASSUME NEW x, NEW y, x # s[k]
             PROVE  Lies(t, d, x, w, y) <=> Lies(s, d, x, w, y) /\ y # d[s[k]]
  BY DEF t
<1>3. ASSUME Lies(t, d, x, w, y)
      PROVE  Lies(s, d, x, w, y) /\ y # d[s[k]]
  <2>1. PICK i \in 1 .. Len(t), j \in 1 .. Len(t) : t[j] = x /\ Onward(w, j, i) /\ d[t[i]] = y
    BY <1>3 DEF Lies
  <2> DEFINE a == IF i < k THEN i ELSE i + 1
             b == IF j < k THEN j ELSE j + 1
  <2>2. a \in 1 .. Len(s) /\ b \in 1 .. Len(s) /\ a # k
    BY <1>1
  <2>3. t[i] = s[a] /\ t[j] = s[b]
    <3>1. i \in 1 .. Len(s) - 1 /\ j \in 1 .. Len(s) - 1
      BY <1>1
    <3> QED BY <1>1, <3>1
  <2>4. Onward(w, b, a)
    BY <1>1, <2>1 DEF Onward
  <2> HIDE DEF a, b
  <2>5. y # d[s[k]]
    BY <1>1, <1>2, <2>1, <2>2, <2>3
  <2> QED BY <2>1, <2>2, <2>3, <2>4, <2>5 DEF Lies
<1>4. ASSUME Lies(s, d, x, w, y), y # d[s[k]]
      PROVE  Lies(t, d, x, w, y)
  <2>1. PICK i \in 1 .. Len(s), j \in 1 .. Len(s) : s[j] = x /\ Onward(w, j, i) /\ d[s[i]] = y
    BY <1>4 DEF Lies
  <2>2. i # k /\ j # k
    BY <1>4, <2>1
  <2> DEFINE a == IF i < k THEN i ELSE i - 1
             b == IF j < k THEN j ELSE j - 1
  <2>3. /\ a \in 1 .. Len(s) - 1 /\ b \in 1 .. Len(s) - 1
        /\ IF a < k THEN i = a ELSE i = a + 1
        /\ IF b < k THEN j = b ELSE j = b + 1
    BY <1>1, <2>2
  <2>4. Onward(w, b, a)
    BY <1>1, <2>1, <2>2 DEF Onward
  <2> HIDE DEF a, b
  <2>5. t[a] = s[i] /\ t[b] = s[j]
    BY <1>1, <2>3
  <2> QED BY <1>1, <2>1, <2>3, <2>4, <2>5 DEF Lies
<1> QED BY <1>3, <1>4
LEMMA DistinctPush ==
  ASSUME NEW L, NEW s \in Seq(L), Distinct(s), NEW e \in L, ~Has(s, e)
  PROVE  Distinct(Push(e, s)) /\ Push(e, s) \in Seq(L) /\ Len(Push(e, s)) = Len(s) + 1
<1> DEFINE t == Push(e, s)
<1>1. /\ Len(s) \in Nat /\ Len(t) = Len(s) + 1 /\ t[1] = e /\ t \in Seq(L)
      /\ \A i \in 2 .. Len(s) + 1 : t[i] = s[i - 1] /\ i - 1 \in 1 .. Len(s)
  BY DEF Push
<1>2. \A i \in 1 .. Len(s) : s[i] # e
  BY DEF Has
<1> HIDE DEF t
<1>3. Distinct(t)
  <2> SUFFICES ASSUME NEW i \in 1 .. Len(t), NEW j \in 1 .. Len(t), t[i] = t[j]
               PROVE  i = j
    BY DEF Distinct
  <2>1. CASE i = 1
    <3>1. j # 1 => j \in 2 .. Len(s) + 1
      BY <1>1
    <3> QED BY <1>1, <1>2, <2>1, <3>1
  <2>2. CASE j = 1
    <3>1. i # 1 => i \in 2 .. Len(s) + 1
      BY <1>1
    <3> QED BY <1>1, <1>2, <2>2, <3>1
  <2>3. CASE i # 1 /\ j # 1
    <3>1. i \in 2 .. Len(s) + 1 /\ j \in 2 .. Len(s) + 1
      BY <1>1, <2>3
    <3>2. i - 1 = j - 1
      BY <1>1, <3>1 DEF Distinct
    <3> QED BY <1>1, <3>1, <3>2
  <2> QED BY <2>1, <2>2, <2>3
<1> QED BY <1>1, <1>3 DEF t

LEMMA DistinctAppend ==
  ASSUME NEW L, NEW s \in Seq(L), Distinct(s), NEW e \in L, ~Has(s, e)
  PROVE  /\ Distinct(Append(s, e)) /\ Append(s, e) \in Seq(L)
         /\ Len(Append(s, e)) = Len(s) + 1
<1> DEFINE t == Append(s, e)
<1>1. /\ Len(s) \in Nat /\ Len(t) = Len(s) + 1 /\ t \in Seq(L)
      /\ \A i \in 1 .. Len(s) + 1 : t[i] = IF i = Len(s) + 1 THEN e ELSE s[i]
  OBVIOUS
<1>2. \A i \in 1 .. Len(s) : s[i] # e
  BY DEF Has
<1> HIDE DEF t
<1>3. Distinct(t)
  <2> SUFFICES ASSUME NEW i \in 1 .. Len(t), NEW j \in 1 .. Len(t), t[i] = t[j]
               PROVE  i = j
    BY DEF Distinct
  <2>1. /\ i # Len(s) + 1 => i \in 1 .. Len(s)
        /\ j # Len(s) + 1 => j \in 1 .. Len(s)
        /\ i \in 1 .. Len(s) + 1 /\ j \in 1 .. Len(s) + 1
    BY <1>1
  <2> QED BY <1>1, <1>2, <2>1 DEF Distinct
<1> QED BY <1>1, <1>3 DEF t

LEMMA DistinctWithout ==
  ASSUME NEW L, NEW s \in Seq(L), Distinct(s), NEW k \in 1 .. Len(s)
  PROVE  /\ Distinct(Without(s, k)) /\ Without(s, k) \in Seq(L)
         /\ Len(Without(s, k)) = Len(s) - 1
<1> DEFINE t == Without(s, k)
<1>1. /\ Len(s) \in Nat /\ k \in 1 .. Len(s)
  OBVIOUS
<1>2. /\ Len(t) = Len(s) - 1 /\ t \in Seq(L)
      /\ \A i \in 1 .. Len(s) - 1 : t[i] = IF i < k THEN s[i] ELSE s[i + 1]
  BY WithoutSeq
<1> HIDE DEF t
<1>3. Distinct(t)
  <2> SUFFICES ASSUME NEW i \in 1 .. Len(t), NEW j \in 1 .. Len(t), t[i] = t[j]
               PROVE  i = j
    BY DEF Distinct
  <2> DEFINE a == IF i < k THEN i ELSE i + 1
             b == IF j < k THEN j ELSE j + 1
  <2>1. a \in 1 .. Len(s) /\ b \in 1 .. Len(s) /\ (a = b => i = j)
    BY <1>1, <1>2
  <2>2. t[i] = s[a] /\ t[j] = s[b]
    BY <1>2
  <2> HIDE DEF a, b
  <2> QED BY <2>1, <2>2 DEF Distinct
<1> QED BY <1>2, <1>3 DEF t

(* One element further on, what lies ahead is one object less. *)
Beyond(s, w, k, end) ==
  IF w = "forward" THEN IF k = Len(s) THEN end ELSE s[k + 1]
  ELSE IF k = 1 THEN end ELSE s[k - 1]

LEMMA LiesNext ==
  ASSUME NEW L, NEW s \in Seq(L), Distinct(s), NEW d, Distinct(Mapped(s, d)),
         NEW w \in {"forward", "backward"},
         NEW k \in 1 .. Len(s), NEW end, ~Has(s, end)
  PROVE  \A y : Lies(s, d, Beyond(s, w, k, end), w, y)
                 <=> Lies(s, d, s[k], w, y) /\ y # d[s[k]]
<1> DEFINE m == IF w = "forward" THEN k + 1 ELSE k - 1
           x == Beyond(s, w, k, end)
<1>0. /\ Len(s) \in Nat /\ k \in 1 .. Len(s) /\ \A i \in 1 .. Len(s) : s[i] # end
  BY DEF Has
<1>1. /\ m \in Int /\ (m \in 1 .. Len(s) => x = s[m]) /\ (m \notin 1 .. Len(s) => x = end)
      /\ k \in 1 .. Len(s)
  BY <1>0 DEF Beyond
<1>6. \A i, j \in 1 .. Len(s) : d[s[i]] = d[s[j]] => i = j
  <2>1. Len(Mapped(s, d)) = Len(s) /\ \A i \in 1 .. Len(s) : Mapped(s, d)[i] = d[s[i]]
    BY DEF Mapped
  <2> QED BY <2>1 DEF Distinct
<1>2. \A i \in 1 .. Len(s) : Onward(w, m, i) <=> Onward(w, k, i) /\ i # k
  BY <1>0 DEF Onward
<1>3. \A i \in 1 .. Len(s) : Onward(w, m, i) => m \in 1 .. Len(s)
  BY <1>0 DEF Onward
<1> HIDE DEF m, x
<1> SUFFICES ASSUME NEW y
             PROVE  Lies(s, d, x, w, y) <=> Lies(s, d, s[k], w, y) /\ y # d[s[k]]
  BY DEF x
<1>4. ASSUME Lies(s, d, x, w, y)
      PROVE  Lies(s, d, s[k], w, y) /\ y # d[s[k]]
  <2>1. PICK i \in 1 .. Len(s), j \in 1 .. Len(s) : s[j] = x /\ Onward(w, j, i) /\ d[s[i]] = y
    BY <1>4 DEF Lies
  <2>2. m \in 1 .. Len(s)
    BY <1>0, <1>1, <2>1
  <2>3. j = m
    BY <1>1, <2>1, <2>2 DEF Distinct
  <2>4. Onward(w, k, i) /\ i # k
    BY <1>2, <2>1, <2>3
  <2>5. y # d[s[k]]
    BY <1>1, <1>6, <2>1, <2>4
  <2> QED BY <1>1, <2>1, <2>4, <2>5 DEF Lies
<1>5. ASSUME Lies(s, d, s[k], w, y), y # d[s[k]]
      PROVE  Lies(s, d, x, w, y)
  <2>1. PICK i \in 1 .. Len(s), j \in 1 .. Len(s) : s[j] = s[k] /\ Onward(w, j, i) /\ d[s[i]] = y
    BY <1>5 DEF Lies
  <2>2. j = k /\ i # k
    BY <1>1, <1>5, <2>1 DEF Distinct
  <2>3. Onward(w, m, i)
    BY <1>2, <2>1, <2>2
  <2>4. m \in 1 .. Len(s) /\ s[m] = x
    BY <1>1, <1>3, <2>3
  <2> QED BY <2>1, <2>3, <2>4 DEF Lies
<1> QED BY <1>4, <1>5

-----------------------------------------------------------------------------
(* Search trees as links. *)

(* The links L, R and P make a binary search tree of the nodes N with root rt:
   S[x] is the set of the nodes below x, x among them. *)
IsTree(N, L, R, P, rt, S) ==
  /\ N \subseteq Nat \ {0} /\ IsFiniteSet(N)
  /\ L \in [N -> N \cup {0}] /\ R \in [N -> N \cup {0}] /\ P \in [N -> N \cup {0}]
  /\ rt \in N \cup {0}
  /\ S \in [N \cup {0} -> SUBSET N]
  /\ S[0] = {} /\ S[rt] = N
  /\ \A x \in N : \A y \in N : y \in S[x] <=> y = x \/ y \in S[L[x]] \/ y \in S[R[x]]
  /\ \A x \in N : \A y \in S[L[x]] : y < x
  /\ \A x \in N : \A y \in S[R[x]] : x < y
  /\ \A x \in N : (L[x] # 0 => P[L[x]] = x) /\ (R[x] # 0 => P[R[x]] = x)
  /\ \A x \in N : IF x = rt THEN P[x] = 0 ELSE P[x] \in N /\ x \in {L[P[x]], R[P[x]]}

(* There are finitely many nodes below a node, and fewer below its children:
   the searches of _rbtree.h that go down come to an end. *)
LEMMA TreeSizes ==
  ASSUME NEW N, NEW L, NEW R, NEW P, NEW rt, NEW S, IsTree(N, L, R, P, rt, S)
  PROVE  \A x \in N : /\ Cardinality(S[x]) \in Nat
                      /\ L[x] # 0 => Cardinality(S[L[x]]) < Cardinality(S[x])
                      /\ R[x] # 0 => Cardinality(S[R[x]]) < Cardinality(S[x])
<1> TAKE x \in N
<1>1. IsFiniteSet(N) /\ S[x] \subseteq N /\ N \subseteq Nat /\ x \in S[x]
  BY DEF IsTree
<1>2. IsFiniteSet(S[x])
  BY <1>1, FS_Subset
<1>3. L[x] \in N \cup {0} /\ R[x] \in N \cup {0}
  BY DEF IsTree
<1>4. S[L[x]] \subseteq S[x] /\ S[R[x]] \subseteq S[x]
  BY <1>3 DEF IsTree
<1>5. x \notin S[L[x]] /\ x \notin S[R[x]]
  BY <1>1 DEF IsTree
<1>6. Cardinality(S[x]) \in Nat
  BY <1>2, FS_CardinalityType
<1>7. S[L[x]] # S[x] /\ S[R[x]] # S[x]
  BY <1>1, <1>5
<1>8. Cardinality(S[L[x]]) < Cardinality(S[x])
  BY <1>2, <1>4, <1>7, FS_Subset, FS_CardinalityType
<1>9. Cardinality(S[R[x]]) < Cardinality(S[x])
  BY <1>2, <1>4, <1>7, FS_Subset, FS_CardinalityType
<1> QED
  BY <1>6, <1>8, <1>9

(* Induction over the tree, from the leaves to the root. *)
LEMMA TreeInduct ==
  ASSUME NEW N, NEW L, NEW R, NEW P, NEW rt, NEW S, IsTree(N, L, R, P, rt, S),
         NEW Q,
         \A x \in N : (L[x] = 0 \/ L[x] \in Q) /\ (R[x] = 0 \/ R[x] \in Q) => x \in Q
  PROVE  \A x \in N : x \in Q
<1> DEFINE T == {m \in Nat : \A x \in N : Cardinality(S[x]) <= m => x \in Q}
<1>1. \A x \in N : L[x] \in N \cup {0} /\ R[x] \in N \cup {0}
  BY DEF IsTree
<1>2. 0 \in T
  <2> SUFFICES ASSUME NEW x \in N, Cardinality(S[x]) <= 0
               PROVE  x \in Q
    OBVIOUS
  <2>1. x \in S[x] /\ IsFiniteSet(S[x])
    BY FS_Subset DEF IsTree
  <2>2. Cardinality(S[x]) = 0
    BY TreeSizes
  <2> QED
    BY <2>1, <2>2, FS_EmptySet
<1>3. ASSUME NEW m \in Nat, m \in T
      PROVE  m + 1 \in T
  <2> SUFFICES ASSUME NEW x \in N, Cardinality(S[x]) <= m + 1
               PROVE  x \in Q
    OBVIOUS
  <2>1. \A y \in N : Cardinality(S[y]) \in Nat
    BY TreeSizes
  <2>2. L[x] # 0 => L[x] \in N /\ Cardinality(S[L[x]]) < Cardinality(S[x])
    BY <1>1, TreeSizes
  <2>3. R[x] # 0 => R[x] \in N /\ Cardinality(S[R[x]]) < Cardinality(S[x])
    BY <1>1, TreeSizes
  <2>4. L[x] # 0 => L[x] \in Q
    BY <2>1, <2>2, <1>3
  <2>5. R[x] # 0 => R[x] \in Q
    BY <2>1, <2>3, <1>3
  <2> QED
    BY <2>4, <2>5
<1> HIDE DEF T
<1>4. \A m \in Nat : m \in T
  BY <1>2, <1>3, NatInduct
<1> TAKE x \in N
<1>5. Cardinality(S[x]) \in Nat
  BY TreeSizes
<1> QED
  BY <1>4, <1>5 DEF T

(* Induction from the root to the leaves. *)
LEMMA RootInduct ==
  ASSUME NEW N, NEW L, NEW R, NEW P, NEW rt, NEW S, IsTree(N, L, R, P, rt, S),
         NEW Q,
         \A x \in N : x = rt \/ P[x] \in Q => x \in Q
  PROVE  \A x \in N : x \in Q
<1> DEFINE T == {x \in N : x \in Q => \A y \in S[x] : y \in Q}
<1>1. \A x \in N : L[x] \in N \cup {0} /\ R[x] \in N \cup {0} /\ S[x] \subseteq N
  BY DEF IsTree
<1>2. ASSUME NEW x \in N, L[x] = 0 \/ L[x] \in T, R[x] = 0 \/ R[x] \in T
      PROVE  x \in T
  <2> SUFFICES ASSUME x \in Q, NEW y \in S[x]
               PROVE  y \in Q
    OBVIOUS
  <2>1. y = x \/ y \in S[L[x]] \/ y \in S[R[x]]
    BY <1>1 DEF IsTree
  <2>2. CASE y \in S[L[x]]
    <3>1. L[x] # 0
      BY <2>2 DEF IsTree
    <3>2. L[x] \in N /\ P[L[x]] = x
      BY <1>1, <3>1 DEF IsTree
    <3>3. L[x] \in Q
      BY <3>2
    <3> QED
      BY <1>2, <3>1, <3>3, <2>2
  <2>3. CASE y \in S[R[x]]
    <3>1. R[x] # 0
      BY <2>3 DEF IsTree
    <3>2. R[x] \in N /\ P[R[x]] = x
      BY <1>1, <3>1 DEF IsTree
    <3>3. R[x] \in Q
      BY <3>2
    <3> QED
      BY <1>2, <3>1, <3>3, <2>3
  <2> QED
    BY <2>1, <2>2, <2>3
<1>3. \A x \in N : x \in T
  <2> HIDE DEF T
  <2> QED
    BY <1>2, TreeInduct
<1> TAKE z \in N
<1>4. rt \in N
  BY DEF IsTree
<1>5. rt \in Q /\ S[rt] = N
  BY <1>4 DEF IsTree
<1> QED
  BY <1>3, <1>4, <1>5

(* What is below a node below x is below x. *)
LEMMA Nested ==
  ASSUME NEW N, NEW L, NEW R, NEW P, NEW rt, NEW S, IsTree(N, L, R, P, rt, S)
  PROVE  \A x \in N : \A y \in S[x] : S[y] \subseteq S[x]
<1> DEFINE T == {x \in N : \A y \in S[x] : S[y] \subseteq S[x]}
<1>1. \A x \in N : L[x] \in N \cup {0} /\ R[x] \in N \cup {0} /\ S[x] \subseteq N
  BY DEF IsTree
<1>2. \A x \in N : S[L[x]] \subseteq S[x] /\ S[R[x]] \subseteq S[x]
  BY DEF IsTree
<1>3. ASSUME NEW x \in N, L[x] = 0 \/ L[x] \in T, R[x] = 0 \/ R[x] \in T
      PROVE  x \in T
  <2> SUFFICES ASSUME NEW y \in S[x]
               PROVE  S[y] \subseteq S[x]
    OBVIOUS
  <2>1. y = x \/ y \in S[L[x]] \/ y \in S[R[x]]
    BY <1>1 DEF IsTree
  <2>2. S[0] = {}
    BY DEF IsTree
  <2> QED
    BY <2>1, <2>2, <1>2, <1>3
<1> HIDE DEF T
<1>4. \A x \in N : x \in T
  BY <1>3, TreeInduct
<1> QED
  BY <1>4 DEF T

(* Two nodes that are below each other are the same. *)
LEMMA OneAbove ==
  ASSUME NEW N, NEW L, NEW R, NEW P, NEW rt, NEW S, IsTree(N, L, R, P, rt, S),
         NEW x \in N, NEW y \in S[x], x \in S[y]
  PROVE  x = y
<1>1. L[x] \in N \cup {0} /\ R[x] \in N \cup {0} /\ S[x] \subseteq N /\ S[0] = {} /\ x \in Nat
  BY DEF IsTree
<1>2. y \notin S[L[x]]
  <2> SUFFICES ASSUME y \in S[L[x]] PROVE FALSE
    OBVIOUS
  <2>1. x \in S[L[x]]
    BY <1>1, Nested
  <2> QED
    BY <1>1, <2>1 DEF IsTree
<1>3. y \notin S[R[x]]
  <2> SUFFICES ASSUME y \in S[R[x]] PROVE FALSE
    OBVIOUS
  <2>1. x \in S[R[x]]
    BY <1>1, Nested
  <2> QED
    BY <1>1, <2>1 DEF IsTree
<1> QED
  BY <1>1, <1>2, <1>3 DEF IsTree

(* The parent of a node below x is below x too, unless the node is x. *)
LEMMA ParentBelow ==
  ASSUME NEW N, NEW L, NEW R, NEW P, NEW rt, NEW S, IsTree(N, L, R, P, rt, S)
  PROVE  \A x \in N : \A y \in S[x] : y # x => P[y] \in S[x]
<1> DEFINE T == {x \in N : \A y \in S[x] : y # x => P[y] \in S[x]}
<1>1. \A x \in N : /\ L[x] \in N \cup {0} /\ R[x] \in N \cup {0} /\ S[x] \subseteq N
                   /\ x \in S[x]
  BY DEF IsTree
<1>2. \A x \in N : S[L[x]] \subseteq S[x] /\ S[R[x]] \subseteq S[x]
  BY DEF IsTree
<1>3. ASSUME NEW x \in N, L[x] = 0 \/ L[x] \in T, R[x] = 0 \/ R[x] \in T
      PROVE  x \in T
  <2> SUFFICES ASSUME NEW y \in S[x], y # x
               PROVE  P[y] \in S[x]
    OBVIOUS
  <2>1. y \in S[L[x]] \/ y \in S[R[x]]
    BY <1>1 DEF IsTree
  <2>2. S[0] = {} /\ (L[x] # 0 => P[L[x]] = x) /\ (R[x] # 0 => P[R[x]] = x)
    BY DEF IsTree
  <2>3. CASE y \in S[L[x]]
    BY <2>3, <2>2, <1>1, <1>2, <1>3
  <2>4. CASE y \in S[R[x]]
    BY <2>4, <2>2, <1>1, <1>2, <1>3
  <2> QED
    BY <2>1, <2>3, <2>4
<1> HIDE DEF T
<1>4. \A x \in N : x \in T
  BY <1>3, TreeInduct
<1> QED
  BY <1>4 DEF T

(* Each node is below its parent. *)
LEMMA BelowParent ==
  ASSUME NEW N, NEW L, NEW R, NEW P, NEW rt, NEW S, IsTree(N, L, R, P, rt, S)
  PROVE  \A y \in N : /\ P[y] # 0 => P[y] \in N /\ y \in S[P[y]] /\ P[y] \notin S[y]
                      /\ P[y] = 0 <=> y = rt
<1> TAKE y \in N
<1>1. P[y] = 0 <=> y = rt
  BY DEF IsTree
<1>2. ASSUME P[y] # 0
      PROVE  P[y] \in N /\ y \in S[P[y]]
  BY <1>2 DEF IsTree
<1>3. ASSUME P[y] # 0
      PROVE  P[y] \notin S[y]
  <2>1. P[y] # y
    <3> SUFFICES ASSUME P[y] = y PROVE FALSE
      OBVIOUS
    <3>1. y \in {L[y], R[y]} /\ y \in S[y] /\ y \in Nat
      BY <1>2, <1>3 DEF IsTree
    <3> QED
      BY <3>1 DEF IsTree
  <2> QED
    BY <1>2, <1>3, <2>1, OneAbove
<1> QED
  BY <1>1, <1>2, <1>3

(* A new leaf k below p, whose neighbour it is in the order. *)
Attaches(N, L, R, P, k, p, toLeft, N2, L2, R2, P2) ==
  /\ k \in Nat \ {0} /\ k \notin N /\ p \in N /\ toLeft \in BOOLEAN
  /\ IF toLeft THEN L[p] = 0 /\ k < p ELSE R[p] = 0 /\ p < k
  /\ \A y \in N : y # p => (y < p <=> y < k)
  /\ N2 = N \cup {k}
  /\ L2 = [x \in N2 |-> IF x = k THEN 0 ELSE IF x = p /\ toLeft THEN k ELSE L[x]]
  /\ R2 = [x \in N2 |-> IF x = k THEN 0 ELSE IF x = p /\ ~toLeft THEN k ELSE R[x]]
  /\ P2 = [x \in N2 |-> IF x = k THEN p ELSE P[x]]

(* unbalanced_insert and insert( hint, v ): a new leaf at a free place that its
   key belongs to leaves a search tree of one node more. *)
LEMMA Attached ==
  ASSUME NEW N, NEW L, NEW R, NEW P, NEW rt, NEW S, NEW k, NEW p, NEW toLeft,
         NEW N2, NEW L2, NEW R2, NEW P2,
         IsTree(N, L, R, P, rt, S),
         Attaches(N, L, R, P, k, p, toLeft, N2, L2, R2, P2)
  PROVE  \E S2 : IsTree(N2, L2, R2, P2, rt, S2)
<1> USE DEF Attaches
<1> DEFINE S2 == [x \in N2 \cup {0} |->
                    IF x = k THEN {k} ELSE IF p \in S[x] THEN S[x] \cup {k} ELSE S[x]]
<1>1. /\ N \subseteq Nat \ {0} /\ IsFiniteSet(N)
      /\ \A x \in N : L[x] \in N \cup {0} /\ R[x] \in N \cup {0} /\ P[x] \in N \cup {0}
      /\ rt \in N \cup {0} /\ S[0] = {} /\ S[rt] = N
      /\ \A x \in N \cup {0} : S[x] \subseteq N
  BY DEF IsTree
<1>2. \A x \in N : \A y \in N : y \in S[x] <=> y = x \/ y \in S[L[x]] \/ y \in S[R[x]]
  BY DEF IsTree
<1>3. rt \in N
  BY <1>1
<1>4. N2 \subseteq Nat \ {0} /\ IsFiniteSet(N2)
  BY <1>1, FS_AddElement
<1>5. L2 \in [N2 -> N2 \cup {0}] /\ R2 \in [N2 -> N2 \cup {0}] /\ P2 \in [N2 -> N2 \cup {0}]
  BY <1>1
<1>6. S2 \in [N2 \cup {0} -> SUBSET N2] /\ S2[0] = {} /\ S2[rt] = N2
  <2>1. ASSUME NEW x \in N2 \cup {0}
        PROVE  S2[x] \subseteq N2
    <3>1. x # k => S[x] \subseteq N
      BY <1>1
    <3> QED
      BY <3>1
  <2>2. p \notin S[0] /\ 0 # k /\ rt # k /\ p \in S[rt]
    BY <1>1, <1>3
  <2>3. S2[0] = {}
    BY <2>2, <1>1
  <2>4. S2[rt] = N2
    BY <2>2, <1>1, <1>3
  <2> QED
    BY <2>1, <2>3, <2>4
<1>7a. \A x \in N2 \cup {0} : \A y \in N2 :
         y \in S2[x] <=> IF x = k THEN y = k ELSE y \in S[x] \/ (y = k /\ p \in S[x])
  <2> TAKE x \in N2 \cup {0}
  <2> TAKE y \in N2
  <2>1. S2[x] = IF x = k THEN {k} ELSE IF p \in S[x] THEN S[x] \cup {k} ELSE S[x]
    OBVIOUS
  <2>2. x # k => x \in N \cup {0}
    OBVIOUS
  <2>3. x # k => S[x] \subseteq N
    BY <2>2, <1>1
  <2> QED
    BY <2>1, <2>3
<1>7b. \A x \in N2 : /\ L2[x] = IF x = k THEN 0 ELSE IF x = p /\ toLeft THEN k ELSE L[x]
                     /\ R2[x] = IF x = k THEN 0 ELSE IF x = p /\ ~toLeft THEN k ELSE R[x]
                     /\ P2[x] = IF x = k THEN p ELSE P[x]
  OBVIOUS
<1>7. k \in N2 /\ (\A x \in N : x \in N2) /\ 0 \in N2 \cup {0} /\ p \in N2
  OBVIOUS
<1> HIDE DEF S2
<1>7c. \A x \in N \cup {0} : \A y \in N : y \in S2[x] <=> y \in S[x]
  BY <1>7a, <1>1
<1>7d. \A y \in N : y \notin S2[k]
  BY <1>7a
<1>8. \A x \in N2 : \A y \in N2 : y \in S2[x] <=> y = x \/ y \in S2[L2[x]] \/ y \in S2[R2[x]]
  <2> TAKE x \in N2
  <2> TAKE y \in N2
  <2>1. CASE x = k
    BY <2>1, <1>7, <1>7a, <1>7b, <1>1
  <2>2. CASE x # k /\ y = k
    <3>1. x \in N /\ k \notin S[x] /\ L[x] # k /\ R[x] # k /\ k \notin S[L[x]] /\ k \notin S[R[x]]
      BY <2>2, <1>1
    <3>2. p \in S[x] <=> p = x \/ p \in S[L[x]] \/ p \in S[R[x]]
      BY <3>1, <1>2
    <3>3. p \notin S[0] /\ L[x] \in N \cup {0} /\ R[x] \in N \cup {0}
      BY <1>1, <3>1
    <3>4. CASE x = p /\ toLeft
      BY <3>1, <3>2, <3>3, <3>4, <2>2, <1>7, <1>7a, <1>7b
    <3>5. CASE x = p /\ ~toLeft
      BY <3>1, <3>2, <3>3, <3>5, <2>2, <1>7, <1>7a, <1>7b
    <3>6. CASE x # p
      BY <3>1, <3>2, <3>3, <3>6, <2>2, <1>7, <1>7a, <1>7b
    <3> QED
      BY <3>4, <3>5, <3>6
  <2>3. CASE x # k /\ y # k
    <3>1. x \in N /\ y \in N
      BY <2>3
    <3>2. y \notin S[0] /\ L[x] \in N \cup {0} /\ R[x] \in N \cup {0} /\ L[x] # k /\ R[x] # k
      BY <1>1, <3>1
    <3>3. y \in S[x] <=> y = x \/ y \in S[L[x]] \/ y \in S[R[x]]
      BY <3>1, <1>2
    <3>4. CASE x = p /\ toLeft
      BY <3>1, <3>2, <3>3, <3>4, <2>3, <1>7, <1>7b, <1>7c, <1>7d
    <3>5. CASE x = p /\ ~toLeft
      BY <3>1, <3>2, <3>3, <3>5, <2>3, <1>7, <1>7b, <1>7c, <1>7d
    <3>6. CASE x # p
      BY <3>1, <3>2, <3>3, <3>6, <2>3, <1>7, <1>7b, <1>7c, <1>7d
    <3> QED
      BY <3>4, <3>5, <3>6
  <2> QED
    BY <2>1, <2>2, <2>3
<1>9. \A x \in N2 : \A y \in S2[L2[x]] : y < x
  <2> SUFFICES ASSUME NEW x \in N2, NEW y \in S2[L2[x]] PROVE y < x
    OBVIOUS
  <2>1. L2[x] \in N2 \cup {0} /\ y \in N2
    BY <1>5, <1>6
  <2>2. x # k
    BY <2>1, <1>7, <1>7a, <1>7b, <1>1
  <2>3. x \in N /\ x \in Nat /\ p \in Nat
    BY <2>2, <1>1
  <2>4. CASE x = p /\ toLeft
    <3>1. L2[x] = k
      BY <2>2, <2>4, <1>7b
    <3>2. y = k
      BY ONLY <3>1, <2>1, <1>7, <1>7a, y \in S2[L2[x]]
    <3>3. k < p
      BY <2>4
    <3> QED
      BY ONLY <3>2, <3>3, <2>4
  <2>5. CASE ~(x = p /\ toLeft)
    <3>1. L2[x] = L[x] /\ L[x] # k
      BY <2>2, <2>3, <2>5, <1>7, <1>7a, <1>7b, <1>1
    <3>2. y \in S[L[x]] \/ (y = k /\ p \in S[L[x]])
      BY <3>1, <2>1, <1>7, <1>7a, <1>7b
    <3>3. \A z \in S[L[x]] : z < x
      BY <2>3 DEF IsTree
    <3>4. x # p => (x < p <=> x < k)
      BY <2>3
    <3>5. k \in Nat /\ x # k
      BY <2>2
    <3>6. p \in S[L[x]] => k < x
      BY ONLY <3>3, <3>4, <3>5, <2>3
    <3> QED
      BY <3>2, <3>3, <3>6
  <2> QED
    BY <2>4, <2>5
<1>10. \A x \in N2 : \A y \in S2[R2[x]] : x < y
  <2> SUFFICES ASSUME NEW x \in N2, NEW y \in S2[R2[x]] PROVE x < y
    OBVIOUS
  <2>1. R2[x] \in N2 \cup {0} /\ y \in N2
    BY <1>5, <1>6
  <2>2. x # k
    BY <2>1, <1>7, <1>7a, <1>7b, <1>1
  <2>3. x \in N /\ x \in Nat /\ p \in Nat
    BY <2>2, <1>1
  <2>4. CASE x = p /\ ~toLeft
    <3>1. R2[x] = k
      BY <2>2, <2>4, <1>7b
    <3>2. y = k
      BY ONLY <3>1, <2>1, <1>7, <1>7a, y \in S2[R2[x]]
    <3>3. p < k
      BY <2>4
    <3> QED
      BY ONLY <3>2, <3>3, <2>4
  <2>5. CASE ~(x = p /\ ~toLeft)
    <3>1. R2[x] = R[x] /\ R[x] # k
      BY <2>2, <2>3, <2>5, <1>7, <1>7a, <1>7b, <1>1
    <3>2. y \in S[R[x]] \/ (y = k /\ p \in S[R[x]])
      BY <3>1, <2>1, <1>7, <1>7a, <1>7b
    <3>3. \A z \in S[R[x]] : x < z
      BY <2>3 DEF IsTree
    <3>4. x # p => (x < p <=> x < k)
      BY <2>3
    <3>5. k \in Nat /\ x # k
      BY <2>2
    <3>6. p \in S[R[x]] => x < k
      BY ONLY <3>3, <3>4, <3>5, <2>3
    <3> QED
      BY <3>2, <3>3, <3>6
  <2> QED
    BY <2>4, <2>5
<1>11. \A x \in N2 : (L2[x] # 0 => P2[L2[x]] = x) /\ (R2[x] # 0 => P2[R2[x]] = x)
  <2> TAKE x \in N2
  <2>1. x \in N => (L[x] # 0 => P[L[x]] = x) /\ (R[x] # 0 => P[R[x]] = x)
    BY DEF IsTree
  <2> QED
    BY <2>1, <1>7, <1>7a, <1>7b, <1>1
<1>12. \A x \in N2 : IF x = rt THEN P2[x] = 0 ELSE P2[x] \in N2 /\ x \in {L2[P2[x]], R2[P2[x]]}
  <2> TAKE x \in N2
  <2>1. CASE x = k
    BY <2>1, <1>1, <1>3, <1>7, <1>7a, <1>7b
  <2>2. CASE x # k
    <3>1. x \in N /\ IF x = rt THEN P[x] = 0 ELSE P[x] \in N /\ x \in {L[P[x]], R[P[x]]}
      BY <2>2 DEF IsTree
    <3>2. P2[x] = P[x] /\ x # 0
      BY <2>2, <1>7, <1>7a, <1>7b, <3>1, <1>1
    <3>3. ASSUME x # rt
          PROVE  x \in {L2[P2[x]], R2[P2[x]]}
      <4>1. P[x] \in N /\ P[x] # k
        BY <3>1, <3>3
      <4> QED
        BY <3>1, <3>2, <3>3, <4>1, <1>7, <1>7a, <1>7b
    <3> QED
      BY <3>1, <3>2, <3>3
  <2> QED
    BY <2>1, <2>2
<1> QED
  BY <1>4, <1>5, <1>6, <1>8, <1>9, <1>10, <1>11, <1>12, <1>1 DEF IsTree

(* Where a node is and what is around it. *)
LEMMA TreeFacts ==
  ASSUME NEW N, NEW L, NEW R, NEW P, NEW rt, NEW S, IsTree(N, L, R, P, rt, S)
  PROVE  /\ 0 \notin N /\ N \subseteq Nat /\ IsFiniteSet(N) /\ S[0] = {} /\ S[rt] = N
         /\ rt \in N \cup {0}
         /\ \A x \in N : /\ L[x] \in N \cup {0} /\ R[x] \in N \cup {0} /\ P[x] \in N \cup {0}
                         /\ x \in S[x]
                         /\ L[x] # 0 => L[x] < x
                         /\ R[x] # 0 => x < R[x]
                         /\ x # rt => P[x] \in N /\ x \in {L[P[x]], R[P[x]]}
                         /\ L[x] # 0 => P[L[x]] = x
                         /\ R[x] # 0 => P[R[x]] = x
         /\ \A x \in N \cup {0} : S[x] \subseteq N
         /\ N # {} => rt \in N
         /\ rt \in N => P[rt] = 0
<1>1. /\ 0 \notin N /\ N \subseteq Nat /\ IsFiniteSet(N) /\ S[0] = {} /\ S[rt] = N
      /\ rt \in N \cup {0} /\ \A x \in N \cup {0} : S[x] \subseteq N
  BY DEF IsTree
<1>2. N # {} => rt \in N
  BY <1>1
<1>3. rt \in N => P[rt] = 0
  BY DEF IsTree
<1> SUFFICES ASSUME NEW x \in N
             PROVE  /\ L[x] \in N \cup {0} /\ R[x] \in N \cup {0} /\ P[x] \in N \cup {0}
                    /\ x \in S[x]
                    /\ L[x] # 0 => L[x] < x
                    /\ R[x] # 0 => x < R[x]
                    /\ x # rt => P[x] \in N /\ x \in {L[P[x]], R[P[x]]}
                    /\ L[x] # 0 => P[L[x]] = x
                    /\ R[x] # 0 => P[R[x]] = x
  BY <1>1, <1>2, <1>3
<1>4. L[x] \in N \cup {0} /\ R[x] \in N \cup {0} /\ P[x] \in N \cup {0}
  BY DEF IsTree
<1>5. \A y \in N : y \in S[y]
  BY DEF IsTree
<1>6. /\ x # rt => P[x] \in N /\ x \in {L[P[x]], R[P[x]]}
      /\ L[x] # 0 => P[L[x]] = x
      /\ R[x] # 0 => P[R[x]] = x
  BY DEF IsTree
<1>7. L[x] # 0 => L[x] < x
  BY <1>4, <1>5 DEF IsTree
<1>8. R[x] # 0 => x < R[x]
  BY <1>4, <1>5 DEF IsTree
<1> QED
  BY <1>4, <1>5, <1>6, <1>7, <1>8

(* A node without a left or a right child gives its place to the other child. *)
Unlinks(N, L, R, P, rt, d, c, toLeft, N2, L2, R2, P2, rt2) ==
  /\ d \in N /\ (L[d] = 0 \/ R[d] = 0)
  /\ c = IF L[d] # 0 THEN L[d] ELSE R[d]
  /\ toLeft = (P[d] # 0 /\ d = L[P[d]])
  /\ N2 = N \ {d}
  /\ L2 = [x \in N2 |-> IF x = P[d] /\ toLeft THEN c ELSE L[x]]
  /\ R2 = [x \in N2 |-> IF x = P[d] /\ ~toLeft THEN c ELSE R[x]]
  /\ P2 = [x \in N2 |-> IF x = c THEN P[d] ELSE P[x]]
  /\ rt2 = IF P[d] = 0 THEN c ELSE rt

(* erase( iterator ) of a node with one child or none: the rest, with the child
   in its place, is a search tree. *)
LEMMA Unlinked ==
  ASSUME NEW N, NEW L, NEW R, NEW P, NEW rt, NEW S, NEW d, NEW c, NEW toLeft,
         NEW N2, NEW L2, NEW R2, NEW P2, NEW rt2,
         IsTree(N, L, R, P, rt, S),
         Unlinks(N, L, R, P, rt, d, c, toLeft, N2, L2, R2, P2, rt2)
  PROVE  \E S2 : IsTree(N2, L2, R2, P2, rt2, S2)
<1> USE DEF Unlinks
<1> DEFINE S2 == [x \in N2 \cup {0} |-> S[x] \ {d}]
           p == P[d]
<1>1. /\ 0 \notin N /\ N \subseteq Nat /\ IsFiniteSet(N) /\ S[0] = {} /\ S[rt] = N
      /\ rt \in N /\ P[rt] = 0
      /\ \A x \in N \cup {0} : S[x] \subseteq N
  BY TreeFacts
<1>2. \A x \in N : /\ L[x] \in N \cup {0} /\ R[x] \in N \cup {0} /\ P[x] \in N \cup {0}
                   /\ x \in S[x]
                   /\ L[x] # 0 => L[x] < x
                   /\ R[x] # 0 => x < R[x]
                   /\ x # rt => P[x] \in N /\ x \in {L[P[x]], R[P[x]]}
                   /\ L[x] # 0 => P[L[x]] = x
                   /\ R[x] # 0 => P[R[x]] = x
  BY TreeFacts
<1>3. \A x \in N : \A y \in N : y \in S[x] <=> y = x \/ y \in S[L[x]] \/ y \in S[R[x]]
  BY DEF IsTree
<1>4. /\ p # 0 => p \in N /\ d \in S[p] /\ p \notin S[d]
      /\ p = 0 <=> d = rt
  BY BelowParent
<1>5. c \in N \cup {0} /\ (c # 0 => P[c] = d) /\ c # d
  BY <1>1, <1>2
<1>6. p # 0 => p # d
  BY <1>2, <1>4
<1>7. c \in N2 \cup {0}
  BY <1>5
<1>8. \A y \in N : y \in S[c] <=> y \in S[d] /\ y # d
  <2> TAKE y \in N
  <2>1. y \in S[d] <=> y = d \/ y \in S[L[d]] \/ y \in S[R[d]]
    BY <1>3
  <2>2. d \notin S[L[d]] /\ d \notin S[R[d]]
    BY <1>1 DEF IsTree
  <2> QED
    BY <2>1, <2>2, <1>1
<1>9. \A x \in N2 : x # c => P[x] # d
  <2> SUFFICES ASSUME NEW x \in N2, P[x] = d PROVE x = c
    OBVIOUS
  <2>1. x # rt /\ x # 0 /\ x \in N
    BY <1>1
  <2>2. x \in {L[d], R[d]}
    BY <2>1, <1>2
  <2> QED
    BY <2>1, <2>2
<1>10. N2 \subseteq Nat \ {0} /\ IsFiniteSet(N2)
  BY <1>1, FS_RemoveElement
<1>11. rt2 \in N2 \cup {0}
  BY <1>1, <1>4, <1>7
<1>12. /\ \A x \in N2 : /\ L2[x] = IF x = p /\ toLeft THEN c ELSE L[x]
                        /\ R2[x] = IF x = p /\ ~toLeft THEN c ELSE R[x]
                        /\ P2[x] = IF x = c THEN p ELSE P[x]
       /\ \A x \in N2 \cup {0} : S2[x] = S[x] \ {d}
  BY <1>1
<1>13. toLeft <=> p # 0 /\ L[p] = d
  OBVIOUS
<1>14. p # 0 => IF toLeft THEN L[p] = d /\ R[p] # d ELSE R[p] = d /\ L[p] # d
  <2> SUFFICES ASSUME p # 0
               PROVE  IF toLeft THEN L[p] = d /\ R[p] # d ELSE R[p] = d /\ L[p] # d
    OBVIOUS
  <2>1. p \in N /\ p \in Nat /\ d \in Nat /\ d # 0 /\ d \in {L[p], R[p]}
    BY <1>1, <1>2, <1>4
  <2>2. ~(L[p] = d /\ R[p] = d)
    BY <2>1, <1>2
  <2> QED
    BY <2>1, <2>2, <1>13
<1>15. \A x \in N2 : (L[x] = d => x = p /\ toLeft) /\ (R[x] = d => x = p /\ ~toLeft)
  BY <1>2, <1>1, <1>13, <1>14
<1>16. \A x \in N2 : L2[x] \in N2 \cup {0} /\ R2[x] \in N2 \cup {0}
  BY <1>12, <1>15, <1>7, <1>2
<1>17. \A x \in N2 : P2[x] \in N2 \cup {0}
  <2> TAKE x \in N2
  <2>1. CASE x = c
    BY <2>1, <1>12, <1>4, <1>6
  <2>2. CASE x # c
    BY <2>2, <1>12, <1>9, <1>2
  <2> QED
    BY <2>1, <2>2
<1>18. L2 \in [N2 -> N2 \cup {0}] /\ R2 \in [N2 -> N2 \cup {0}] /\ P2 \in [N2 -> N2 \cup {0}]
  BY <1>16, <1>17
<1>19. S2 \in [N2 \cup {0} -> SUBSET N2] /\ S2[0] = {}
  BY <1>1
<1> HIDE DEF S2, p
<1>20. S2[rt2] = N2
  <2>1. CASE p = 0
    <3>1. rt2 = c /\ d = rt
      BY <2>1, <1>4 DEF p
    <3>2. S2[c] = S[c] \ {d} /\ S[c] \subseteq N
      BY <1>7, <1>12, <1>1
    <3>3. \A y \in N : y \in S[d]
      BY <3>1, <1>1
    <3> QED
      BY <3>1, <3>2, <3>3, <1>8
  <2>2. CASE p # 0
    BY <2>2, <1>4, <1>11, <1>12, <1>1 DEF p
  <2> QED
    BY <2>1, <2>2
<1>21. /\ \A x \in N2 : \A y \in N2 : y \in S2[L2[x]] <=> y \in S[L[x]]
       /\ \A x \in N2 : \A y \in N2 : y \in S2[R2[x]] <=> y \in S[R[x]]
  <2>1. \A x \in N2 \cup {0} : \A y \in N2 : y \in S2[x] <=> y \in S[x]
    BY <1>12
  <2>2. \A y \in N2 : y \in S2[c] <=> y \in S[d]
    BY <2>1, <1>7, <1>8
  <2>3. ASSUME NEW x \in N2, NEW y \in N2
        PROVE  y \in S2[L2[x]] <=> y \in S[L[x]]
    <3>1. CASE x = p /\ toLeft
      BY <3>1, <2>2, <1>12, <1>13
    <3>2. CASE ~(x = p /\ toLeft)
      BY <3>2, <2>1, <1>12, <1>16
    <3> QED
      BY <3>1, <3>2
  <2>4. ASSUME NEW x \in N2, NEW y \in N2
        PROVE  y \in S2[R2[x]] <=> y \in S[R[x]]
    <3>1. CASE x = p /\ ~toLeft
      BY <3>1, <2>2, <1>12, <1>14, <1>1
    <3>2. CASE ~(x = p /\ ~toLeft)
      BY <3>2, <2>1, <1>12, <1>16
    <3> QED
      BY <3>1, <3>2
  <2> QED
    BY <2>3, <2>4
<1>22. \A x \in N2 : \A y \in N2 : y \in S2[x] <=> y = x \/ y \in S2[L2[x]] \/ y \in S2[R2[x]]
  BY <1>21, <1>12, <1>3
<1>23. \A x \in N2 : \A y \in S2[L2[x]] : y < x
  <2> SUFFICES ASSUME NEW x \in N2, NEW y \in S2[L2[x]] PROVE y < x
    OBVIOUS
  <2>1. y \in N2
    BY <1>16, <1>19
  <2>2. y \in S[L[x]]
    BY <2>1, <1>21
  <2> QED
    BY <2>2 DEF IsTree
<1>24. \A x \in N2 : \A y \in S2[R2[x]] : x < y
  <2> SUFFICES ASSUME NEW x \in N2, NEW y \in S2[R2[x]] PROVE x < y
    OBVIOUS
  <2>1. y \in N2
    BY <1>16, <1>19
  <2>2. y \in S[R[x]]
    BY <2>1, <1>21
  <2> QED
    BY <2>2 DEF IsTree
<1>25. \A x \in N2 : (L2[x] # 0 => P2[L2[x]] = x) /\ (R2[x] # 0 => P2[R2[x]] = x)
  BY <1>12, <1>16, <1>2, <1>5, <1>13, <1>15
<1>26. \A x \in N2 : IF x = rt2 THEN P2[x] = 0 ELSE P2[x] \in N2 /\ x \in {L2[P2[x]], R2[P2[x]]}
  <2> SUFFICES ASSUME NEW x \in N2
               PROVE  IF x = rt2 THEN P2[x] = 0
                      ELSE P2[x] \in N2 /\ x \in {L2[P2[x]], R2[P2[x]]}
    OBVIOUS
  <2>1. CASE x = c /\ p = 0
    BY <2>1, <1>12 DEF p
  <2>2. CASE x = c /\ p # 0
    <3>1. x # rt /\ rt2 = rt /\ P2[x] = p /\ p \in N2
      BY <2>2, <1>12, <1>5, <1>4, <1>6, <1>1, TreeFacts DEF p
    <3> QED
      BY <3>1, <2>2, <1>12
  <2>3. CASE x # c
    <3>1. P2[x] = P[x] /\ P[x] # d
      BY <2>3, <1>9, <1>12
    <3>2. CASE x = rt
      <4>1. p # 0 /\ rt2 = rt
        BY <3>2, <1>4 DEF p
      <4> QED
        BY <3>1, <3>2, <4>1, TreeFacts
    <3>3. CASE x # rt
      <4>1. P[x] \in N2 /\ x \in {L[P[x]], R[P[x]]} /\ x # rt2
        BY <3>1, <3>3, <1>2, <2>3
      <4>2. P[x] = p => x \in {L2[P[x]], R2[P[x]]}
        BY <4>1, <1>12, <1>14, <1>1
      <4>3. P[x] # p => x \in {L2[P[x]], R2[P[x]]}
        BY <4>1, <1>12
      <4> QED
        BY <3>1, <4>1, <4>2, <4>3
    <3> QED
      BY <3>2, <3>3
  <2> QED
    BY <2>1, <2>2, <2>3
<1>27. IsTree(N2, L2, R2, P2, rt2, S2)
  BY <1>10, <1>11, <1>18, <1>19, <1>20, <1>22, <1>23, <1>24, <1>25, <1>26 DEF IsTree, S2
<1> QED
  BY <1>27

(* A node e that was not in the tree takes the place of d, its neighbour in the
   order. *)
Renames(N, L, R, P, rt, d, e, N2, L2, R2, P2, rt2) ==
  /\ d \in N /\ e \in Nat \ {0} /\ e \notin N
  /\ \A y \in N : y # d => (y < d <=> y < e)
  /\ N2 = (N \ {d}) \cup {e}
  /\ L2 = [x \in N2 |-> IF x = e THEN L[d] ELSE IF L[x] = d THEN e ELSE L[x]]
  /\ R2 = [x \in N2 |-> IF x = e THEN R[d] ELSE IF R[x] = d THEN e ELSE R[x]]
  /\ P2 = [x \in N2 |-> IF x = e THEN P[d] ELSE IF P[x] = d THEN e ELSE P[x]]
  /\ rt2 = IF rt = d THEN e ELSE rt

(* Such a node may take over the links of its neighbour: they stay a search tree.
   With Unlinked, the way a predecessor replaces an erased node. *)
LEMMA RenameKeepsTree ==
  ASSUME NEW N, NEW L, NEW R, NEW P, NEW rt, NEW S, NEW d, NEW e,
         NEW N2, NEW L2, NEW R2, NEW P2, NEW rt2,
         IsTree(N, L, R, P, rt, S),
         Renames(N, L, R, P, rt, d, e, N2, L2, R2, P2, rt2)
  PROVE  \E S2 : IsTree(N2, L2, R2, P2, rt2, S2)
<1> USE DEF Renames
<1> DEFINE Old(x) == IF x = e THEN d ELSE x
           S2 == [x \in N2 \cup {0} |->
                    IF d \in S[Old(x)] THEN (S[Old(x)] \ {d}) \cup {e} ELSE S[Old(x)]]
<1>1. /\ 0 \notin N /\ N \subseteq Nat /\ IsFiniteSet(N) /\ S[0] = {} /\ S[rt] = N
      /\ rt \in N /\ P[rt] = 0
      /\ \A x \in N \cup {0} : S[x] \subseteq N
  BY TreeFacts
<1>2. \A x \in N : /\ L[x] \in N \cup {0} /\ R[x] \in N \cup {0} /\ P[x] \in N \cup {0}
                   /\ x \in S[x]
                   /\ L[x] # 0 => L[x] < x
                   /\ R[x] # 0 => x < R[x]
                   /\ x # rt => P[x] \in N /\ x \in {L[P[x]], R[P[x]]}
                   /\ L[x] # 0 => P[L[x]] = x
                   /\ R[x] # 0 => P[R[x]] = x
  BY TreeFacts
<1>3. \A x \in N : \A y \in N : y \in S[x] <=> y = x \/ y \in S[L[x]] \/ y \in S[R[x]]
  BY DEF IsTree
<1>4. \A x \in N : (\A y \in S[L[x]] : y < x) /\ (\A y \in S[R[x]] : x < y)
  BY DEF IsTree
<1>5. P[d] # d /\ L[d] # d /\ R[d] # d
  BY <1>1, <1>2, BelowParent
<1>6. N2 \subseteq Nat \ {0} /\ IsFiniteSet(N2)
  <2>1. IsFiniteSet(N \ {d})
    BY <1>1, FS_RemoveElement
  <2> QED
    BY <1>1, <2>1, FS_AddElement
<1>7. /\ \A x \in N2 : /\ L2[x] = IF x = e THEN L[d] ELSE IF L[x] = d THEN e ELSE L[x]
                       /\ R2[x] = IF x = e THEN R[d] ELSE IF R[x] = d THEN e ELSE R[x]
                       /\ P2[x] = IF x = e THEN P[d] ELSE IF P[x] = d THEN e ELSE P[x]
      /\ e # 0 /\ d # 0 /\ e # d /\ e \in N2 /\ d \notin N2
  BY <1>1
<1>8. /\ \A x \in N2 : x # e => x \in N /\ x # d
      /\ \A x \in N : x # d => x \in N2 /\ x # e
  BY <1>1
<1>9. /\ \A x \in N2 \cup {0} : \A y \in N : y # d => (y \in S2[x] <=> y \in S[Old(x)])
      /\ \A x \in N2 \cup {0} : e \in S2[x] <=> d \in S[Old(x)]
      /\ \A x \in N2 \cup {0} : d \notin S2[x]
  <2> SUFFICES ASSUME NEW x \in N2 \cup {0}
               PROVE  /\ \A y \in N : y # d => (y \in S2[x] <=> y \in S[Old(x)])
                      /\ e \in S2[x] <=> d \in S[Old(x)]
                      /\ d \notin S2[x]
    OBVIOUS
  <2>1. Old(x) \in N \cup {0}
    BY <1>8
  <2>2. S[Old(x)] \subseteq N
    BY <2>1, <1>1
  <2> QED
    BY <2>2, <1>7, <1>8
<1>10. S2 \in [N2 \cup {0} -> SUBSET N2]
  <2> SUFFICES ASSUME NEW x \in N2 \cup {0} PROVE S2[x] \subseteq N2
    OBVIOUS
  <2>1. Old(x) \in N \cup {0}
    BY <1>8
  <2>2. S[Old(x)] \subseteq N
    BY <2>1, <1>1
  <2> QED
    BY <2>2
<1>11. \A x \in N2 : /\ L2[x] \in N2 \cup {0} /\ R2[x] \in N2 \cup {0} /\ P2[x] \in N2 \cup {0}
                     /\ Old(L2[x]) = L[Old(x)] /\ Old(R2[x]) = R[Old(x)]
                     /\ Old(P2[x]) = P[Old(x)]
                     /\ Old(x) \in N
  <2> SUFFICES ASSUME NEW x \in N2
               PROVE  /\ L2[x] \in N2 \cup {0} /\ R2[x] \in N2 \cup {0} /\ P2[x] \in N2 \cup {0}
                      /\ Old(L2[x]) = L[Old(x)] /\ Old(R2[x]) = R[Old(x)]
                      /\ Old(P2[x]) = P[Old(x)]
                      /\ Old(x) \in N
    OBVIOUS
  <2>1. CASE x = e
    <3>1. L2[x] = L[d] /\ R2[x] = R[d] /\ P2[x] = P[d]
      BY <2>1, <1>7
    <3>2. L[d] \in N \cup {0} /\ R[d] \in N \cup {0} /\ P[d] \in N \cup {0}
      BY <1>2
    <3> QED
      BY <2>1, <3>1, <3>2, <1>5, <1>7, <1>8
  <2>2. CASE x # e
    <3>1. /\ L2[x] = IF L[x] = d THEN e ELSE L[x]
          /\ R2[x] = IF R[x] = d THEN e ELSE R[x]
          /\ P2[x] = IF P[x] = d THEN e ELSE P[x]
      BY <2>2, <1>7
    <3>2. L[x] \in N \cup {0} /\ R[x] \in N \cup {0} /\ P[x] \in N \cup {0} /\ x \in N
      BY <2>2, <1>2, <1>8
    <3> QED
      BY <2>2, <3>1, <3>2, <1>7, <1>8
  <2> QED
    BY <2>1, <2>2
<1>12. rt2 \in N2 /\ Old(rt2) = rt /\ Old(0) = 0
  BY <1>1, <1>7, <1>8
<1>13. S2[0] = {} /\ S2[rt2] = N2
  <2>1. S2[0] = {}
    BY <1>12, <1>1
  <2>2. S2[rt2] = IF d \in S[rt] THEN (S[rt] \ {d}) \cup {e} ELSE S[rt]
    BY <1>12
  <2> QED
    BY <2>1, <2>2, <1>1
<1>14. \A x, y \in N2 : Old(x) = Old(y) => x = y
  BY <1>7
<1>15. \A x \in N2 : \A y \in N2 :
         (x < y => Old(x) < Old(y)) /\ (Old(x) < Old(y) => x < y)
  <2> SUFFICES ASSUME NEW x \in N2, NEW y \in N2
               PROVE  (x < y => Old(x) < Old(y)) /\ (Old(x) < Old(y) => x < y)
    OBVIOUS
  <2>1. x \in Nat /\ y \in Nat /\ d \in Nat /\ e \in Nat
    BY <1>6, <1>1
  <2>2. \A z \in N2 : z # e => (z < d <=> z < e) /\ z # d
    BY <1>8
  <2> QED
    BY <2>1, <2>2
<1> HIDE DEF S2
<1>16. \A x \in N2 : \A y \in N2 : y \in S2[x] <=> Old(y) \in S[Old(x)]
  BY <1>9, <1>8
<1>16a. \A x \in N2 \cup {0} : \A y \in N2 : y \in S2[x] <=> Old(y) \in S[Old(x)]
  BY <1>9, <1>8
<1>17. \A x \in N2 : \A y \in N2 : /\ y \in S2[L2[x]] <=> Old(y) \in S[L[Old(x)]]
                                   /\ y \in S2[R2[x]] <=> Old(y) \in S[R[Old(x)]]
  <2> SUFFICES ASSUME NEW x \in N2, NEW y \in N2
               PROVE  /\ y \in S2[L2[x]] <=> Old(y) \in S[L[Old(x)]]
                      /\ y \in S2[R2[x]] <=> Old(y) \in S[R[Old(x)]]
    OBVIOUS
  <2> HIDE DEF Old
  <2>1. L2[x] \in N2 \cup {0} /\ R2[x] \in N2 \cup {0}
    BY <1>11
  <2>2. Old(L2[x]) = L[Old(x)] /\ Old(R2[x]) = R[Old(x)]
    BY <1>11
  <2>3. y \in S2[L2[x]] <=> Old(y) \in S[Old(L2[x])]
    BY <2>1, <1>16a
  <2>4. y \in S2[R2[x]] <=> Old(y) \in S[Old(R2[x])]
    BY <2>1, <1>16a
  <2> QED
    BY <2>2, <2>3, <2>4
<1>18. \A x \in N2 : Old(x) \in N
  BY <1>11
<1> HIDE DEF Old
<1>19. \A x \in N2 : \A y \in N2 : y \in S2[x] <=> y = x \/ y \in S2[L2[x]] \/ y \in S2[R2[x]]
  <2> SUFFICES ASSUME NEW x \in N2, NEW y \in N2
               PROVE  y \in S2[x] <=> y = x \/ y \in S2[L2[x]] \/ y \in S2[R2[x]]
    OBVIOUS
  <2>1. y \in S2[x] <=> Old(y) \in S[Old(x)]
    BY <1>16
  <2>2. Old(y) \in S[Old(x)] <=> Old(y) = Old(x) \/ Old(y) \in S[L[Old(x)]] \/ Old(y) \in S[R[Old(x)]]
    BY <1>18, <1>3
  <2>3. Old(y) = Old(x) <=> y = x
    BY <1>14
  <2> QED
    BY <2>1, <2>2, <2>3, <1>17
<1>20. ASSUME NEW x \in N2, NEW y \in S2[L2[x]]
       PROVE  y < x
  <2>1. y \in N2
    BY <1>10, <1>11
  <2> QED
    BY <2>1, <1>17, <1>18, <1>15, <1>4
<1>21. ASSUME NEW x \in N2, NEW y \in S2[R2[x]]
       PROVE  x < y
  <2>1. y \in N2
    BY <1>10, <1>11
  <2> QED
    BY <2>1, <1>17, <1>18, <1>15, <1>4
<1>22. \A x \in N2 \cup {0} : Old(x) = 0 <=> x = 0
  BY <1>1, <1>7, <1>8 DEF Old
<1>23. ASSUME NEW x \in N2
       PROVE  (L2[x] # 0 => P2[L2[x]] = x) /\ (R2[x] # 0 => P2[R2[x]] = x)
  <2>1. ASSUME L2[x] # 0
        PROVE  P2[L2[x]] = x
    <3>1. L2[x] \in N2 /\ Old(L2[x]) = L[Old(x)] /\ Old(L2[x]) # 0
      BY <2>1, <1>11, <1>22
    <3>2. Old(P2[L2[x]]) = Old(x) /\ P2[L2[x]] \in N2 \cup {0} /\ Old(x) # 0
      BY <3>1, <1>11, <1>2, <1>22, <1>1
    <3> QED
      BY <3>2, <1>14, <1>22
  <2>2. ASSUME R2[x] # 0
        PROVE  P2[R2[x]] = x
    <3>1. R2[x] \in N2 /\ Old(R2[x]) = R[Old(x)] /\ Old(R2[x]) # 0
      BY <2>2, <1>11, <1>22
    <3>2. Old(P2[R2[x]]) = Old(x) /\ P2[R2[x]] \in N2 \cup {0} /\ Old(x) # 0
      BY <3>1, <1>11, <1>2, <1>22, <1>1
    <3> QED
      BY <3>2, <1>14, <1>22
  <2> QED
    BY <2>1, <2>2
<1>24. ASSUME NEW x \in N2
       PROVE  IF x = rt2 THEN P2[x] = 0 ELSE P2[x] \in N2 /\ x \in {L2[P2[x]], R2[P2[x]]}
  <2>1. CASE x = rt2
    BY <2>1, <1>11, <1>12, <1>22, <1>1
  <2>2. CASE x # rt2
    <3>1. Old(x) # rt /\ Old(x) \in N
      BY <2>2, <1>12, <1>14, <1>18
    <3>2. P[Old(x)] \in N /\ Old(x) \in {L[P[Old(x)]], R[P[Old(x)]]}
      BY <3>1, <1>2
    <3>3. P2[x] \in N2 /\ Old(P2[x]) = P[Old(x)]
      BY <3>2, <1>11, <1>22, <1>1
    <3>4. Old(x) \in {Old(L2[P2[x]]), Old(R2[P2[x]])}
      <4>1. Old(L2[P2[x]]) = L[Old(P2[x])] /\ Old(R2[P2[x]]) = R[Old(P2[x])]
        BY <3>3, <1>11
      <4> QED
        BY <4>1, <3>2, <3>3
    <3>5. L2[P2[x]] \in N2 \cup {0} /\ R2[P2[x]] \in N2 \cup {0} /\ Old(x) # 0
      BY <3>1, <3>3, <1>11, <1>1
    <3> QED
      BY <2>2, <3>3, <3>4, <3>5, <1>14, <1>22
  <2> QED
    BY <2>1, <2>2
<1>25. L2 \in [N2 -> N2 \cup {0}] /\ R2 \in [N2 -> N2 \cup {0}] /\ P2 \in [N2 -> N2 \cup {0}]
  BY <1>11
<1> QED
  BY <1>6, <1>10, <1>12, <1>13, <1>19, <1>20, <1>21, <1>23, <1>24, <1>25 DEF IsTree

(* The four ways three nodes hang together, x < y < z in order and top the
   uppermost; b and c are the subtrees between them. *)
Triple(L, R, top, x, y, z, b, c) ==
  \/ top = z /\ y = L[z] /\ x = L[y] /\ b = R[x] /\ c = R[y]
  \/ top = z /\ x = L[z] /\ y = R[x] /\ b = L[y] /\ c = R[y]
  \/ top = x /\ y = R[x] /\ z = R[y] /\ b = L[y] /\ c = L[z]
  \/ top = x /\ z = R[x] /\ y = L[z] /\ b = L[y] /\ c = R[y]

(* Three nodes in a line or a bend, and the four subtrees below them, as the
   cases of insert_balance_transform and double_black_transform name them: how
   they lie between each other. *)
LEMMA TripleFacts ==
  ASSUME NEW N, NEW L, NEW R, NEW P, NEW rt, NEW S, IsTree(N, L, R, P, rt, S),
         NEW top, NEW x \in N, NEW y \in N, NEW z \in N, NEW b, NEW c,
         Triple(L, R, top, x, y, z, b, c)
  PROVE  /\ top \in N /\ top \in {x, z} /\ x < y /\ y < z
         /\ b \in N \cup {0} /\ c \in N \cup {0}
         /\ \A w \in {x, y, z} : /\ w # top => P[w] \in {x, y, z}
                                 /\ {L[w], R[w]} \subseteq {x, y, z, b, c, L[x], R[z]}
         /\ (b # 0 => P[b] \in {x, y, z}) /\ (c # 0 => P[c] \in {x, y, z})
         /\ \A u \in N : u \in S[top] <=> \/ u \in {x, y, z} \/ u \in S[L[x]] \/ u \in S[b]
                                          \/ u \in S[c] \/ u \in S[R[z]]
         /\ \A u \in S[b] : x < u /\ u < y
         /\ \A u \in S[c] : y < u /\ u < z
<1>1. /\ 0 \notin N /\ N \subseteq Nat /\ S[0] = {}
      /\ \A v \in N \cup {0} : S[v] \subseteq N
  BY TreeFacts
<1>2. \A v \in N : /\ L[v] \in N \cup {0} /\ R[v] \in N \cup {0} /\ v \in S[v]
                   /\ L[v] # 0 => L[v] < v /\ P[L[v]] = v
                   /\ R[v] # 0 => v < R[v] /\ P[R[v]] = v
  BY TreeFacts
<1>3. \A v \in N : \A u \in N : u \in S[v] <=> u = v \/ u \in S[L[v]] \/ u \in S[R[v]]
  BY DEF IsTree
<1>4. \A v \in N : (\A u \in S[L[v]] : u < v) /\ (\A u \in S[R[v]] : v < u)
  BY DEF IsTree
<1>5. x \in Nat /\ y \in Nat /\ z \in Nat /\ x # 0 /\ y # 0 /\ z # 0
  BY <1>1
<1>6. CASE top = z /\ y = L[z] /\ x = L[y] /\ b = R[x] /\ c = R[y]
  <2>1. x < y /\ y < z /\ P[x] = y /\ P[y] = z
    BY <1>6, <1>2, <1>5
  <2>2. b \in N \cup {0} /\ c \in N \cup {0} /\ (b # 0 => P[b] = x) /\ (c # 0 => P[c] = y)
    BY <1>6, <1>2
  <2>3. \A u \in N : /\ u \in S[z] <=> u = z \/ u \in S[y] \/ u \in S[R[z]]
                     /\ u \in S[y] <=> u = y \/ u \in S[x] \/ u \in S[c]
                     /\ u \in S[x] <=> u = x \/ u \in S[L[x]] \/ u \in S[b]
    BY <1>6, <1>3
  <2>4. \A u \in S[b] : u \in N /\ x < u /\ u < y
    BY <1>6, <1>1, <1>4, <2>2, <2>3
  <2>5. \A u \in S[c] : u \in N /\ y < u /\ u < z
    BY <1>6, <1>1, <1>4, <2>2, <2>3
  <2>6. \A u \in N : u \in S[top] <=> \/ u \in {x, y, z} \/ u \in S[L[x]] \/ u \in S[b]
                                      \/ u \in S[c] \/ u \in S[R[z]]
    BY <1>6, <2>3
  <2> QED
    BY <1>6, <2>1, <2>2, <2>4, <2>5, <2>6
<1>7. CASE top = z /\ x = L[z] /\ y = R[x] /\ b = L[y] /\ c = R[y]
  <2>1. x < y /\ y \in S[x] /\ P[y] = x /\ P[x] = z
    BY <1>7, <1>2, <1>3, <1>5
  <2>2. b \in N \cup {0} /\ c \in N \cup {0} /\ (b # 0 => P[b] = y) /\ (c # 0 => P[c] = y)
    BY <1>7, <1>2
  <2>3. \A u \in N : /\ u \in S[z] <=> u = z \/ u \in S[x] \/ u \in S[R[z]]
                     /\ u \in S[y] <=> u = y \/ u \in S[b] \/ u \in S[c]
                     /\ u \in S[x] <=> u = x \/ u \in S[L[x]] \/ u \in S[y]
    BY <1>7, <1>3
  <2>4. \A u \in S[b] : u \in N /\ x < u /\ u < y
    BY <1>7, <1>1, <1>4, <2>2, <2>3
  <2>5. \A u \in S[c] : u \in N /\ y < u /\ u < z
    BY <1>7, <1>1, <1>4, <2>2, <2>3
  <2>6. \A u \in N : u \in S[top] <=> \/ u \in {x, y, z} \/ u \in S[L[x]] \/ u \in S[b]
                                      \/ u \in S[c] \/ u \in S[R[z]]
    BY <1>7, <2>3
  <2>7. y < z
    BY <1>7, <1>4, <2>1
  <2> QED
    BY <1>7, <2>1, <2>2, <2>4, <2>5, <2>6, <2>7
<1>8. CASE top = x /\ y = R[x] /\ z = R[y] /\ b = L[y] /\ c = L[z]
  <2>1. x < y /\ y < z /\ P[y] = x /\ P[z] = y
    BY <1>8, <1>2, <1>5
  <2>2. b \in N \cup {0} /\ c \in N \cup {0} /\ (b # 0 => P[b] = y) /\ (c # 0 => P[c] = z)
    BY <1>8, <1>2
  <2>3. \A u \in N : /\ u \in S[x] <=> u = x \/ u \in S[L[x]] \/ u \in S[y]
                     /\ u \in S[y] <=> u = y \/ u \in S[b] \/ u \in S[z]
                     /\ u \in S[z] <=> u = z \/ u \in S[c] \/ u \in S[R[z]]
    BY <1>8, <1>3
  <2>4. \A u \in S[b] : u \in N /\ x < u /\ u < y
    BY <1>8, <1>1, <1>4, <2>2, <2>3
  <2>5. \A u \in S[c] : u \in N /\ y < u /\ u < z
    BY <1>8, <1>1, <1>4, <2>2, <2>3
  <2>6. \A u \in N : u \in S[top] <=> \/ u \in {x, y, z} \/ u \in S[L[x]] \/ u \in S[b]
                                      \/ u \in S[c] \/ u \in S[R[z]]
    BY <1>8, <2>3
  <2> QED
    BY <1>8, <2>1, <2>2, <2>4, <2>5, <2>6
<1>9. CASE top = x /\ z = R[x] /\ y = L[z] /\ b = L[y] /\ c = R[y]
  <2>1. y < z /\ y \in S[z] /\ P[z] = x /\ P[y] = z
    BY <1>9, <1>2, <1>3, <1>5
  <2>2. b \in N \cup {0} /\ c \in N \cup {0} /\ (b # 0 => P[b] = y) /\ (c # 0 => P[c] = y)
    BY <1>9, <1>2
  <2>3. \A u \in N : /\ u \in S[x] <=> u = x \/ u \in S[L[x]] \/ u \in S[z]
                     /\ u \in S[z] <=> u = z \/ u \in S[y] \/ u \in S[R[z]]
                     /\ u \in S[y] <=> u = y \/ u \in S[b] \/ u \in S[c]
    BY <1>9, <1>3
  <2>4. \A u \in S[b] : u \in N /\ x < u /\ u < y
    BY <1>9, <1>1, <1>4, <2>2, <2>3
  <2>5. \A u \in S[c] : u \in N /\ y < u /\ u < z
    BY <1>9, <1>1, <1>4, <2>2, <2>3
  <2>6. \A u \in N : u \in S[top] <=> \/ u \in {x, y, z} \/ u \in S[L[x]] \/ u \in S[b]
                                      \/ u \in S[c] \/ u \in S[R[z]]
    BY <1>9, <2>3
  <2>7. x < y
    BY <1>9, <1>4, <2>1
  <2> QED
    BY <1>9, <2>1, <2>2, <2>4, <2>5, <2>6, <2>7
<1> QED
  BY <1>6, <1>7, <1>8, <1>9 DEF Triple

(* y takes the place of the uppermost of the three, and the others become its
   children. *)
Rotates(N, L, R, P, rt, top, x, y, z, b, c, L2, R2, P2, rt2) ==
  /\ x \in N /\ y \in N /\ z \in N
  /\ Triple(L, R, top, x, y, z, b, c)
  /\ L2 = [k \in N |-> IF k = y THEN x ELSE IF k = z THEN c
                        ELSE IF k = P[top] /\ L[k] = top THEN y ELSE L[k]]
  /\ R2 = [k \in N |-> IF k = y THEN z ELSE IF k = x THEN b
                        ELSE IF k = P[top] /\ L[k] # top THEN y ELSE R[k]]
  /\ P2 = [k \in N |-> IF k = y THEN P[top] ELSE IF k \in {x, z} THEN y
                        ELSE IF k = b THEN x ELSE IF k = c THEN z ELSE P[k]]
  /\ rt2 = IF top = rt THEN y ELSE rt

(* Every case that restructures three nodes ("y takes the place of top") turns a
   search tree into a search tree of the same nodes. *)
LEMMA Rotated ==
  ASSUME NEW N, NEW L, NEW R, NEW P, NEW rt, NEW S,
         NEW top, NEW x, NEW y, NEW z, NEW b, NEW c, NEW L2, NEW R2, NEW P2, NEW rt2,
         IsTree(N, L, R, P, rt, S),
         Rotates(N, L, R, P, rt, top, x, y, z, b, c, L2, R2, P2, rt2)
  PROVE  \E S2 : IsTree(N, L2, R2, P2, rt2, S2)
<1> USE DEF Rotates
<1> DEFINE S2 == [k \in N \cup {0} |->
                    IF k = y THEN S[top]
                    ELSE IF k = x THEN {x} \cup S[L[x]] \cup S[b]
                    ELSE IF k = z THEN {z} \cup S[c] \cup S[R[z]] ELSE S[k]]
<1>1. /\ 0 \notin N /\ N \subseteq Nat /\ S[0] = {} /\ rt \in N /\ S[rt] = N /\ P[rt] = 0
      /\ \A v \in N \cup {0} : S[v] \subseteq N
  BY TreeFacts
<1>2. \A v \in N : /\ L[v] \in N \cup {0} /\ R[v] \in N \cup {0} /\ P[v] \in N \cup {0}
                   /\ v \in S[v]
                   /\ L[v] # 0 => L[v] < v /\ P[L[v]] = v
                   /\ R[v] # 0 => v < R[v] /\ P[R[v]] = v
                   /\ v # rt => P[v] \in N /\ v \in {L[P[v]], R[P[v]]}
  BY TreeFacts
<1>3. \A v \in N : \A u \in N : u \in S[v] <=> u = v \/ u \in S[L[v]] \/ u \in S[R[v]]
  BY DEF IsTree
<1>4. \A v \in N : (\A u \in S[L[v]] : u < v) /\ (\A u \in S[R[v]] : v < u)
  BY DEF IsTree
<1>5. x \in Nat /\ y \in Nat /\ z \in Nat /\ x # 0 /\ y # 0 /\ z # 0
  BY <1>1
<1>6. /\ top \in N /\ top \in {x, z} /\ x < y /\ y < z
      /\ b \in N \cup {0} /\ c \in N \cup {0}
      /\ (b # 0 => P[b] \in {x, y, z}) /\ (c # 0 => P[c] \in {x, y, z})
  BY TripleFacts
<1>7. \A w \in {x, y, z} : /\ w # top => P[w] \in {x, y, z}
                           /\ {L[w], R[w]} \subseteq {x, y, z, b, c, L[x], R[z]}
  BY TripleFacts
<1>8. \A u \in N : u \in S[top] <=> \/ u \in {x, y, z} \/ u \in S[L[x]] \/ u \in S[b]
                                    \/ u \in S[c] \/ u \in S[R[z]]
  BY TripleFacts
<1>9a. \A u \in S[b] : x < u /\ u < y
  BY TripleFacts
<1>9b. \A u \in S[c] : y < u /\ u < z
  BY TripleFacts
<1>9. (\A u \in S[b] : x < u /\ u < y) /\ (\A u \in S[c] : y < u /\ u < z)
  BY <1>9a, <1>9b
<1>10. b \notin {x, y, z} /\ c \notin {x, y, z} /\ (b # 0 => b # c)
  <2>1. (b # 0 => b \in S[b]) /\ (c # 0 => c \in S[c])
    BY <1>2, <1>6
  <2>2. b \in Nat /\ c \in Nat
    BY <1>1, <1>6
  <2>3. b # 0 => x < b /\ b < y
    BY <2>1, <1>9
  <2>4. c # 0 => y < c /\ c < z
    BY <2>1, <1>9
  <2> QED
    BY <2>2, <2>3, <2>4, <1>5, <1>6
<1>12. /\ L[x] # 0 => L[x] \in N /\ L[x] \notin {x, y, z, b, c}
       /\ R[z] # 0 => R[z] \in N /\ R[z] \notin {x, y, z, b, c}
  <2>1. (b # 0 => b \in S[b]) /\ (c # 0 => c \in S[c])
    BY <1>2, <1>6
  <2>2. ASSUME L[x] # 0
        PROVE  L[x] \in N /\ L[x] \notin {x, y, z, b, c}
    <3>1. L[x] \in N /\ L[x] < x /\ L[x] \in Nat
      BY <2>2, <1>1, <1>2
    <3> QED
      BY <3>1, <2>1, <2>2, <1>5, <1>6, <1>9
  <2>3. ASSUME R[z] # 0
        PROVE  R[z] \in N /\ R[z] \notin {x, y, z, b, c}
    <3>1. R[z] \in N /\ z < R[z] /\ R[z] \in Nat
      BY <2>3, <1>1, <1>2
    <3> QED
      BY <3>1, <2>1, <2>3, <1>5, <1>6, <1>9
  <2> QED
    BY <2>2, <2>3
<1>13. P[top] \notin {x, y, z} /\ P[top] \in N \cup {0} /\ (P[top] = 0 <=> top = rt)
  <2>1. P[top] # 0 => P[top] \notin S[top]
    BY <1>6, BelowParent
  <2>2. x \in S[top] /\ y \in S[top] /\ z \in S[top]
    BY <1>8
  <2> QED
    BY <2>1, <2>2, <1>2, <1>5, <1>6, BelowParent
<1>14. \A k \in N : /\ L2[k] = IF k = y THEN x ELSE IF k = z THEN c
                               ELSE IF k = P[top] /\ L[k] = top THEN y ELSE L[k]
                    /\ R2[k] = IF k = y THEN z ELSE IF k = x THEN b
                               ELSE IF k = P[top] /\ L[k] # top THEN y ELSE R[k]
                    /\ P2[k] = IF k = y THEN P[top] ELSE IF k \in {x, z} THEN y
                               ELSE IF k = b THEN x ELSE IF k = c THEN z ELSE P[k]
  OBVIOUS
<1>15. x # y /\ y # z /\ x # z
  BY <1>5, <1>6
<1>16. L2[x] = L[x] /\ R2[x] = b /\ L2[y] = x /\ R2[y] = z /\ L2[z] = c /\ R2[z] = R[z]
  BY <1>14, <1>15, <1>13
<1>17. P2[y] = P[top] /\ P2[x] = y /\ P2[z] = y
  BY <1>14, <1>15
<1>18. S2[y] = S[top] /\ S2[x] = {x} \cup S[L[x]] \cup S[b] /\ S2[z] = {z} \cup S[c] \cup S[R[z]]
  BY <1>15
<1>19. \A k \in N \cup {0} : k \notin {x, y, z} => S2[k] = S[k]
  OBVIOUS
<1>20. S2 \in [N \cup {0} -> SUBSET N]
  <2>1. /\ S[L[x]] \subseteq N /\ S[R[z]] \subseteq N /\ S[b] \subseteq N /\ S[c] \subseteq N
        /\ S[top] \subseteq N
    BY <1>1, <1>2, <1>6
  <2>2. ASSUME NEW k \in N \cup {0}
        PROVE  S2[k] \subseteq N
    <3>1. S[k] \subseteq N
      BY <1>1
    <3> QED
      BY <2>1, <3>1
  <2> QED
    BY <2>2
<1> HIDE DEF S2
<1>21. rt2 \in N /\ S2[0] = {} /\ S2[rt2] = N
  <2>1. S2[0] = {}
    BY <1>19, <1>1, <1>5
  <2>2. CASE top = rt
    BY <2>1, <2>2, <1>18, <1>1
  <2>3. CASE top # rt
    <3>1. rt \notin {x, y, z}
      BY <2>3, <1>1, <1>7, <1>6, <1>5
    <3> QED
      BY <3>1, <2>1, <2>3, <1>19, <1>1
  <2> QED
    BY <2>2, <2>3
<1>22. ASSUME NEW k \in N, k \notin {x, y, z}
       PROVE  /\ S2[L2[k]] = S[L[k]] /\ S2[R2[k]] = S[R[k]]
              /\ L2[k] = IF L[k] = top THEN y ELSE L[k]
              /\ R2[k] = IF R[k] = top THEN y ELSE R[k]
              /\ L[k] # top => L[k] \notin {x, y, z}
              /\ R[k] # top => R[k] \notin {x, y, z}
  <2>1. L[k] # top => L[k] \notin {x, y, z}
    BY <1>2, <1>7, <1>5, <1>22
  <2>2. R[k] # top => R[k] \notin {x, y, z}
    BY <1>2, <1>7, <1>5, <1>22
  <2>3. k = P[top] => k # 0 /\ top # rt /\ top \in {L[k], R[k]}
    BY <1>13, <1>1, <1>2, <1>6
  <2>4. L[k] = top => k = P[top] /\ R[k] # top
    BY <1>2, <1>6, <1>1
  <2>5. R[k] = top => k = P[top] /\ L[k] # top
    BY <1>2, <1>6, <1>1
  <2>6. L2[k] = IF L[k] = top THEN y ELSE L[k]
    BY <1>14, <1>22, <2>4
  <2>7. R2[k] = IF R[k] = top THEN y ELSE R[k]
    BY <1>14, <1>22, <2>3, <2>5
  <2>8. L[k] \in N \cup {0} /\ R[k] \in N \cup {0}
    BY <1>2
  <2> QED
    BY <2>1, <2>2, <2>6, <2>7, <2>8, <1>18, <1>19
<1>23. \A k \in N : L2[k] \in N \cup {0} /\ R2[k] \in N \cup {0} /\ P2[k] \in N \cup {0}
  BY <1>14, <1>2, <1>6, <1>13
<1>24. S2[L[x]] = S[L[x]] /\ S2[b] = S[b] /\ S2[c] = S[c] /\ S2[R[z]] = S[R[z]]
  BY <1>19, <1>12, <1>10, <1>6, <1>5, <1>2
<1>25. ASSUME NEW k \in N, NEW u \in N
       PROVE  u \in S2[k] <=> u = k \/ u \in S2[L2[k]] \/ u \in S2[R2[k]]
  <2>1. CASE k \notin {x, y, z}
    BY <2>1, <1>22, <1>19, <1>3
  <2>2. CASE k = x
    BY <2>2, <1>16, <1>18, <1>24
  <2>3. CASE k = z
    BY <2>3, <1>16, <1>18, <1>24
  <2>4. CASE k = y
    BY <2>4, <1>16, <1>18, <1>8
  <2> QED
    BY <2>1, <2>2, <2>3, <2>4
<1>26. ASSUME NEW k \in N, NEW u \in S2[L2[k]]
       PROVE  u < k
  <2>1. CASE k \notin {x, y, z}
    BY <2>1, <1>22, <1>26, <1>4
  <2>2. CASE k = x
    BY <2>2, <1>16, <1>24, <1>26, <1>4
  <2>3. CASE k = z
    BY <2>3, <1>16, <1>24, <1>26, <1>9
  <2>4. CASE k = y
    <3>1. u \in N /\ (u = x \/ u \in S[L[x]] \/ u \in S[b])
      BY <2>4, <1>16, <1>18, <1>26, <1>20
    <3>2. u \in S[L[x]] => u < x
      BY <1>4
    <3> QED
      BY <3>1, <3>2, <2>4, <1>9, <1>6, <1>5, <1>1
  <2> QED
    BY <2>1, <2>2, <2>3, <2>4
<1>27. ASSUME NEW k \in N, NEW u \in S2[R2[k]]
       PROVE  k < u
  <2>1. CASE k \notin {x, y, z}
    BY <2>1, <1>22, <1>27, <1>4
  <2>2. CASE k = x
    BY <2>2, <1>16, <1>24, <1>27, <1>9
  <2>3. CASE k = z
    BY <2>3, <1>16, <1>24, <1>27, <1>4
  <2>4. CASE k = y
    <3>1. u \in N /\ (u = z \/ u \in S[c] \/ u \in S[R[z]])
      BY <2>4, <1>16, <1>18, <1>27, <1>20
    <3>2. u \in S[R[z]] => z < u
      BY <1>4
    <3> QED
      BY <3>1, <3>2, <2>4, <1>9, <1>6, <1>5, <1>1
  <2> QED
    BY <2>1, <2>2, <2>3, <2>4
<1>28. P2[b] = x \/ b = 0
  BY <1>14, <1>10, <1>6
<1>29. P2[c] = z \/ c = 0
  BY <1>14, <1>10, <1>6
<1>30. \A v \in N : v \notin {x, y, z, b, c} => P2[v] = P[v]
  BY <1>14
<1>31. ASSUME NEW k \in N
       PROVE  (L2[k] # 0 => P2[L2[k]] = k) /\ (R2[k] # 0 => P2[R2[k]] = k)
  <2>1. CASE k \notin {x, y, z}
    <3>1. L[k] # 0 => L[k] \in N /\ P[L[k]] = k
      BY <1>2
    <3>2. R[k] # 0 => R[k] \in N /\ P[R[k]] = k
      BY <1>2
    <3>3. L[k] # 0 => L[k] \notin {b, c}
      BY <3>1, <2>1, <1>6
    <3>4. R[k] # 0 => R[k] \notin {b, c}
      BY <3>2, <2>1, <1>6
    <3>5. L2[k] # 0 => P2[L2[k]] = k
      BY <3>1, <3>3, <2>1, <1>22, <1>17, <1>30
    <3>6. R2[k] # 0 => P2[R2[k]] = k
      BY <3>2, <3>4, <2>1, <1>22, <1>17, <1>30
    <3> QED
      BY <3>5, <3>6
  <2>2. CASE k = x
    BY <2>2, <1>16, <1>28, <1>30, <1>12, <1>2
  <2>3. CASE k = z
    BY <2>3, <1>16, <1>29, <1>30, <1>12, <1>2
  <2>4. CASE k = y
    BY <2>4, <1>16, <1>17
  <2> QED
    BY <2>1, <2>2, <2>3, <2>4
<1>32. ASSUME NEW k \in N
       PROVE  IF k = rt2 THEN P2[k] = 0 ELSE P2[k] \in N /\ k \in {L2[P2[k]], R2[P2[k]]}
  <2>1. CASE k = y
    <3>1. CASE top = rt
      BY <2>1, <3>1, <1>17, <1>13
    <3>2. CASE top # rt
      <4>1. P[top] \in N /\ top \in {L[P[top]], R[P[top]]} /\ P[top] \notin {x, y, z}
        BY <3>2, <1>2, <1>6, <1>13
      <4>2. y # rt
        BY <1>1, <1>7, <1>5, <1>15, <1>6
      <4>3. y \in {L2[P[top]], R2[P[top]]}
        BY <4>1, <1>22
      <4> QED
        BY <2>1, <3>2, <4>1, <4>2, <4>3, <1>17
    <3> QED
      BY <3>1, <3>2
  <2>2. CASE k \in {x, z}
    <3>1. k # rt2
      BY <2>2, <1>1, <1>7, <1>5, <1>15, <1>6
    <3> QED
      BY <3>1, <2>2, <1>16, <1>17
  <2>3. CASE k = b \/ k = c
    <3>1. k # rt2 /\ k # 0
      BY <2>3, <1>1, <1>5, <1>6, <1>10
    <3> QED
      BY <3>1, <2>3, <1>16, <1>28, <1>29
  <2>4. CASE k \notin {x, y, z, b, c}
    <3>1. P2[k] = P[k]
      BY <2>4, <1>30
    <3>2. CASE k = rt
      <4>1. k = rt2
        BY <3>2, <2>4, <1>6
      <4> QED
        BY <4>1, <3>1, <3>2, <1>1
    <3>3. CASE k # rt
      <4>1. P[k] \in N /\ k \in {L[P[k]], R[P[k]]} /\ k # rt2
        BY <3>3, <2>4, <1>2
      <4>2. CASE P[k] \notin {x, y, z}
        BY <3>1, <4>1, <4>2, <1>22, <2>4, <1>6
      <4>3. CASE P[k] \in {x, y, z}
        <5>1. k = L[x] \/ k = R[z]
          BY <4>1, <4>3, <1>7, <2>4
        <5>2. k # 0
          BY <1>1
        <5> QED
          BY <3>1, <4>1, <5>1, <5>2, <1>16, <1>2
      <4> QED
        BY <4>2, <4>3
    <3> QED
      BY <3>2, <3>3
  <2> QED
    BY <2>1, <2>2, <2>3, <2>4
<1>33. L2 \in [N -> N \cup {0}] /\ R2 \in [N -> N \cup {0}] /\ P2 \in [N -> N \cup {0}]
  BY <1>23
<1>34. N \subseteq Nat \ {0} /\ IsFiniteSet(N)
  BY DEF IsTree
<1>35. IsTree(N, L2, R2, P2, rt2, S2)
  BY <1>34, <1>20, <1>21, <1>25, <1>26, <1>27, <1>31, <1>32, <1>33 DEF IsTree
<1> QED
  BY <1>35

(* The other of two nodes takes the place of the upper one, top, which becomes
   its child; b is the subtree between x and z. *)
Turns(N, L, R, P, rt, top, up, x, z, b, L2, R2, P2, rt2) ==
  /\ x \in N /\ z \in N
  /\ \/ top = x /\ up = z /\ z = R[x] /\ b = L[z]
     \/ top = z /\ up = x /\ x = L[z] /\ b = R[x]
  /\ L2 = [k \in N |-> IF k = z THEN (IF up = z THEN x ELSE b)
                        ELSE IF k = P[top] /\ L[k] = top THEN up ELSE L[k]]
  /\ R2 = [k \in N |-> IF k = x THEN (IF up = x THEN z ELSE b)
                        ELSE IF k = P[top] /\ L[k] # top THEN up ELSE R[k]]
  /\ P2 = [k \in N |-> IF k = up THEN P[top] ELSE IF k = top THEN up
                        ELSE IF k = b THEN top ELSE P[k]]
  /\ rt2 = IF top = rt THEN up ELSE rt

(* Main case 4 of double_black_transform: the rotation by which a red sibling
   takes its parent's place keeps the search tree. *)
LEMMA TurnKeepsTree ==
  ASSUME NEW N, NEW L, NEW R, NEW P, NEW rt, NEW S,
         NEW top, NEW up, NEW x, NEW z, NEW b, NEW L2, NEW R2, NEW P2, NEW rt2,
         IsTree(N, L, R, P, rt, S),
         Turns(N, L, R, P, rt, top, up, x, z, b, L2, R2, P2, rt2)
  PROVE  \E S2 : IsTree(N, L2, R2, P2, rt2, S2)
<1> USE DEF Turns
<1> DEFINE S2 == [k \in N \cup {0} |->
                    IF k = up THEN S[top]
                    ELSE IF k = x THEN {x} \cup S[L[x]] \cup S[b]
                    ELSE IF k = z THEN {z} \cup S[b] \cup S[R[z]] ELSE S[k]]
<1>1. /\ 0 \notin N /\ N \subseteq Nat /\ S[0] = {} /\ rt \in N /\ S[rt] = N /\ P[rt] = 0
      /\ \A v \in N \cup {0} : S[v] \subseteq N
  BY TreeFacts
<1>2. \A v \in N : /\ L[v] \in N \cup {0} /\ R[v] \in N \cup {0} /\ P[v] \in N \cup {0}
                   /\ v \in S[v]
                   /\ L[v] # 0 => L[v] < v /\ P[L[v]] = v
                   /\ R[v] # 0 => v < R[v] /\ P[R[v]] = v
                   /\ v # rt => P[v] \in N /\ v \in {L[P[v]], R[P[v]]}
  BY TreeFacts
<1>3. \A v \in N : \A u \in N : u \in S[v] <=> u = v \/ u \in S[L[v]] \/ u \in S[R[v]]
  BY DEF IsTree
<1>4. \A v \in N : (\A u \in S[L[v]] : u < v) /\ (\A u \in S[R[v]] : v < u)
  BY DEF IsTree
<1>5. x \in Nat /\ z \in Nat /\ x # 0 /\ z # 0
  BY <1>1
<1>6. /\ top \in N /\ up \in N /\ {top, up} = {x, z} /\ top # up /\ x < z
      /\ b \in N \cup {0} /\ (b # 0 => P[b] = up) /\ P[up] = top
      /\ {L[x], R[x], L[z], R[z]} \subseteq {x, z, b, L[x], R[z]}
  BY <1>2, <1>5
<1>7. \A u \in N : u \in S[top] <=> \/ u \in {x, z} \/ u \in S[L[x]] \/ u \in S[b]
                                    \/ u \in S[R[z]]
  <2>1. CASE top = x /\ up = z /\ z = R[x] /\ b = L[z]
    BY <2>1, <1>3
  <2>2. CASE top = z /\ up = x /\ x = L[z] /\ b = R[x]
    BY <2>2, <1>3
  <2> QED
    BY <2>1, <2>2
<1>8. \A u \in S[b] : x < u /\ u < z
  <2> SUFFICES ASSUME NEW u \in S[b] PROVE x < u /\ u < z
    OBVIOUS
  <2>1. u \in N
    BY <1>1, <1>6
  <2>2. CASE top = x /\ up = z /\ z = R[x] /\ b = L[z]
    <3>1. u \in S[z]
      BY <2>1, <2>2, <1>3
    <3> QED
      BY <3>1, <2>2, <1>4
  <2>3. CASE top = z /\ up = x /\ x = L[z] /\ b = R[x]
    <3>1. u \in S[x]
      BY <2>1, <2>3, <1>3
    <3> QED
      BY <3>1, <2>3, <1>4
  <2> QED
    BY <2>2, <2>3
<1>9. b # 0 => b \in Nat /\ x < b /\ b < z
  BY <1>1, <1>2, <1>6, <1>8
<1>10. b \notin {x, z}
  BY <1>9, <1>5
<1>11. /\ L[x] # 0 => L[x] \in N /\ L[x] \notin {x, z, b}
       /\ R[z] # 0 => R[z] \in N /\ R[z] \notin {x, z, b}
  <2>1. ASSUME L[x] # 0
        PROVE  L[x] \in N /\ L[x] \notin {x, z, b}
    <3>1. L[x] \in N /\ L[x] < x /\ L[x] \in Nat
      BY <2>1, <1>1, <1>2
    <3> QED
      BY <3>1, <2>1, <1>5, <1>6, <1>9
  <2>2. ASSUME R[z] # 0
        PROVE  R[z] \in N /\ R[z] \notin {x, z, b}
    <3>1. R[z] \in N /\ z < R[z] /\ R[z] \in Nat
      BY <2>2, <1>1, <1>2
    <3> QED
      BY <3>1, <2>2, <1>5, <1>6, <1>9
  <2> QED
    BY <2>1, <2>2
<1>12. P[top] \notin {x, z} /\ P[top] \in N \cup {0} /\ (P[top] = 0 <=> top = rt)
  <2>1. P[top] # 0 => P[top] \notin S[top]
    BY <1>6, BelowParent
  <2>2. x \in S[top] /\ z \in S[top]
    BY <1>7
  <2> QED
    BY <2>1, <2>2, <1>2, <1>5, <1>6, BelowParent
<1>13. \A k \in N : /\ L2[k] = IF k = z THEN (IF up = z THEN x ELSE b)
                               ELSE IF k = P[top] /\ L[k] = top THEN up ELSE L[k]
                    /\ R2[k] = IF k = x THEN (IF up = x THEN z ELSE b)
                               ELSE IF k = P[top] /\ L[k] # top THEN up ELSE R[k]
                    /\ P2[k] = IF k = up THEN P[top] ELSE IF k = top THEN up
                               ELSE IF k = b THEN top ELSE P[k]
  OBVIOUS
<1>14. /\ L2[x] = L[x] /\ R2[z] = R[z]
       /\ up = z => L2[z] = x /\ R2[x] = b
       /\ up = x => L2[z] = b /\ R2[x] = z
  BY <1>12, <1>13, <1>5, <1>6
<1>15. P2[up] = P[top] /\ P2[top] = up /\ (b # 0 => P2[b] = top)
  BY <1>13, <1>6, <1>10
<1>16. \A v \in N : v \notin {x, z, b} => P2[v] = P[v]
  BY <1>13, <1>6
<1>17. /\ S2[up] = S[top]
       /\ top = x => S2[x] = {x} \cup S[L[x]] \cup S[b]
       /\ top = z => S2[z] = {z} \cup S[b] \cup S[R[z]]
  BY <1>6
<1>18. \A k \in N \cup {0} : k \notin {x, z} => S2[k] = S[k]
  BY <1>6
<1>19. S2 \in [N \cup {0} -> SUBSET N]
  <2>1. /\ S[L[x]] \subseteq N /\ S[R[z]] \subseteq N /\ S[b] \subseteq N /\ S[top] \subseteq N
    BY <1>1, <1>2, <1>6
  <2>2. ASSUME NEW k \in N \cup {0}
        PROVE  S2[k] \subseteq N
    <3>1. S[k] \subseteq N
      BY <1>1
    <3> QED
      BY <2>1, <3>1
  <2> QED
    BY <2>2
<1> HIDE DEF S2
<1>20. rt2 \in N /\ S2[0] = {} /\ S2[rt2] = N
  <2>1. S2[0] = {}
    BY <1>18, <1>1, <1>5
  <2>2. CASE top = rt
    BY <2>1, <2>2, <1>17, <1>1, <1>6
  <2>3. CASE top # rt
    <3>1. rt \notin {x, z}
      BY <2>3, <1>1, <1>6, <1>5
    <3> QED
      BY <3>1, <2>1, <2>3, <1>18, <1>1
  <2> QED
    BY <2>2, <2>3
<1>21. ASSUME NEW k \in N, k \notin {x, z}
       PROVE  /\ S2[L2[k]] = S[L[k]] /\ S2[R2[k]] = S[R[k]]
              /\ L2[k] = IF L[k] = top THEN up ELSE L[k]
              /\ R2[k] = IF R[k] = top THEN up ELSE R[k]
              /\ L[k] # top => L[k] \notin {x, z}
              /\ R[k] # top => R[k] \notin {x, z}
  <2>1. L[k] # top => L[k] \notin {x, z}
    BY <1>2, <1>6, <1>5, <1>21
  <2>2. R[k] # top => R[k] \notin {x, z}
    BY <1>2, <1>6, <1>5, <1>21
  <2>3. k = P[top] => k # 0 /\ top # rt /\ top \in {L[k], R[k]}
    BY <1>12, <1>1, <1>2, <1>6
  <2>4. L[k] = top => k = P[top] /\ R[k] # top
    BY <1>2, <1>6, <1>1
  <2>5. R[k] = top => k = P[top] /\ L[k] # top
    BY <1>2, <1>6, <1>1
  <2>6. L2[k] = IF L[k] = top THEN up ELSE L[k]
    BY <1>13, <1>21, <2>4
  <2>7. R2[k] = IF R[k] = top THEN up ELSE R[k]
    BY <1>13, <1>21, <2>3, <2>5
  <2>8. L[k] \in N \cup {0} /\ R[k] \in N \cup {0}
    BY <1>2
  <2> QED
    BY <2>1, <2>2, <2>6, <2>7, <2>8, <1>17, <1>18
<1>22. \A k \in N : L2[k] \in N \cup {0} /\ R2[k] \in N \cup {0} /\ P2[k] \in N \cup {0}
  BY <1>13, <1>2, <1>6, <1>12
<1>23. S2[L[x]] = S[L[x]] /\ S2[b] = S[b] /\ S2[R[z]] = S[R[z]]
  BY <1>18, <1>11, <1>10, <1>6, <1>5, <1>2
<1>24. ASSUME NEW k \in N, NEW u \in N
       PROVE  u \in S2[k] <=> u = k \/ u \in S2[L2[k]] \/ u \in S2[R2[k]]
  <2>1. CASE k \notin {x, z}
    BY <2>1, <1>21, <1>18, <1>3
  <2>2. CASE k = x /\ up = z
    BY <2>2, <1>6, <1>14, <1>17, <1>23
  <2>3. CASE k = x /\ up = x
    <3>1. S2[k] = S[top] /\ top = z /\ S2[z] = {z} \cup S[b] \cup S[R[z]]
      BY <2>3, <1>6, <1>17
    <3> QED
      BY <3>1, <2>3, <1>14, <1>23, <1>7
  <2>4. CASE k = z /\ up = z
    <3>1. S2[k] = S[top] /\ top = x /\ S2[x] = {x} \cup S[L[x]] \cup S[b]
      BY <2>4, <1>6, <1>17
    <3> QED
      BY <3>1, <2>4, <1>14, <1>23, <1>7
  <2>5. CASE k = z /\ up = x
    BY <2>5, <1>6, <1>14, <1>17, <1>23
  <2> QED
    BY <2>1, <2>2, <2>3, <2>4, <2>5, <1>6
<1>25. ASSUME NEW k \in N, NEW u \in S2[L2[k]]
       PROVE  u < k
  <2>1. CASE k \notin {x, z}
    BY <2>1, <1>21, <1>25, <1>4
  <2>2. CASE k = x
    BY <2>2, <1>14, <1>23, <1>25, <1>4
  <2>3. CASE k = z /\ up = x
    BY <2>3, <1>14, <1>23, <1>25, <1>8
  <2>4. CASE k = z /\ up = z
    <3>1. u \in N /\ (u = x \/ u \in S[L[x]] \/ u \in S[b])
      BY <2>4, <1>6, <1>14, <1>17, <1>25, <1>19
    <3>2. u \in S[L[x]] => u < x
      BY <1>4
    <3> QED
      BY <3>1, <3>2, <2>4, <1>8, <1>6, <1>5, <1>1
  <2> QED
    BY <2>1, <2>2, <2>3, <2>4, <1>6
<1>26. ASSUME NEW k \in N, NEW u \in S2[R2[k]]
       PROVE  k < u
  <2>1. CASE k \notin {x, z}
    BY <2>1, <1>21, <1>26, <1>4
  <2>2. CASE k = z
    BY <2>2, <1>14, <1>23, <1>26, <1>4
  <2>3. CASE k = x /\ up = z
    BY <2>3, <1>14, <1>23, <1>26, <1>8
  <2>4. CASE k = x /\ up = x
    <3>1. u \in N /\ (u = z \/ u \in S[b] \/ u \in S[R[z]])
      BY <2>4, <1>6, <1>14, <1>17, <1>26, <1>19
    <3>2. u \in S[R[z]] => z < u
      BY <1>4
    <3> QED
      BY <3>1, <3>2, <2>4, <1>8, <1>6, <1>5, <1>1
  <2> QED
    BY <2>1, <2>2, <2>3, <2>4, <1>6
<1>27. ASSUME NEW k \in N
       PROVE  (L2[k] # 0 => P2[L2[k]] = k) /\ (R2[k] # 0 => P2[R2[k]] = k)
  <2>1. CASE k \notin {x, z}
    <3>1. L[k] # 0 => L[k] \in N /\ P[L[k]] = k
      BY <1>2
    <3>2. R[k] # 0 => R[k] \in N /\ P[R[k]] = k
      BY <1>2
    <3>3. L[k] # 0 => L[k] # b
      BY <3>1, <2>1, <1>6
    <3>4. R[k] # 0 => R[k] # b
      BY <3>2, <2>1, <1>6
    <3>5. L2[k] # 0 => P2[L2[k]] = k
      BY <3>1, <3>3, <2>1, <1>21, <1>15, <1>16
    <3>6. R2[k] # 0 => P2[R2[k]] = k
      BY <3>2, <3>4, <2>1, <1>21, <1>15, <1>16
    <3> QED
      BY <3>5, <3>6
  <2>2. CASE k = x
    BY <2>2, <1>14, <1>15, <1>16, <1>11, <1>2, <1>6
  <2>3. CASE k = z
    BY <2>3, <1>14, <1>15, <1>16, <1>11, <1>2, <1>6
  <2> QED
    BY <2>1, <2>2, <2>3
<1>28. ASSUME NEW k \in N
       PROVE  IF k = rt2 THEN P2[k] = 0 ELSE P2[k] \in N /\ k \in {L2[P2[k]], R2[P2[k]]}
  <2>0. up # rt
    BY <1>1, <1>5, <1>6
  <2>1. CASE k = up
    <3>1. CASE top = rt
      BY <2>1, <3>1, <1>15, <1>12
    <3>2. CASE top # rt
      <4>1. P[top] \in N /\ top \in {L[P[top]], R[P[top]]} /\ P[top] \notin {x, z}
        BY <3>2, <1>2, <1>6, <1>12
      <4>2. up \in {L2[P[top]], R2[P[top]]}
        BY <4>1, <1>21
      <4> QED
        BY <2>0, <2>1, <3>2, <4>1, <4>2, <1>15
    <3> QED
      BY <3>1, <3>2
  <2>2. CASE k = top
    <3>1. k # rt2
      BY <2>2, <1>6
    <3> QED
      BY <3>1, <2>2, <1>6, <1>14, <1>15
  <2>3. CASE k = b
    <3>1. k # rt2 /\ k # 0 /\ P2[b] = top
      BY <2>3, <1>1, <1>5, <1>6, <1>10, <1>15
    <3> QED
      BY <3>1, <2>3, <1>6, <1>14
  <2>4. CASE k \notin {x, z, b}
    <3>1. P2[k] = P[k]
      BY <2>4, <1>16
    <3>2. CASE k = rt
      <4>1. k = rt2
        BY <3>2, <2>4, <1>6
      <4> QED
        BY <4>1, <3>1, <3>2, <1>1
    <3>3. CASE k # rt
      <4>1. P[k] \in N /\ k \in {L[P[k]], R[P[k]]} /\ k # rt2
        BY <3>3, <2>4, <1>2, <1>6
      <4>2. CASE P[k] \notin {x, z}
        BY <3>1, <4>1, <4>2, <1>21, <2>4, <1>6
      <4>3. CASE P[k] \in {x, z}
        <5>1. k = L[x] \/ k = R[z]
          BY <4>1, <4>3, <1>6, <2>4
        <5>2. k # 0
          BY <1>1
        <5> QED
          BY <3>1, <4>1, <5>1, <5>2, <1>14, <1>2
      <4> QED
        BY <4>2, <4>3
    <3> QED
      BY <3>2, <3>3
  <2> QED
    BY <2>1, <2>2, <2>3, <2>4, <1>6
<1>29. L2 \in [N -> N \cup {0}] /\ R2 \in [N -> N \cup {0}] /\ P2 \in [N -> N \cup {0}]
  BY <1>22
<1>30. N \subseteq Nat \ {0} /\ IsFiniteSet(N)
  BY DEF IsTree
<1>31. IsTree(N, L2, R2, P2, rt2, S2)
  BY <1>30, <1>19, <1>20, <1>24, <1>25, <1>26, <1>27, <1>28, <1>29 DEF IsTree
<1> QED
  BY <1>31

(* A node that is not below x comes before all that are, or after them. *)
LEMMA Outside ==
  ASSUME NEW N, NEW L, NEW R, NEW P, NEW rt, NEW S, IsTree(N, L, R, P, rt, S)
  PROVE  \A x \in N : \A y \in N :
           y \notin S[x] => (\A u \in S[x] : y < u) \/ (\A u \in S[x] : u < y)
<1> DEFINE Q == {x \in N : \A y \in N :
                   y \notin S[x] => (\A u \in S[x] : y < u) \/ (\A u \in S[x] : u < y)}
<1>1. /\ 0 \notin N /\ N \subseteq Nat /\ S[0] = {} /\ rt \in N \cup {0} /\ S[rt] = N
      /\ \A v \in N \cup {0} : S[v] \subseteq N
  BY TreeFacts
<1>2. \A v \in N : /\ L[v] \in N \cup {0} /\ R[v] \in N \cup {0}
                   /\ v # rt => P[v] \in N /\ v \in {L[P[v]], R[P[v]]}
  BY TreeFacts
<1>3. \A v \in N : \A u \in N : u \in S[v] <=> u = v \/ u \in S[L[v]] \/ u \in S[R[v]]
  BY DEF IsTree
<1>4. \A v \in N : (\A u \in S[L[v]] : u < v) /\ (\A u \in S[R[v]] : v < u)
  BY DEF IsTree
<1>5. ASSUME NEW x \in N, x = rt \/ P[x] \in Q
      PROVE  x \in Q
  <2> SUFFICES ASSUME NEW y \in N, y \notin S[x]
               PROVE  (\A u \in S[x] : y < u) \/ (\A u \in S[x] : u < y)
    OBVIOUS
  <2>1. x # rt
    BY <1>1
  <2> DEFINE q == P[x]
  <2>2. q \in N /\ q \in Q /\ (x = L[q] \/ x = R[q])
    BY <2>1, <1>5, <1>2
  <2>3. \A u \in N : u \in S[q] <=> u = q \/ u \in S[L[q]] \/ u \in S[R[q]]
    BY <2>2, <1>3
  <2>4. (\A u \in S[L[q]] : u < q) /\ (\A u \in S[R[q]] : q < u)
    BY <2>2, <1>4
  <2>5. S[x] \subseteq N /\ y \in Nat /\ q \in Nat /\ \A u \in S[x] : u \in Nat
    BY <1>1, <2>2
  <2>6. S[x] \subseteq S[q]
    BY <2>2, <2>3, <2>5
  <2>7. CASE y \notin S[q]
    BY <2>6, <2>7, <2>2
  <2>8. CASE y \in S[q] /\ x = L[q]
    <3>1. y = q \/ q < y
      BY <2>8, <2>3, <2>4
    <3>2. \A u \in S[x] : u < y
      BY <3>1, <2>4, <2>5, <2>8
    <3> QED
      BY <3>2
  <2>9. CASE y \in S[q] /\ x = R[q]
    <3>1. y = q \/ y < q
      BY <2>9, <2>3, <2>4
    <3>2. \A u \in S[x] : y < u
      BY <3>1, <2>4, <2>5, <2>9
    <3> QED
      BY <3>2
  <2> QED
    BY <2>2, <2>7, <2>8, <2>9
<1> HIDE DEF Q
<1>6. \A x \in N : x \in Q
  BY <1>5, RootInduct
<1> QED
  BY <1>6 DEF Q

(* The predecessor of a node with a left child is the last node below it. *)
LEMMA Predecessor ==
  ASSUME NEW N, NEW L, NEW R, NEW P, NEW rt, NEW S, IsTree(N, L, R, P, rt, S),
         NEW d \in N, NEW pred \in S[L[d]], \A y \in S[L[d]] : y <= pred
  PROVE  /\ L[d] \in N /\ pred \in N /\ pred < d /\ pred # d /\ R[pred] = 0 /\ pred # rt
         /\ P[pred] \in N
         /\ IF pred = L[d] THEN P[pred] = d
            ELSE P[pred] \in S[L[d]] /\ pred = R[P[pred]] /\ pred # L[P[pred]]
                 /\ P[pred] # d /\ P[pred] # pred
         /\ \A y \in N : y # pred /\ y # d => (y < d <=> y < pred)
<1>1. /\ 0 \notin N /\ N \subseteq Nat /\ S[0] = {} /\ rt \in N \cup {0} /\ S[rt] = N
      /\ \A v \in N \cup {0} : S[v] \subseteq N
  BY TreeFacts
<1>2. \A v \in N : /\ L[v] \in N \cup {0} /\ R[v] \in N \cup {0} /\ v \in S[v]
                   /\ v # rt => P[v] \in N /\ v \in {L[P[v]], R[P[v]]}
                   /\ L[v] # 0 => L[v] < v /\ P[L[v]] = v
                   /\ R[v] # 0 => v < R[v] /\ P[R[v]] = v
  BY TreeFacts
<1>3. \A v \in N : \A u \in N : u \in S[v] <=> u = v \/ u \in S[L[v]] \/ u \in S[R[v]]
  BY DEF IsTree
<1>4. \A v \in N : (\A u \in S[L[v]] : u < v) /\ (\A u \in S[R[v]] : v < u)
  BY DEF IsTree
<1>5. L[d] \in N /\ pred \in N /\ pred < d /\ d \in Nat /\ pred \in Nat
  BY <1>1, <1>2, <1>4
<1>6. S[pred] \subseteq S[L[d]]
  BY <1>5, Nested
<1>7. R[pred] = 0
  <2> SUFFICES ASSUME R[pred] # 0 PROVE FALSE
    OBVIOUS
  <2>1. R[pred] \in N /\ pred < R[pred] /\ R[pred] \in Nat
    BY <1>1, <1>2, <1>5
  <2>2. R[pred] \in S[pred]
    BY <2>1, <1>2, <1>3, <1>5
  <2>3. R[pred] <= pred
    BY <2>2, <1>6
  <2> QED
    BY <2>1, <2>3, <1>5
<1>8. pred # rt
  <2> SUFFICES ASSUME pred = rt PROVE FALSE
    OBVIOUS
  <2>1. d \in S[L[d]]
    BY <1>1, <1>6
  <2> QED
    BY <2>1, <1>4, <1>5
<1>9. P[pred] \in N /\ (pred = L[P[pred]] \/ pred = R[P[pred]])
  BY <1>8, <1>5, <1>2
<1>10. pred = L[d] => P[pred] = d
  BY <1>5, <1>2, <1>1
<1>11. ASSUME pred # L[d]
       PROVE  P[pred] \in S[L[d]] /\ pred = R[P[pred]] /\ pred # L[P[pred]] /\ P[pred] # d
              /\ P[pred] # pred
  <2>1. P[pred] \in S[L[d]]
    BY <1>11, <1>5, ParentBelow
  <2>2. P[pred] <= pred /\ P[pred] < d /\ P[pred] \in Nat
    BY <2>1, <1>4, <1>9, <1>1
  <2>3. pred # L[P[pred]]
    BY <2>2, <1>5, <1>9, <1>2, <1>1
  <2>4. P[pred] # pred
    BY <1>5, <1>9, BelowParent, <1>2, <1>1
  <2> QED
    BY <2>1, <2>2, <2>3, <2>4, <1>9, <1>5
<1>12. ASSUME NEW y \in N, y # pred, y # d
       PROVE  y < d <=> y < pred
  <2>1. y \in Nat
    BY <1>1
  <2>2. y < pred => y < d
    BY <2>1, <1>5
  <2>3. ASSUME y < d
        PROVE  y < pred
    <3>1. CASE y \in S[d]
      <4>1. y \in S[L[d]]
        BY <3>1, <2>3, <1>12, <1>3, <1>4, <1>5, <2>1
      <4> QED
        BY <4>1, <1>12, <1>5, <2>1
    <3>2. CASE y \notin S[d]
      <4>1. pred \in S[d] /\ d \in S[d]
        BY <1>3, <1>5
      <4>2. (\A u \in S[d] : y < u) \/ (\A u \in S[d] : u < y)
        BY <3>2, Outside
      <4> QED
        BY <4>1, <4>2, <2>3, <2>1, <1>5
    <3> QED
      BY <3>1, <3>2
  <2> QED
    BY <2>2, <2>3
<1> QED
  BY <1>5, <1>7, <1>8, <1>9, <1>10, <1>11, <1>12

(* A node with two children: its predecessor leaves its own place to its left
   child and takes that of the node. *)
InnerUnlinks(N, L, R, P, rt, d, pred, p, child, N2, L2, R2, P2, rt2) ==
  /\ p = IF pred = L[d] THEN pred ELSE P[pred]
  /\ child = L[pred]
  /\ N2 = N \ {d}
  /\ L2 = [k \in N2 |-> IF k = p /\ k = pred THEN child
                         ELSE IF k = pred THEN L[d]
                         ELSE IF k = P[d] /\ L[k] = d THEN pred ELSE L[k]]
  /\ R2 = [k \in N2 |-> IF k = pred THEN R[d] ELSE IF k = p THEN child
                         ELSE IF k = P[d] /\ L[k] # d THEN pred ELSE R[k]]
  /\ P2 = [k \in N2 |-> IF k = pred THEN P[d] ELSE IF k = child THEN p
                         ELSE IF k \in {L[d], R[d]} THEN pred ELSE P[k]]
  /\ rt2 = IF d = rt THEN pred ELSE rt

(* erase( iterator ) of a node with two children: when its predecessor takes its
   place, the rest is a search tree. *)
LEMMA InnerUnlinked ==
  ASSUME NEW N, NEW L, NEW R, NEW P, NEW rt, NEW S,
         NEW d, NEW pred, NEW p, NEW child, NEW N2, NEW L2, NEW R2, NEW P2, NEW rt2,
         IsTree(N, L, R, P, rt, S),
         d \in N, pred \in S[L[d]], \A y \in S[L[d]] : y <= pred,
         InnerUnlinks(N, L, R, P, rt, d, pred, p, child, N2, L2, R2, P2, rt2)
  PROVE  \E S2 : IsTree(N2, L2, R2, P2, rt2, S2)
<1> USE DEF InnerUnlinks
<1> DEFINE toLeft == P[pred] # 0 /\ pred = L[P[pred]]
           N1 == N \ {pred}
           L1 == [x \in N1 |-> IF x = P[pred] /\ toLeft THEN child ELSE L[x]]
           R1 == [x \in N1 |-> IF x = P[pred] /\ ~toLeft THEN child ELSE R[x]]
           P1 == [x \in N1 |-> IF x = child THEN P[pred] ELSE P[x]]
<1>1. /\ 0 \notin N /\ N \subseteq Nat /\ S[0] = {} /\ rt \in N /\ S[rt] = N /\ P[rt] = 0
      /\ \A v \in N \cup {0} : S[v] \subseteq N
  BY TreeFacts
<1>2. \A v \in N : /\ L[v] \in N \cup {0} /\ R[v] \in N \cup {0} /\ P[v] \in N \cup {0}
                   /\ v # rt => P[v] \in N /\ v \in {L[P[v]], R[P[v]]}
                   /\ L[v] # 0 => L[v] < v /\ P[L[v]] = v
                   /\ R[v] # 0 => v < R[v] /\ P[R[v]] = v
  BY TreeFacts
<1>3. /\ L[d] \in N /\ pred \in N /\ pred # d /\ R[pred] = 0 /\ pred # rt /\ P[pred] \in N
      /\ pred = L[d] => P[pred] = d
      /\ pred # L[d] => P[pred] \in S[L[d]] /\ pred = R[P[pred]] /\ pred # L[P[pred]]
                        /\ P[pred] # d /\ P[pred] # pred
      /\ \A y \in N : y # pred /\ y # d => (y < d <=> y < pred)
  <2>1. /\ L[d] \in N /\ pred \in N /\ pred < d /\ pred # d /\ R[pred] = 0 /\ pred # rt
        /\ P[pred] \in N
        /\ IF pred = L[d] THEN P[pred] = d
           ELSE P[pred] \in S[L[d]] /\ pred = R[P[pred]] /\ pred # L[P[pred]]
                /\ P[pred] # d /\ P[pred] # pred
        /\ \A y \in N : y # pred /\ y # d => (y < d <=> y < pred)
    BY Predecessor
  <2> QED
    BY <2>1
<1>4. P[pred] # 0 /\ (toLeft <=> pred = L[d]) /\ pred # 0 /\ d # 0
  BY <1>1, <1>3
<1>5. child = IF L[pred] # 0 THEN L[pred] ELSE R[pred]
  BY <1>3
<1>6. rt = IF P[pred] = 0 THEN child ELSE rt
  BY <1>4
<1>7. \E S1 : IsTree(N1, L1, R1, P1, rt, S1)
  <2>1. toLeft = (P[pred] # 0 /\ pred = L[P[pred]])
    BY DEF toLeft
  <2>2. /\ N1 = N \ {pred}
        /\ L1 = [x \in N1 |-> IF x = P[pred] /\ toLeft THEN child ELSE L[x]]
        /\ R1 = [x \in N1 |-> IF x = P[pred] /\ ~toLeft THEN child ELSE R[x]]
        /\ P1 = [x \in N1 |-> IF x = child THEN P[pred] ELSE P[x]]
    OBVIOUS
  <2>3. pred \in N /\ R[pred] = 0
    BY <1>3
  <2> HIDE DEF toLeft, N1, L1, R1, P1
  <2>4. Unlinks(N, L, R, P, rt, pred, child, toLeft, N1, L1, R1, P1, rt)
    BY <2>1, <2>2, <2>3, <1>5, <1>6 DEF Unlinks
  <2> QED
    BY ONLY <2>4, IsTree(N, L, R, P, rt, S), Unlinked
<1>8. d \in N1 /\ pred \in Nat \ {0} /\ pred \notin N1 /\ N2 = (N1 \ {d}) \cup {pred}
  BY <1>1, <1>3
<1>9. \A y \in N1 : y # d => (y < d <=> y < pred)
  BY <1>3
<1>10. \A k \in N1 : /\ L1[k] = IF k = P[pred] /\ toLeft THEN child ELSE L[k]
                     /\ R1[k] = IF k = P[pred] /\ ~toLeft THEN child ELSE R[k]
                     /\ P1[k] = IF k = child THEN P[pred] ELSE P[k]
  OBVIOUS
<1>11. child \in N \cup {0} /\ child # d /\ (child # 0 => P[child] = pred) /\ child # pred
  <2>1. child \in N \cup {0} /\ (child # 0 => P[child] = pred /\ child < pred)
    BY <1>2, <1>3
  <2>2. child # 0 => child \in S[L[d]]
    <3>1. child # 0 => child \in S[pred]
      BY <2>1, <1>3 DEF IsTree
    <3>2. S[pred] \subseteq S[L[d]]
      BY <1>3, Nested
    <3> QED
      BY <3>1, <3>2
  <2>3. d \notin S[L[d]]
    BY <1>1 DEF IsTree
  <2>4. child # pred
    BY <2>1, <1>1, <1>3
  <2> QED
    BY <2>1, <2>2, <2>3, <2>4, <1>4
<1> HIDE DEF N1, L1, R1, P1, toLeft
<1>12. \A k \in N2 : k # pred => k \in N1 /\ k # d
  BY <1>8
<1>13. L2 = [x \in N2 |-> IF x = pred THEN L1[d] ELSE IF L1[x] = d THEN pred ELSE L1[x]]
  <2> SUFFICES ASSUME NEW k \in N2
               PROVE  (IF k = p /\ k = pred THEN child
                       ELSE IF k = pred THEN L[d]
                       ELSE IF k = P[d] /\ L[k] = d THEN pred ELSE L[k])
                      = (IF k = pred THEN L1[d] ELSE IF L1[k] = d THEN pred ELSE L1[k])
    OBVIOUS
  <2>1. CASE k = pred
    BY <2>1, <1>3, <1>4, <1>8, <1>10
  <2>2. CASE k # pred
    <3>1. k \in N1 /\ k \in N /\ k # d
      BY <2>2, <1>12
    <3>2. L1[k] = L[k]
      BY <3>1, <1>3, <1>4, <1>10
    <3>3. L[k] = d => k = P[d]
      BY <3>1, <1>2, <1>4
    <3> QED
      BY <2>2, <3>2, <3>3
  <2> QED
    BY <2>1, <2>2
<1>14. R2 = [x \in N2 |-> IF x = pred THEN R1[d] ELSE IF R1[x] = d THEN pred ELSE R1[x]]
  <2> SUFFICES ASSUME NEW k \in N2
               PROVE  (IF k = pred THEN R[d] ELSE IF k = p THEN child
                       ELSE IF k = P[d] /\ L[k] # d THEN pred ELSE R[k])
                      = (IF k = pred THEN R1[d] ELSE IF R1[k] = d THEN pred ELSE R1[k])
    OBVIOUS
  <2>1. CASE k = pred
    BY <2>1, <1>3, <1>4, <1>8, <1>10
  <2>2. CASE k # pred
    <3>1. k \in N1 /\ k \in N /\ k # d /\ k # 0
      BY <2>2, <1>12, <1>1
    <3>2. CASE k = p
      <4>1. pred # L[d] /\ k = P[pred]
        BY <3>2, <2>2
      <4>2. R1[k] = child
        BY <4>1, <3>1, <1>4, <1>10
      <4> QED
        BY <4>2, <3>2, <2>2, <1>11
    <3>3. CASE k # p
      <4>1. R1[k] = R[k]
        BY <3>1, <3>3, <1>3, <1>4, <1>10
      <4>2. R[k] = d => k = P[d] /\ L[k] # d
        BY <3>1, <1>2, <1>4, <1>1
      <4>3. k = P[d] => d = L[k] \/ d = R[k]
        BY <3>1, <1>2, <1>1
      <4> QED
        BY <2>2, <3>3, <4>1, <4>2, <4>3
    <3> QED
      BY <3>2, <3>3
  <2> QED
    BY <2>1, <2>2
<1>15. P2 = [x \in N2 |-> IF x = pred THEN P1[d] ELSE IF P1[x] = d THEN pred ELSE P1[x]]
  <2> SUFFICES ASSUME NEW k \in N2
               PROVE  (IF k = pred THEN P[d] ELSE IF k = child THEN p
                       ELSE IF k \in {L[d], R[d]} THEN pred ELSE P[k])
                      = (IF k = pred THEN P1[d] ELSE IF P1[k] = d THEN pred ELSE P1[k])
    OBVIOUS
  <2>1. CASE k = pred
    BY <2>1, <1>8, <1>10, <1>11
  <2>2. CASE k # pred
    <3>1. k \in N1 /\ k \in N /\ k # d /\ k # 0
      BY <2>2, <1>12, <1>1
    <3>2. CASE k = child
      BY <3>1, <3>2, <2>2, <1>3, <1>10
    <3>3. CASE k # child
      <4>1. P1[k] = P[k]
        BY <3>1, <3>3, <1>10
      <4>2. k \in {L[d], R[d]} => P[k] = d
        BY <3>1, <1>2
      <4>3. P[k] = d => k \in {L[d], R[d]}
        BY <3>1, <1>1, <1>2, <1>4
      <4> QED
        BY <2>2, <3>3, <4>1, <4>2, <4>3
    <3> QED
      BY <3>2, <3>3
  <2> QED
    BY <2>1, <2>2
<1>16. rt2 = IF rt = d THEN pred ELSE rt
  OBVIOUS
<1>17. Renames(N1, L1, R1, P1, rt, d, pred, N2, L2, R2, P2, rt2)
  BY <1>8, <1>9, <1>13, <1>14, <1>15, <1>16 DEF Renames
<1> QED
  BY ONLY <1>7, <1>17, RenameKeepsTree

(* The links around two nodes that are turned, before and after. *)
TurnLinks(N, L, R, top, up, x, z, b, L2, R2) ==
  /\ 0 \notin N /\ x \in N /\ z \in N /\ x # z
  /\ {top, up} = {x, z}
  /\ L2[x] = L[x] /\ R2[x] = (IF up = x THEN z ELSE b)
  /\ L2[z] = (IF up = z THEN x ELSE b) /\ R2[z] = R[z]
  /\ b \notin {x, z} /\ L[x] \notin {x, z} /\ R[z] \notin {x, z}
  /\ b \in N \cup {0} /\ L[x] \in N \cup {0} /\ R[z] \in N \cup {0}
  /\ \A k \in N : k \notin {x, z} => /\ L[k] \in N \cup {0} /\ R[k] \in N \cup {0}
                                     /\ L[k] # up /\ R[k] # up
                                     /\ L2[k] = IF L[k] = top THEN up ELSE L[k]
                                     /\ R2[k] = IF R[k] = top THEN up ELSE R[k]

(* What the rotation of main case 4 does to the children of each node. *)
LEMMA TurnedLinks ==
  ASSUME NEW N, NEW L, NEW R, NEW P, NEW rt, NEW S,
         NEW top, NEW up, NEW x, NEW z, NEW b, NEW L2, NEW R2, NEW P2, NEW rt2,
         IsTree(N, L, R, P, rt, S),
         Turns(N, L, R, P, rt, top, up, x, z, b, L2, R2, P2, rt2)
  PROVE  TurnLinks(N, L, R, top, up, x, z, b, L2, R2)
<1>1. /\ x \in N /\ z \in N
      /\ \/ top = x /\ up = z /\ z = R[x] /\ b = L[z]
         \/ top = z /\ up = x /\ x = L[z] /\ b = R[x]
      /\ \A k \in N : /\ L2[k] = IF k = z THEN (IF up = z THEN x ELSE b)
                                 ELSE IF k = P[top] /\ L[k] = top THEN up ELSE L[k]
                      /\ R2[k] = IF k = x THEN (IF up = x THEN z ELSE b)
                                 ELSE IF k = P[top] /\ L[k] # top THEN up ELSE R[k]
  BY DEF Turns
<1>2. /\ 0 \notin N /\ N \subseteq Nat
      /\ \A v \in N : /\ L[v] \in N \cup {0} /\ R[v] \in N \cup {0} /\ P[v] \in N \cup {0}
                      /\ v # rt => P[v] \in N /\ v \in {L[P[v]], R[P[v]]}
                      /\ L[v] # 0 => P[L[v]] = v
                      /\ R[v] # 0 => P[R[v]] = v
      /\ rt \in N => P[rt] = 0
  BY TreeFacts
<1>3. \A v \in N : /\ L[v] # 0 => L[v] < v /\ L[v] \in Nat
                   /\ R[v] # 0 => v < R[v] /\ R[v] \in Nat
                   /\ v \in Nat
  BY TreeFacts
<1>4. x < z /\ x # 0 /\ z # 0 /\ x \in Nat /\ z \in Nat
  BY <1>1, <1>2, <1>3
<1>5. x # z /\ top # up /\ {top, up} = {x, z}
  BY <1>1, <1>4
<1>6. L[x] \notin {x, z} /\ R[z] \notin {x, z}
  BY <1>1, <1>3, <1>4
<1>7. b \in N \cup {0} /\ b \notin {x, z}
  <2>1. CASE up = z /\ z = R[x] /\ b = L[z]
    <3>1. b \in N \cup {0} /\ b # z
      BY <2>1, <1>1, <1>2, <1>3
    <3>2. b # x
      <4> SUFFICES ASSUME b = x PROVE FALSE
        OBVIOUS
      <4>1. PICK u \in N : u = x
        BY <1>1
      <4>2. P[x] = z /\ P[z] = x
        BY <2>1, <1>1, <1>2, <1>4
      <4>3. x \in S[z] /\ P[x] \notin S[x]
        BY <4>2, <1>1, <1>4, BelowParent
      <4>4. z \in S[x]
        BY <4>2, <1>1, <1>4, BelowParent
      <4> QED
        BY <4>2, <4>3, <4>4
    <3> QED
      BY <3>1, <3>2
  <2>2. CASE up = x /\ x = L[z] /\ b = R[x]
    <3>1. b \in N \cup {0} /\ b # x
      BY <2>2, <1>1, <1>2, <1>3
    <3>2. b # z
      <4> SUFFICES ASSUME b = z PROVE FALSE
        OBVIOUS
      <4>2. P[x] = z /\ P[z] = x
        BY <2>2, <1>1, <1>2, <1>4
      <4>3. x \in S[z] /\ P[x] \notin S[x]
        BY <4>2, <1>1, <1>4, BelowParent
      <4>4. z \in S[x]
        BY <4>2, <1>1, <1>4, BelowParent
      <4> QED
        BY <4>2, <4>3, <4>4
    <3> QED
      BY <3>1, <3>2
  <2> QED
    BY <1>1, <2>1, <2>2
<1>8. P[up] = top /\ top \in N /\ top # 0
  BY <1>1, <1>2, <1>4
<1>11. P[top] \notin {x, z}
  <2>1. P[top] # top
    BY <1>2, <1>3, <1>8
  <2>2. P[top] # up
    <3> SUFFICES ASSUME P[top] = up PROVE FALSE
      OBVIOUS
    <3>1. up \in N /\ up # 0
      BY <1>1, <1>4
    <3>2. up \in S[top] /\ P[up] \notin S[up] /\ top \in S[up]
      BY <3>1, <1>8, BelowParent
    <3> QED
      BY <3>2, <1>8
  <2> QED
    BY <2>1, <2>2, <1>5
<1>12. /\ L2[x] = L[x] /\ R2[x] = (IF up = x THEN z ELSE b)
       /\ L2[z] = (IF up = z THEN x ELSE b) /\ R2[z] = R[z]
  BY <1>1, <1>5, <1>11
<1>13. ASSUME NEW k \in N, k \notin {x, z}
       PROVE  /\ L[k] \in N \cup {0} /\ R[k] \in N \cup {0}
              /\ L[k] # up /\ R[k] # up
              /\ L2[k] = IF L[k] = top THEN up ELSE L[k]
              /\ R2[k] = IF R[k] = top THEN up ELSE R[k]
  <2>1. L[k] \in N \cup {0} /\ R[k] \in N \cup {0}
    BY <1>2
  <2>2. up # 0 /\ top # 0 /\ k # top
    BY <1>1, <1>4, <1>13
  <2>3. L[k] # up /\ R[k] # up
    BY <2>2, <1>2, <1>8
  <2>4. /\ L2[k] = IF k = P[top] /\ L[k] = top THEN up ELSE L[k]
        /\ R2[k] = IF k = P[top] /\ L[k] # top THEN up ELSE R[k]
    BY <1>1, <1>13
  <2>5. (L[k] = top => k = P[top]) /\ (R[k] = top => k = P[top])
    BY <1>2, <2>2
  <2>6. k = P[top] => L[k] = top \/ R[k] = top
    BY <1>2, <1>8, <2>1
  <2>7. ~(L[k] = top /\ R[k] = top)
    BY <1>3, <2>2
  <2> QED
    BY <2>1, <2>3, <2>4, <2>5, <2>6, <2>7
<1>14. L[x] \in N \cup {0} /\ R[z] \in N \cup {0}
  BY <1>1, <1>2
<1> QED
  BY <1>1, <1>2, <1>5, <1>6, <1>7, <1>12, <1>13, <1>14 DEF TurnLinks

(* A function from the leaves up: what it is for a node follows from what it is
   for the children. *)
Folds(N, L, R, V, e, G, f, D) ==
  /\ f \in [N \cup {0} -> V] /\ f[0] = e
  /\ \A y \in D : f[y] = G[<<y, f[L[y]], f[R[y]]>>]

(* A function that is defined at a node by its values at the children exists for
   every tree: a recursive definition over the nodes means what it says. *)
LEMMA FoldTree ==
  ASSUME NEW N, NEW L, NEW R, NEW P, NEW rt, NEW S, NEW V, NEW e, NEW G,
         IsTree(N, L, R, P, rt, S), e \in V, G \in [N \X V \X V -> V]
  PROVE  \E f : Folds(N, L, R, V, e, G, f, N)
<1> DEFINE T == {x \in N : \E f : Folds(N, L, R, V, e, G, f, S[x])}
<1>1. /\ 0 \notin N /\ N \subseteq Nat /\ S[0] = {} /\ S[rt] = N /\ rt \in N \cup {0}
      /\ \A x \in N : L[x] \in N \cup {0} /\ R[x] \in N \cup {0} /\ x \in S[x]
      /\ \A x \in N \cup {0} : S[x] \subseteq N
  BY TreeFacts
<1>2. \E f : Folds(N, L, R, V, e, G, f, S[0])
  <2>1. Folds(N, L, R, V, e, G, [y \in N \cup {0} |-> e], S[0])
    BY <1>1 DEF Folds
  <2> QED
    BY <2>1
<1>3. ASSUME NEW x \in N, L[x] = 0 \/ L[x] \in T, R[x] = 0 \/ R[x] \in T
      PROVE  x \in T
  <2>1. PICK fl : Folds(N, L, R, V, e, G, fl, S[L[x]])
    BY <1>2, <1>3
  <2>2. PICK fr : Folds(N, L, R, V, e, G, fr, S[R[x]])
    BY <1>2, <1>3
  <2> DEFINE here == G[<<x, fl[L[x]], fr[R[x]]>>]
             f == [y \in N \cup {0} |-> IF y \in S[L[x]] THEN fl[y]
                                        ELSE IF y \in S[R[x]] THEN fr[y]
                                        ELSE IF y = x THEN here ELSE e]
  <2>3. /\ fl \in [N \cup {0} -> V] /\ fl[0] = e
        /\ \A y \in S[L[x]] : fl[y] = G[<<y, fl[L[y]], fl[R[y]]>>]
    BY <2>1 DEF Folds
  <2>4. /\ fr \in [N \cup {0} -> V] /\ fr[0] = e
        /\ \A y \in S[R[x]] : fr[y] = G[<<y, fr[L[y]], fr[R[y]]>>]
    BY <2>2 DEF Folds
  <2>5. L[x] \in N \cup {0} /\ R[x] \in N \cup {0} /\ S[L[x]] \subseteq N /\ S[R[x]] \subseteq N
    BY <1>1
  <2>6. here \in V
    <3>1. fl[L[x]] \in V /\ fr[R[x]] \in V
      BY <2>3, <2>4, <2>5
    <3> QED
      BY <3>1
  <2>7. f \in [N \cup {0} -> V] /\ f[0] = e
    <3>1. 0 \notin S[L[x]] /\ 0 \notin S[R[x]] /\ 0 # x
      BY <1>1, <2>5
    <3> HIDE DEF here
    <3> QED
      BY <3>1, <2>3, <2>4, <2>6
  <2>8. /\ \A y \in S[L[x]] : y \notin S[R[x]] /\ y # x
        /\ \A y \in S[R[x]] : y # x
    <3>1. (\A y \in S[L[x]] : y < x) /\ (\A y \in S[R[x]] : x < y)
      BY DEF IsTree
    <3>2. x \in Nat /\ (\A y \in S[L[x]] : y \in Nat) /\ (\A y \in S[R[x]] : y \in Nat)
      BY <1>1, <2>5
    <3> QED
      BY <3>1, <3>2
  <2>9. /\ \A y \in S[L[x]] : f[y] = fl[y]
        /\ \A y \in S[R[x]] : f[y] = fr[y]
        /\ f[x] = here
    BY <2>5, <2>8
  <2> HIDE DEF f
  <2>10. ASSUME NEW z \in N, NEW y \in S[z], NEW g, g[0] = e, f[0] = e, \A u \in S[z] : f[u] = g[u]
         PROVE  f[L[y]] = g[L[y]] /\ f[R[y]] = g[R[y]]
    <3>1. S[y] \subseteq S[z] /\ y \in N
      BY Nested, <1>1
    <3>2. (L[y] = 0 \/ L[y] \in S[y]) /\ (R[y] = 0 \/ R[y] \in S[y])
      <4>1. \A u \in N : u \in S[y] <=> u = y \/ u \in S[L[y]] \/ u \in S[R[y]]
        BY <3>1 DEF IsTree
      <4> QED
        BY <3>1, <4>1, <1>1
    <3> QED
      BY <3>1, <3>2, <2>10
  <2>11. \A y \in S[L[x]] : f[y] = G[<<y, f[L[y]], f[R[y]]>>]
    <3> SUFFICES ASSUME NEW y \in S[L[x]] PROVE f[y] = G[<<y, f[L[y]], f[R[y]]>>]
      OBVIOUS
    <3>1. L[x] \in N
      BY <2>5, <1>1
    <3>2. f[L[y]] = fl[L[y]] /\ f[R[y]] = fl[R[y]]
      BY <3>1, <2>3, <2>7, <2>9, <2>10
    <3> QED
      BY <3>2, <2>3, <2>9
  <2>12. \A y \in S[R[x]] : f[y] = G[<<y, f[L[y]], f[R[y]]>>]
    <3> SUFFICES ASSUME NEW y \in S[R[x]] PROVE f[y] = G[<<y, f[L[y]], f[R[y]]>>]
      OBVIOUS
    <3>1. R[x] \in N
      BY <2>5, <1>1
    <3>2. f[L[y]] = fr[L[y]] /\ f[R[y]] = fr[R[y]]
      BY <3>1, <2>4, <2>7, <2>9, <2>10
    <3> QED
      BY <3>2, <2>4, <2>9
  <2>13. f[x] = G[<<x, f[L[x]], f[R[x]]>>]
    <3>1. f[L[x]] = fl[L[x]]
      <4>1. L[x] = 0 \/ L[x] \in S[L[x]]
        BY <1>1, <2>5
      <4> QED
        BY <4>1, <2>3, <2>7, <2>9
    <3>2. f[R[x]] = fr[R[x]]
      <4>1. R[x] = 0 \/ R[x] \in S[R[x]]
        BY <1>1, <2>5
      <4> QED
        BY <4>1, <2>4, <2>7, <2>9
    <3> QED
      BY <3>1, <3>2, <2>9
  <2>14. \A y \in S[x] : y = x \/ y \in S[L[x]] \/ y \in S[R[x]]
    <3>1. \A y \in N : y \in S[x] <=> y = x \/ y \in S[L[x]] \/ y \in S[R[x]]
      BY DEF IsTree
    <3> QED
      BY <3>1, <1>1
  <2>15. Folds(N, L, R, V, e, G, f, S[x])
    BY <2>7, <2>11, <2>12, <2>13, <2>14 DEF Folds
  <2> QED
    BY <2>15
<1>4. \A x \in N : x \in T
  <2> HIDE DEF T
  <2> QED
    BY <1>3, TreeInduct
<1>5. \E f : Folds(N, L, R, V, e, G, f, S[rt])
  BY <1>1, <1>2, <1>4
<1> QED
  BY <1>1, <1>5

-----------------------------------------------------------------------------
(* Black heights and colours. *)

(* H is the number of black nodes on every way down from a node; below the
   child of h on the side toLeft one is missing. *)
Heights(N, L, R, C, h, toLeft, H) ==
  /\ H \in [N \cup {0} -> Nat] /\ H[0] = 0
  /\ \A x \in N : /\ H[x] = H[L[x]] + (IF C[x] THEN 0 ELSE 1) + (IF x = h /\ toLeft THEN 1 ELSE 0)
                  /\ H[x] = H[R[x]] + (IF C[x] THEN 0 ELSE 1) + (IF x = h /\ ~toLeft THEN 1 ELSE 0)

(* No red node has a red child, but that bad may be one. *)
Painted(N, L, R, C, bad) ==
  \A x \in N : C[x] => /\ L[x] = 0 \/ L[x] = bad \/ ~C[L[x]]
                       /\ R[x] = 0 \/ R[x] = bad \/ ~C[R[x]]

(* The three nodes of a rotation get the heights that the subtrees between
   them, which are of one height, call for. *)
Repaints(N, L, R, C, top, x, y, z, b, c, H, C2) ==
  /\ H \in [N \cup {0} -> Nat] /\ H[0] = 0
  /\ \A w \in N \ {x, y, z} : /\ H[w] = H[L[w]] + (IF C[w] THEN 0 ELSE 1)
                              /\ H[w] = H[R[w]] + (IF C[w] THEN 0 ELSE 1)
  /\ C2 \in [N -> BOOLEAN]
  /\ \A w \in N \ {x, y, z} : C2[w] = C[w]
  /\ H[L[x]] = H[b] /\ H[b] = H[c] /\ H[c] = H[R[z]]
  /\ C2[x] = C2[z]
  /\ H[top] = H[b] + (IF C2[x] THEN 0 ELSE 1) + (IF C2[y] THEN 0 ELSE 1)

(* The links around the three nodes, before and after. *)
LEMMA RotatedLinks ==
  ASSUME NEW N, NEW L, NEW R, NEW P, NEW rt, NEW S,
         NEW top, NEW x, NEW y, NEW z, NEW b, NEW c, NEW L2, NEW R2, NEW P2, NEW rt2,
         IsTree(N, L, R, P, rt, S),
         Rotates(N, L, R, P, rt, top, x, y, z, b, c, L2, R2, P2, rt2)
  PROVE  /\ 0 \notin N /\ x \in N /\ y \in N /\ z \in N /\ top \in {x, z}
         /\ x # y /\ y # z /\ x # z
         /\ \A u \in {b, c, L[x], R[z]} : u \in (N \cup {0}) \ {x, y, z}
         /\ L2[y] = x /\ R2[y] = z /\ L2[x] = L[x] /\ R2[x] = b /\ L2[z] = c /\ R2[z] = R[z]
         /\ \A k \in N : k \notin {x, y, z} => /\ L[k] \in N \cup {0} /\ R[k] \in N \cup {0}
                                               /\ L[k] \in {x, y, z} => L[k] = top
                                               /\ R[k] \in {x, y, z} => R[k] = top
                                               /\ L2[k] = IF L[k] = top THEN y ELSE L[k]
                                               /\ R2[k] = IF R[k] = top THEN y ELSE R[k]
<1>1. /\ x \in N /\ y \in N /\ z \in N /\ Triple(L, R, top, x, y, z, b, c)
  BY DEF Rotates
<1>2. /\ \A k \in N : /\ L2[k] = IF k = y THEN x ELSE IF k = z THEN c
                                 ELSE IF k = P[top] /\ L[k] = top THEN y ELSE L[k]
                      /\ R2[k] = IF k = y THEN z ELSE IF k = x THEN b
                                 ELSE IF k = P[top] /\ L[k] # top THEN y ELSE R[k]
  BY DEF Rotates
<1>3. /\ 0 \notin N /\ N \subseteq Nat
      /\ \A v \in N : /\ L[v] \in N \cup {0} /\ R[v] \in N \cup {0} /\ P[v] \in N \cup {0}
                      /\ v # rt => P[v] \in N /\ v \in {L[P[v]], R[P[v]]}
                      /\ L[v] # 0 => P[L[v]] = v /\ L[v] < v
                      /\ R[v] # 0 => P[R[v]] = v /\ v < R[v]
      /\ rt \in N => P[rt] = 0
  BY TreeFacts
<1>4. /\ top \in N /\ top \in {x, z} /\ x < y /\ y < z
      /\ b \in N \cup {0} /\ c \in N \cup {0}
      /\ \A w \in {x, y, z} : w # top => P[w] \in {x, y, z}
      /\ (b # 0 => P[b] \in {x, y, z}) /\ (c # 0 => P[c] \in {x, y, z})
      /\ \A u \in S[b] : x < u /\ u < y
      /\ \A u \in S[c] : y < u /\ u < z
  BY <1>1, TripleFacts
<1>6. x \in Nat /\ y \in Nat /\ z \in Nat /\ x # 0 /\ y # 0 /\ z # 0 /\ x # y /\ y # z /\ x # z
  BY <1>1, <1>3, <1>4
<1>10. b \notin {x, y, z} /\ c \notin {x, y, z} /\ L[x] \notin {x, y, z} /\ R[z] \notin {x, y, z}
  <2>1. b # 0 => b \in S[b]
    BY <1>4, TreeFacts
  <2>2. c # 0 => c \in S[c]
    BY <1>4, TreeFacts
  <2>3. b \notin {x, y, z}
    BY <2>1, <1>4, <1>6
  <2>4. c \notin {x, y, z}
    BY <2>2, <1>4, <1>6
  <2>5. (L[x] \in Nat /\ L[x] < x) \/ L[x] = 0
    BY <1>1, <1>3
  <2>6. (R[z] \in Nat /\ z < R[z]) \/ R[z] = 0
    BY <1>1, <1>3
  <2>7. L[x] \notin {x, y, z}
    BY <2>5, <1>4, <1>6
  <2>8. R[z] \notin {x, y, z}
    BY <2>6, <1>4, <1>6
  <2> QED
    BY <2>3, <2>4, <2>7, <2>8
<1>11. \A k \in N : k \notin {x, y, z} => /\ L[k] \in {x, y, z} => L[k] = top /\ k = P[top]
                                          /\ R[k] \in {x, y, z} => R[k] = top /\ k = P[top]
  <2> SUFFICES ASSUME NEW k \in N, k \notin {x, y, z}
               PROVE  /\ L[k] \in {x, y, z} => L[k] = top /\ k = P[top]
                      /\ R[k] \in {x, y, z} => R[k] = top /\ k = P[top]
    OBVIOUS
  <2>1. L[k] \in {x, y, z} => P[L[k]] = k
    BY <1>3, <1>6
  <2>2. R[k] \in {x, y, z} => P[R[k]] = k
    BY <1>3, <1>6
  <2> QED
    BY <2>1, <2>2, <1>4
<1>11a. \A k \in N : ~(L[k] = top /\ R[k] = top)
  BY <1>3, <1>4
<1>11b. \A k \in N : k = P[top] => L[k] = top \/ R[k] = top
  BY <1>3, <1>4
<1>11c. L[x] # top /\ R[z] # top
  BY <1>10, <1>4
<1>12. L2[y] = x /\ R2[y] = z /\ L2[z] = c /\ R2[x] = b
  BY <1>1, <1>2, <1>6
<1>13. L2[x] = L[x] /\ R2[z] = R[z]
  <2>1. x = P[top] => L[x] # top
    BY <1>11c
  <2>2. L2[x] = L[x]
    BY <1>1, <1>2, <1>6, <1>11c
  <2>3. ASSUME z = P[top], L[z] # top
        PROVE  FALSE
    BY <2>3, <1>11b, <1>11c, <1>1
  <2>4. R2[z] = R[z]
    BY <1>1, <1>2, <1>6, <2>3
  <2> QED
    BY <2>2, <2>4
<1>14. ASSUME NEW k \in N \ {x, y, z}
       PROVE  /\ L2[k] = IF L[k] = top THEN y ELSE L[k]
              /\ R2[k] = IF R[k] = top THEN y ELSE R[k]
  <2>1. /\ L2[k] = IF k = P[top] /\ L[k] = top THEN y ELSE L[k]
        /\ R2[k] = IF k = P[top] /\ L[k] # top THEN y ELSE R[k]
    BY <1>2
  <2>2. (L[k] = top => k = P[top]) /\ (R[k] = top => k = P[top])
    BY <1>3, <1>4
  <2> QED
    BY <2>1, <2>2, <1>11a, <1>11b
<1>15. \A u \in {b, c, L[x], R[z]} : u \in (N \cup {0}) \ {x, y, z}
  BY <1>1, <1>3, <1>4, <1>10
<1>16. \A k \in N \ {x, y, z} : L[k] \in N \cup {0} /\ R[k] \in N \cup {0}
  BY <1>3
<1> QED
  BY <1>1, <1>3, <1>4, <1>6, <1>11, <1>12, <1>13, <1>14, <1>15, <1>16

(* The black heights after three nodes were restructured and repainted, if the
   new colours make up for what a side was short of. *)
LEMMA RotatedHeights ==
  ASSUME NEW N, NEW L, NEW R, NEW P, NEW rt, NEW S,
         NEW top, NEW x, NEW y, NEW z, NEW b, NEW c, NEW L2, NEW R2, NEW P2, NEW rt2,
         NEW C, NEW C2, NEW H,
         IsTree(N, L, R, P, rt, S),
         Rotates(N, L, R, P, rt, top, x, y, z, b, c, L2, R2, P2, rt2),
         Repaints(N, L, R, C, top, x, y, z, b, c, H, C2)
  PROVE  \E H2 : Heights(N, L2, R2, C2, 0, FALSE, H2)
<1> DEFINE low == H[b] + (IF C2[x] THEN 0 ELSE 1)
           H2 == [k \in N \cup {0} |-> IF k = y THEN H[top] ELSE IF k \in {x, z} THEN low ELSE H[k]]
<1>1. /\ 0 \notin N /\ x \in N /\ y \in N /\ z \in N /\ top \in {x, z}
      /\ x # y /\ y # z /\ x # z
      /\ \A u \in {b, c, L[x], R[z]} : u \in (N \cup {0}) \ {x, y, z}
      /\ L2[y] = x /\ R2[y] = z /\ L2[x] = L[x] /\ R2[x] = b /\ L2[z] = c /\ R2[z] = R[z]
      /\ \A k \in N : k \notin {x, y, z} => /\ L[k] \in N \cup {0} /\ R[k] \in N \cup {0}
                                            /\ L[k] \in {x, y, z} => L[k] = top
                                            /\ R[k] \in {x, y, z} => R[k] = top
                                            /\ L2[k] = IF L[k] = top THEN y ELSE L[k]
                                            /\ R2[k] = IF R[k] = top THEN y ELSE R[k]
  BY RotatedLinks
<1>5. /\ H \in [N \cup {0} -> Nat] /\ H[0] = 0
      /\ \A w \in N \ {x, y, z} : /\ H[w] = H[L[w]] + (IF C[w] THEN 0 ELSE 1)
                                  /\ H[w] = H[R[w]] + (IF C[w] THEN 0 ELSE 1)
      /\ C2 \in [N -> BOOLEAN]
      /\ \A w \in N \ {x, y, z} : C2[w] = C[w]
      /\ H[L[x]] = H[b] /\ H[b] = H[c] /\ H[c] = H[R[z]]
      /\ C2[x] = C2[z]
      /\ H[top] = H[b] + (IF C2[x] THEN 0 ELSE 1) + (IF C2[y] THEN 0 ELSE 1)
  BY DEF Repaints
<1>6. /\ b \in N \cup {0} /\ c \in N \cup {0} /\ L[x] \in N \cup {0} /\ R[z] \in N \cup {0}
      /\ b \notin {x, y, z} /\ c \notin {x, y, z} /\ L[x] \notin {x, y, z} /\ R[z] \notin {x, y, z}
  BY <1>1
<1>7. low \in Nat /\ H[b] \in Nat
  BY <1>5, <1>6
<1>8. H2 \in [N \cup {0} -> Nat] /\ H2[0] = 0
  BY <1>1, <1>5, <1>7
<1>9. /\ H2[y] = H[top] /\ H2[x] = low /\ H2[z] = low
      /\ \A k \in N \cup {0} : k \notin {x, y, z} => H2[k] = H[k]
  BY <1>1
<1>14. \A k \in N : k \notin {x, y, z} => H2[L2[k]] = H[L[k]] /\ H2[R2[k]] = H[R[k]]
  <2> HIDE DEF H2, low
  <2> SUFFICES ASSUME NEW k \in N, k \notin {x, y, z}
               PROVE  H2[L2[k]] = H[L[k]] /\ H2[R2[k]] = H[R[k]]
    OBVIOUS
  <2> QED
    BY <1>1, <1>9
<1> HIDE DEF H2
<1>16. ASSUME NEW k \in N
       PROVE  /\ H2[k] = H2[L2[k]] + (IF C2[k] THEN 0 ELSE 1)
              /\ H2[k] = H2[R2[k]] + (IF C2[k] THEN 0 ELSE 1)
              /\ L2[k] \in N \cup {0} /\ R2[k] \in N \cup {0}
  <2>1. CASE k = y
    <3>1. H2[L2[k]] = low /\ H2[R2[k]] = low
      BY <2>1, <1>1, <1>9
    <3> QED
      BY <3>1, <2>1, <1>1, <1>5, <1>9
  <2>2. CASE k = x
    <3>1. H2[L2[k]] = H[b] /\ H2[R2[k]] = H[b]
      BY <2>2, <1>1, <1>6, <1>9, <1>5
    <3> QED
      BY <3>1, <2>2, <1>1, <1>6, <1>9, <1>7
  <2>3. CASE k = z
    <3>1. H2[L2[k]] = H[b] /\ H2[R2[k]] = H[b]
      BY <2>3, <1>1, <1>6, <1>9, <1>5
    <3> QED
      BY <3>1, <2>3, <1>1, <1>5, <1>6, <1>9, <1>7
  <2>4. CASE k \notin {x, y, z}
    BY <2>4, <1>1, <1>14, <1>9, <1>5
  <2> QED
    BY <2>1, <2>2, <2>3, <2>4
<1>17. Heights(N, L2, R2, C2, 0, FALSE, H2)
  <2> HIDE DEF low
  <2>2. ASSUME NEW k \in N
        PROVE  /\ H2[k] = H2[L2[k]] + (IF C2[k] THEN 0 ELSE 1) + (IF k = 0 /\ FALSE THEN 1 ELSE 0)
               /\ H2[k] = H2[R2[k]] + (IF C2[k] THEN 0 ELSE 1) + (IF k = 0 /\ ~FALSE THEN 1 ELSE 0)
    <3>1. k # 0 /\ H2[L2[k]] \in Nat /\ H2[R2[k]] \in Nat
      BY <1>16, <1>1, <1>8
    <3> QED
      BY <3>1, <1>16
  <2> QED
    BY <1>8, <2>2 DEF Heights
<1> QED
  BY <1>17

(* The rotation leaves no red node with a red child. *)
Recolours(N, L, R, C, top, x, y, z, b, c, C2) ==
  /\ C \in [N -> BOOLEAN] /\ C2 \in [N -> BOOLEAN]
  /\ \A w \in N : w \notin {x, y, z} =>
       (C[w] => (L[w] = 0 \/ ~C[L[w]]) /\ (R[w] = 0 \/ ~C[R[w]]))
  /\ \A w \in N \ {x, y, z} : C2[w] = C[w]
  /\ C2[x] \/ C2[z] => ~C2[y] /\ \A u \in {b, c, L[x], R[z]} : u = 0 \/ ~C[u]
  /\ C2[y] => C[top]

(* After three nodes were restructured and repainted no red node has a red
   child, if the four subtrees below them may stay under their new parents. *)
LEMMA RotatedColours ==
  ASSUME NEW N, NEW L, NEW R, NEW P, NEW rt, NEW S,
         NEW top, NEW x, NEW y, NEW z, NEW b, NEW c, NEW L2, NEW R2, NEW P2, NEW rt2,
         NEW C, NEW C2,
         IsTree(N, L, R, P, rt, S),
         Rotates(N, L, R, P, rt, top, x, y, z, b, c, L2, R2, P2, rt2),
         Recolours(N, L, R, C, top, x, y, z, b, c, C2)
  PROVE  Painted(N, L2, R2, C2, 0)
<1>1. /\ 0 \notin N /\ x \in N /\ y \in N /\ z \in N /\ top \in {x, z}
      /\ x # y /\ y # z /\ x # z
      /\ \A u \in {b, c, L[x], R[z]} : u \in (N \cup {0}) \ {x, y, z}
      /\ L2[y] = x /\ R2[y] = z /\ L2[x] = L[x] /\ R2[x] = b /\ L2[z] = c /\ R2[z] = R[z]
      /\ \A k \in N : k \notin {x, y, z} => /\ L[k] \in N \cup {0} /\ R[k] \in N \cup {0}
                                            /\ L[k] \in {x, y, z} => L[k] = top
                                            /\ R[k] \in {x, y, z} => R[k] = top
                                            /\ L2[k] = IF L[k] = top THEN y ELSE L[k]
                                            /\ R2[k] = IF R[k] = top THEN y ELSE R[k]
  BY RotatedLinks
<1>2. /\ C \in [N -> BOOLEAN] /\ C2 \in [N -> BOOLEAN]
      /\ \A w \in N : w \notin {x, y, z} =>
           (C[w] => (L[w] = 0 \/ ~C[L[w]]) /\ (R[w] = 0 \/ ~C[R[w]]))
      /\ \A w \in N \ {x, y, z} : C2[w] = C[w]
      /\ C2[x] \/ C2[z] => ~C2[y] /\ \A u \in {b, c, L[x], R[z]} : u = 0 \/ ~C[u]
      /\ C2[y] => C[top]
  BY DEF Recolours
<1> SUFFICES ASSUME NEW k \in N, C2[k]
             PROVE  /\ L2[k] = 0 \/ ~C2[L2[k]]
                    /\ R2[k] = 0 \/ ~C2[R2[k]]
  BY DEF Painted
<1>3. CASE k = y
  BY <1>3, <1>1, <1>2
<1>4. CASE k = x
  BY <1>4, <1>1, <1>2
<1>5. CASE k = z
  BY <1>5, <1>1, <1>2
<1>6. CASE k \notin {x, y, z}
  <2>0. k \in N \ {x, y, z} /\ C2[k] = C[k]
    BY <1>6, <1>2
  <2>1. C[k] /\ (L[k] = 0 \/ ~C[L[k]]) /\ (R[k] = 0 \/ ~C[R[k]])
    <3>1. C[k]
      BY <2>0
    <3>2. C[k] => (L[k] = 0 \/ ~C[L[k]]) /\ (R[k] = 0 \/ ~C[R[k]])
      BY <2>0, <1>2
    <3> QED
      BY <3>1, <3>2
  <2>2. CASE L[k] = top
    BY <2>2, <2>1, <1>6, <1>1, <1>2
  <2>3. CASE R[k] = top
    BY <2>3, <2>1, <1>6, <1>1, <1>2
  <2>4. CASE L[k] # top /\ R[k] # top
    BY <2>4, <2>1, <1>6, <1>1, <1>2
  <2> QED
    BY <2>2, <2>3, <2>4
<1> QED
  BY <1>3, <1>4, <1>5, <1>6

(* Where no black node is missing. *)
Level(N, L, R, C, H) ==
  /\ H \in [N \cup {0} -> Nat] /\ H[0] = 0
  /\ \A x \in N : /\ H[x] = H[L[x]] + (IF C[x] THEN 0 ELSE 1)
                  /\ H[x] = H[R[x]] + (IF C[x] THEN 0 ELSE 1)

(* The children of a node are nodes or null. *)
Links(N, L, R) ==
  0 \notin N /\ \A x \in N : L[x] \in N \cup {0} /\ R[x] \in N \cup {0}

(* Heights of a tree that no repair is under way in, child by child... *)
LEMMA PlainHeights ==
  ASSUME NEW N, NEW L, NEW R, NEW C, NEW H, Links(N, L, R),
         Heights(N, L, R, C, 0, FALSE, H)
  PROVE  Level(N, L, R, C, H)
<1>1. H \in [N \cup {0} -> Nat] /\ H[0] = 0
  BY DEF Heights
<1>2. ASSUME NEW x \in N
      PROVE  /\ H[x] = H[L[x]] + (IF C[x] THEN 0 ELSE 1)
             /\ H[x] = H[R[x]] + (IF C[x] THEN 0 ELSE 1)
  <2>1. /\ H[x] = H[L[x]] + (IF C[x] THEN 0 ELSE 1) + (IF x = 0 /\ FALSE THEN 1 ELSE 0)
        /\ H[x] = H[R[x]] + (IF C[x] THEN 0 ELSE 1) + (IF x = 0 /\ ~FALSE THEN 1 ELSE 0)
    BY DEF Heights
  <2>2. x # 0 /\ H[L[x]] \in Nat /\ H[R[x]] \in Nat
    BY <1>1 DEF Links
  <2> QED
    BY <2>1, <2>2
<1> QED
  BY <1>1, <1>2 DEF Level

(* ... and back. *)
LEMMA HeightsPlain ==
  ASSUME NEW N, NEW L, NEW R, NEW C, NEW H, Links(N, L, R), Level(N, L, R, C, H)
  PROVE  Heights(N, L, R, C, 0, FALSE, H)
<1>1. ASSUME NEW x \in N
      PROVE  /\ H[x] = H[L[x]] + (IF C[x] THEN 0 ELSE 1) + (IF x = 0 /\ FALSE THEN 1 ELSE 0)
             /\ H[x] = H[R[x]] + (IF C[x] THEN 0 ELSE 1) + (IF x = 0 /\ ~FALSE THEN 1 ELSE 0)
  <2>1. x # 0 /\ H[L[x]] \in Nat /\ H[R[x]] \in Nat
    BY DEF Level, Links
  <2>2. /\ H[x] = H[L[x]] + (IF C[x] THEN 0 ELSE 1)
        /\ H[x] = H[R[x]] + (IF C[x] THEN 0 ELSE 1)
    BY DEF Level
  <2> QED
    BY <2>1, <2>2
<1> QED
  BY <1>1 DEF Heights, Level

-----------------------------------------------------------------------------
(* Rings: the links F, and B back, go round s. *)
IsRing(s, F, B) ==
  /\ Len(s) >= 1 /\ Distinct(s)
  /\ \A i \in 1 .. Len(s) : /\ F[s[i]] = s[IF i = Len(s) THEN 1 ELSE i + 1]
                            /\ B[s[i]] = s[IF i = 1 THEN Len(s) ELSE i - 1]

(* An element that is its own neighbour, *)
LEMMA RingAlone ==
  ASSUME NEW e, NEW F, NEW B, F[e] = e, B[e] = e
  PROVE  IsRing(<<e>>, F, B)
BY DEF IsRing, Distinct

(* and a ring whose links stay. *)
LEMMA RingKept ==
  ASSUME NEW s, NEW F, NEW B, NEW F2, NEW B2, IsRing(s, F, B),
         \A i \in 1 .. Len(s) : F2[s[i]] = F[s[i]] /\ B2[s[i]] = B[s[i]]
  PROVE  IsRing(s, F2, B2)
BY DEF IsRing

(* A recursive function that collects the elements on the way round returns the
   ring. *)
LEMMA RingCollected ==
  ASSUME NEW L, NEW z, z \notin L, NEW F, NEW B, NEW s \in Seq(L), IsRing(s, F, B),
         \A x \in L : Has(s, x)
  PROVE  (CHOOSE f : f = [x \in L |-> IF F[x] = s[1] THEN <<x>> ELSE <<x>> \o f[F[x]]])[s[1]] = s
<1> DEFINE Rhs(f) == [x \in L |-> IF F[x] = s[1] THEN <<x>> ELSE <<x>> \o f[F[x]]]
           c == CHOOSE f : f = Rhs(f)
           nxt == [x \in L |-> IF F[x] = s[1] THEN z ELSE F[x]]
           E == L \cup {z}
<1>1. /\ Len(s) \in Nat /\ Len(s) >= 1 /\ Distinct(s)
      /\ \A i \in 1 .. Len(s) : s[i] \in L
      /\ \A i \in 1 .. Len(s) : F[s[i]] = s[IF i = Len(s) THEN 1 ELSE i + 1]
  BY DEF IsRing
<1>2. \A i \in 1 .. Len(s) : F[s[i]] = s[1] <=> i = Len(s)
  <2> TAKE i \in 1 .. Len(s)
  <2>1. CASE i = Len(s)
    BY <2>1, <1>1
  <2>2. CASE i # Len(s)
    <3>1. i + 1 \in 1 .. Len(s) /\ i + 1 # 1 /\ F[s[i]] = s[i + 1] /\ 1 \in 1 .. Len(s)
      BY <2>2, <1>1
    <3> QED
      BY <3>1, <2>2, <1>1 DEF Distinct
  <2> QED
    BY <2>1, <2>2
<1>3. \A x \in L : nxt[x] \in E /\ nxt[x] = IF F[x] = s[1] THEN z ELSE F[x]
  <2> TAKE x \in L
  <2>1. PICK i \in 1 .. Len(s) : s[i] = x
    BY DEF Has
  <2>2. F[x] \in L
    BY <2>1, <1>1
  <2> QED
    BY <2>2
<1>4. IsPath(s, nxt, L)
  <2>1. \A i \in 1 .. Len(s) - 1 : nxt[s[i]] = s[i + 1]
    <3> TAKE i \in 1 .. Len(s) - 1
    <3>1. i \in 1 .. Len(s) /\ i # Len(s)
      BY <1>1
    <3>2. F[s[i]] = s[i + 1] /\ F[s[i]] # s[1] /\ s[i] \in L
      BY <3>1, <1>1, <1>2
    <3> HIDE DEF nxt
    <3> QED
      BY <3>2, <1>3
  <2>2. nxt[s[Len(s)]] \notin L
    <3>1. Len(s) \in 1 .. Len(s)
      BY <1>1
    <3>2. F[s[Len(s)]] = s[1] /\ s[Len(s)] \in L
      BY <3>1, <1>1, <1>2
    <3> HIDE DEF nxt
    <3> QED
      BY <3>2, <1>3
  <2> QED
    BY <2>1, <2>2, <1>1 DEF IsPath
<1> HIDE DEF nxt
<1>5. \A x \in L : \E p : IsPath(p, nxt, L) /\ p[1] = x
  <2> TAKE x \in L
  <2>1. PICK i \in 1 .. Len(s) : s[i] = x
    BY DEF Has
  <2>2. IsPath(SubSeq(s, i, Len(s)), nxt, L) /\ SubSeq(s, i, Len(s))[1] = x
    BY ONLY <2>1, <1>4, PathSuffix
  <2> QED
    BY <2>2
<1>6. PICK g : Collects(g, nxt, L, E)
  BY <1>3, <1>5, PathFunction
<1>7. \A x \in L : <<x>> \o << >> = <<x>>
  OBVIOUS
<1>8. \A x \in E : g[x] = IF x \in L THEN <<x>> \o g[nxt[x]] ELSE << >>
  BY <1>6 DEF Collects
<1> DEFINE w == [x \in L |-> g[x]]
<1>9. w = Rhs(w)
  <2>1. \A x \in L : g[x] = IF F[x] = s[1] THEN <<x>> ELSE <<x>> \o w[F[x]]
    <3> TAKE x \in L
    <3>1. CASE F[x] = s[1]
      <4>1. g[x] = <<x>> \o g[z] /\ g[z] = << >>
        BY <3>1, <1>3, <1>8
      <4> QED
        BY <4>1, <3>1, <1>7
    <3>2. CASE F[x] # s[1]
      <4>1. nxt[x] = F[x] /\ F[x] \in L
        <5>1. PICK i \in 1 .. Len(s) : s[i] = x
          BY DEF Has
        <5>2. F[x] \in L
          BY <5>1, <1>1
        <5> QED
          BY <5>2, <3>2, <1>3
      <4> QED
        BY <4>1, <3>2, <1>8
    <3> QED
      BY <3>1, <3>2
  <2> QED
    BY <2>1
<1>10. c = Rhs(c)
  <2> HIDE DEF w, Rhs
  <2> QED
    BY <1>9
<1>11. \A x \in L : c[x] = IF F[x] = s[1] THEN <<x>> ELSE <<x>> \o c[F[x]]
  <2> HIDE DEF c
  <2> QED
    BY <1>10
<1> HIDE DEF c
<1> DEFINE h == [x \in E |-> IF x \in L THEN c[x] ELSE << >>]
<1>12. Collects(h, nxt, L, E)
  <2>1. \A x \in E : h[x] = IF x \in L THEN <<x>> \o h[nxt[x]] ELSE << >>
    <3> TAKE x \in E
    <3>1. CASE x \in L /\ F[x] = s[1]
      <4>1. h[nxt[x]] = << >> /\ h[x] = <<x>>
        BY <3>1, <1>3, <1>11
      <4> HIDE DEF h
      <4> QED
        BY <4>1, <3>1, <1>7
    <3>2. CASE x \in L /\ F[x] # s[1]
      <4>1. nxt[x] = F[x] /\ F[x] \in L
        <5>1. PICK i \in 1 .. Len(s) : s[i] = x
          BY <3>2 DEF Has
        <5>2. F[x] \in L
          BY <5>1, <1>1
        <5> QED
          BY <5>2, <3>2, <1>3
      <4>2. h[x] = <<x>> \o c[F[x]] /\ h[nxt[x]] = c[F[x]]
        BY <3>2, <4>1, <1>11
      <4> HIDE DEF h
      <4> QED
        BY <4>2, <3>2
    <3>3. CASE x \notin L
      BY <3>3
    <3> QED
      BY <3>1, <3>2, <3>3
  <2>2. h = [x \in E |-> h[x]]
    OBVIOUS
  <2> HIDE DEF h
  <2> QED
    BY <2>1, <2>2 DEF Collects
<1>13. h[s[1]] = s
  <2> HIDE DEF h
  <2> QED
    BY <1>3, <1>4, <1>12, PathFunctionValue
<1>14. h[s[1]] = c[s[1]]
  BY <1>1
<1> QED
  BY <1>13, <1>14 DEF c

(* s with e in the j-th place. *)
Inserted(s, j, e) ==
  [i \in 1 .. Len(s) + 1 |-> IF i < j THEN s[i] ELSE IF i = j THEN e ELSE s[i - 1]]

(* It is a sequence, one longer, *)
LEMMA InsertedSeq ==
  ASSUME NEW L, NEW s \in Seq(L), NEW e \in L
  PROVE  \A j \in 1 .. Len(s) + 1 :
           /\ Inserted(s, j, e) \in Seq(L) /\ Len(Inserted(s, j, e)) = Len(s) + 1
           /\ \A i \in 1 .. Len(s) + 1 :
                Inserted(s, j, e)[i] = IF i < j THEN s[i] ELSE IF i = j THEN e ELSE s[i - 1]
<1> SUFFICES ASSUME NEW j \in 1 .. Len(s) + 1
             PROVE  /\ Inserted(s, j, e) \in Seq(L) /\ Len(Inserted(s, j, e)) = Len(s) + 1
                    /\ \A i \in 1 .. Len(s) + 1 :
                         Inserted(s, j, e)[i] = IF i < j THEN s[i] ELSE IF i = j THEN e ELSE s[i - 1]
  OBVIOUS
<1>1. Len(s) \in Nat /\ Len(s) + 1 \in Nat /\ \A i \in 1 .. Len(s) : s[i] \in L
  OBVIOUS
<1>2. Inserted(s, j, e) \in [1 .. Len(s) + 1 -> L]
  <2>1. ASSUME NEW i \in 1 .. Len(s) + 1
        PROVE  (IF i < j THEN s[i] ELSE IF i = j THEN e ELSE s[i - 1]) \in L
    <3>1. /\ i < j => i \in 1 .. Len(s)
          /\ ~(i < j) /\ i # j => i - 1 \in 1 .. Len(s)
      BY <1>1
    <3> QED
      BY <3>1, <1>1
  <2> QED
    BY <2>1 DEF Inserted
<1> QED
  BY <1>1, <1>2 DEF Inserted

(* and what is spliced together from the two parts and the element. *)
LEMMA InsertedIs ==
  ASSUME NEW L, NEW s \in Seq(L), NEW e \in L, NEW j \in 1 .. Len(s) + 1
  PROVE  SubSeq(s, 1, j - 1) \o <<e>> \o SubSeq(s, j, Len(s)) = Inserted(s, j, e)
<1> DEFINE a == SubSeq(s, 1, j - 1)
           b == SubSeq(s, j, Len(s))
           t == a \o <<e>> \o b
<1>1. Len(s) \in Nat /\ j \in Nat /\ 1 <= j /\ j <= Len(s) + 1
  OBVIOUS
<1>2. /\ a \in Seq(L) /\ Len(a) = j - 1 /\ \A i \in 1 .. j - 1 : a[i] = s[i]
      /\ b \in Seq(L) /\ Len(b) = Len(s) - j + 1
      /\ \A i \in 1 .. Len(s) - j + 1 : b[i] = s[j + i - 1]
  BY <1>1
<1> HIDE DEF a, b
<1>3. t \in Seq(L) /\ Len(t) = Len(s) + 1
  BY <1>1, <1>2
<1>4. ASSUME NEW i \in 1 .. Len(s) + 1
      PROVE  t[i] = IF i < j THEN s[i] ELSE IF i = j THEN e ELSE s[i - 1]
  <2>0. i < j \/ i = j \/ i > j
    BY <1>1
  <2>1. CASE i < j
    BY <2>1, <1>1, <1>2
  <2>2. CASE i = j
    BY <2>2, <1>1, <1>2
  <2>3. CASE i > j
    <3>1. t[i] = b[i - j]
      BY <2>3, <1>1, <1>2
    <3>2. i - j \in 1 .. Len(s) - j + 1 /\ j + (i - j) - 1 = i - 1
      BY <2>3, <1>1
    <3> QED
      BY <3>1, <3>2, <2>3, <1>1, <1>2
  <2>4. i > j => ~(i < j) /\ i # j
    BY <1>1
  <2> HIDE DEF t
  <2> QED
    BY <2>0, <2>1, <2>2, <2>3, <2>4
<1>5. t = [i \in 1 .. Len(s) + 1 |-> t[i]]
  BY <1>3
<1> HIDE DEF t
<1>6. t = Inserted(s, j, e)
  BY <1>4, <1>5 DEF Inserted
<1> QED
  BY <1>6 DEF t, a, b

(* A new element between two neighbours. *)
LEMMA RingInserted ==
  ASSUME NEW L, NEW s \in Seq(L), NEW e \in L, ~Has(s, e), NEW j \in 1 .. Len(s) + 1,
         NEW F, NEW B, IsRing(s, F, B), NEW before, NEW after,
         before = s[IF j = 1 THEN Len(s) ELSE j - 1],
         after = s[IF j = Len(s) + 1 THEN 1 ELSE j],
         NEW F2, F2[e] = after,
         \A i \in 1 .. Len(s) : F2[s[i]] = IF s[i] = before THEN e ELSE F[s[i]],
         NEW B2, B2[e] = before,
         \A i \in 1 .. Len(s) : B2[s[i]] = IF s[i] = after THEN e ELSE B[s[i]]
  PROVE  IsRing(Inserted(s, j, e), F2, B2)
<1> DEFINE t == Inserted(s, j, e)
           m == Len(s)
<1>1. /\ m \in Nat /\ m >= 1 /\ j \in Nat /\ 1 <= j /\ j <= m + 1
      /\ \A i, k \in 1 .. m : s[i] = s[k] => i = k
      /\ \A i \in 1 .. m : s[i] # e
      /\ \A i \in 1 .. m : F[s[i]] = s[IF i = m THEN 1 ELSE i + 1] /\ B[s[i]] = s[IF i = 1 THEN m ELSE i - 1]
  BY DEF IsRing, Distinct, Has
<1>2. /\ t \in Seq(L) /\ Len(t) = m + 1
      /\ \A i \in 1 .. m + 1 : t[i] = IF i < j THEN s[i] ELSE IF i = j THEN e ELSE s[i - 1]
  <2>1. \A y \in 1 .. Len(s) + 1 :
          /\ Inserted(s, y, e) \in Seq(L) /\ Len(Inserted(s, y, e)) = Len(s) + 1
          /\ \A i \in 1 .. Len(s) + 1 :
               Inserted(s, y, e)[i] = IF i < y THEN s[i] ELSE IF i = y THEN e ELSE s[i - 1]
    BY ONLY s \in Seq(L), e \in L, InsertedSeq
  <2> QED
    BY <2>1
<1> HIDE DEF t
<1>3. Distinct(t)
  <2> SUFFICES ASSUME NEW i \in 1 .. m + 1, NEW k \in 1 .. m + 1, t[i] = t[k]
               PROVE  i = k
    BY <1>2 DEF Distinct
  <2>1. /\ i < j => i \in 1 .. m /\ t[i] = s[i]
        /\ i > j => i - 1 \in 1 .. m /\ t[i] = s[i - 1]
        /\ i = j => t[i] = e
        /\ k < j => k \in 1 .. m /\ t[k] = s[k]
        /\ k > j => k - 1 \in 1 .. m /\ t[k] = s[k - 1]
        /\ k = j => t[k] = e
    BY <1>1, <1>2
  <2> QED
    BY <2>1, <1>1
<1>4. \A i \in 1 .. m : /\ s[i] = before <=> i = IF j = 1 THEN m ELSE j - 1
                        /\ s[i] = after <=> i = IF j = m + 1 THEN 1 ELSE j
  <2>1. (IF j = 1 THEN m ELSE j - 1) \in 1 .. m /\ (IF j = m + 1 THEN 1 ELSE j) \in 1 .. m
    BY <1>1
  <2> QED
    BY <2>1, <1>1
<1>5. ASSUME NEW i \in 1 .. m + 1
      PROVE  F2[t[i]] = t[IF i = m + 1 THEN 1 ELSE i + 1]
  <2>1. CASE i < j
    <3>1. i \in 1 .. m /\ t[i] = s[i] /\ i # m + 1 /\ i + 1 \in 1 .. m + 1
      BY <2>1, <1>1, <1>2
    <3>2. CASE i = j - 1
      <4>1. F2[s[i]] = e
        BY <3>1, <3>2, <1>1, <1>4
      <4> QED
        BY <4>1, <3>1, <3>2, <1>1, <1>2
    <3>3. CASE i # j - 1
      <4>1. F2[s[i]] = F[s[i]] /\ i # m
        BY <3>1, <3>3, <2>1, <1>1, <1>4
      <4>2. t[i + 1] = s[i + 1]
        BY <3>1, <3>3, <2>1, <1>1, <1>2
      <4> QED
        BY <4>1, <4>2, <3>1, <1>1
    <3> QED
      BY <3>2, <3>3
  <2>2. CASE i = j
    <3>1. t[i] = e
      BY <2>2, <1>2
    <3>2. CASE j = m + 1
      <4>1. 1 \in 1 .. m + 1 /\ 1 < j
        BY <3>2, <1>1
      <4>2. t[1] = s[1]
        BY <4>1, <1>2
      <4> QED
        BY <4>2, <3>1, <3>2, <2>2
    <3>3. CASE j # m + 1
      <4>1. i + 1 \in 1 .. m + 1 /\ ~(i + 1 < j) /\ i + 1 # j /\ (i + 1) - 1 = j
        BY <3>3, <2>2, <1>1
      <4>2. t[i + 1] = s[j]
        BY <4>1, <1>2
      <4> QED
        BY <4>2, <3>1, <3>3, <2>2
    <3> QED
      BY <3>2, <3>3
  <2>3. CASE i > j
    <3>1. i - 1 \in 1 .. m /\ t[i] = s[i - 1]
      BY <2>3, <1>1, <1>2
    <3>2. CASE j = 1 /\ i - 1 = m
      <4>1. F2[s[i - 1]] = e
        BY <3>1, <3>2, <1>4
      <4>2. t[1] = e
        BY <3>2, <1>1, <1>2
      <4> QED
        BY <4>1, <4>2, <3>1, <3>2, <1>1
    <3>3. CASE j # 1 /\ i - 1 = m
      <4>1. F2[s[i - 1]] = F[s[i - 1]] /\ i = m + 1
        BY <3>1, <3>3, <2>3, <1>1, <1>4
      <4>2. t[1] = s[1]
        BY <3>3, <1>1, <1>2
      <4> QED
        BY <4>1, <4>2, <3>1, <3>3, <1>1
    <3>4. CASE i - 1 # m
      <4>1. F2[s[i - 1]] = F[s[i - 1]] /\ i # m + 1
        BY <3>1, <3>4, <2>3, <1>1, <1>4
      <4>2. i + 1 \in 1 .. m + 1 /\ ~(i + 1 < j) /\ i + 1 # j /\ (i + 1) - 1 = (i - 1) + 1
        BY <3>1, <3>4, <2>3, <1>1
      <4>3. t[i + 1] = s[(i - 1) + 1]
        BY <4>2, <1>2
      <4> QED
        BY <4>1, <4>3, <3>1, <3>4, <1>1
    <3> QED
      BY <3>2, <3>3, <3>4
  <2> QED
    BY <2>1, <2>2, <2>3, <1>1
<1>6. ASSUME NEW i \in 1 .. m + 1
      PROVE  B2[t[i]] = t[IF i = 1 THEN m + 1 ELSE i - 1]
  <2>1. CASE i < j
    <3>1. i \in 1 .. m /\ t[i] = s[i]
      BY <2>1, <1>1, <1>2
    <3>2. CASE i = 1 /\ j = m + 1
      <4>1. B2[s[i]] = e
        BY <3>1, <3>2, <1>4
      <4>2. t[m + 1] = e
        BY <3>2, <1>1, <1>2
      <4> QED
        BY <4>1, <4>2, <3>1, <3>2
    <3>3. CASE i = 1 /\ j # m + 1
      <4>1. B2[s[i]] = B[s[i]]
        BY <3>1, <3>3, <2>1, <1>1, <1>4
      <4>2. m + 1 \in 1 .. m + 1 /\ ~(m + 1 < j) /\ m + 1 # j /\ (m + 1) - 1 = m
        BY <3>3, <1>1
      <4>3. t[m + 1] = s[m]
        BY <4>2, <1>2
      <4> QED
        BY <4>1, <4>3, <3>1, <3>3, <1>1
    <3>4. CASE i # 1
      <4>1. B2[s[i]] = B[s[i]]
        BY <3>1, <3>4, <2>1, <1>1, <1>4
      <4>2. t[i - 1] = s[i - 1]
        BY <3>1, <3>4, <2>1, <1>1, <1>2
      <4> QED
        BY <4>1, <4>2, <3>1, <3>4, <1>1
    <3> QED
      BY <3>2, <3>3, <3>4
  <2>2. CASE i = j
    <3>1. t[i] = e
      BY <2>2, <1>2
    <3>2. CASE j = 1
      <4>1. m + 1 \in 1 .. m + 1 /\ ~(m + 1 < j) /\ m + 1 # j /\ (m + 1) - 1 = m
        BY <3>2, <1>1
      <4>2. t[m + 1] = s[m]
        BY <4>1, <1>2
      <4> QED
        BY <4>2, <3>1, <3>2, <2>2
    <3>3. CASE j # 1
      <4>1. t[i - 1] = s[j - 1]
        BY <3>3, <2>2, <1>1, <1>2
      <4> QED
        BY <4>1, <3>1, <3>3, <2>2
    <3> QED
      BY <3>2, <3>3
  <2>3. CASE i > j
    <3>1. i - 1 \in 1 .. m /\ t[i] = s[i - 1] /\ i # 1
      BY <2>3, <1>1, <1>2
    <3>2. CASE i - 1 = j
      <4>1. B2[s[i - 1]] = e
        BY <3>1, <3>2, <1>1, <1>4
      <4> QED
        BY <4>1, <3>1, <3>2, <1>1, <1>2
    <3>3. CASE i - 1 # j
      <4>1. B2[s[i - 1]] = B[s[i - 1]] /\ i - 1 # 1
        BY <3>1, <3>3, <2>3, <1>1, <1>4
      <4>2. i - 1 \in 1 .. m + 1 /\ ~(i - 1 < j) /\ i - 1 # j
        BY <3>1, <3>3, <2>3, <1>1
      <4>3. t[i - 1] = s[(i - 1) - 1]
        BY <4>2, <1>2
      <4> QED
        BY <4>1, <4>3, <3>1, <1>1
    <3> QED
      BY <3>2, <3>3
  <2> QED
    BY <2>1, <2>2, <2>3, <1>1
<1>7. IsRing(t, F2, B2)
  BY <1>1, <1>2, <1>3, <1>5, <1>6 DEF IsRing
<1> QED
  BY <1>7 DEF t

(* An element leaves a ring that has others. *)
LEMMA RingWithout ==
  ASSUME NEW L, NEW s \in Seq(L), Len(s) >= 2, NEW j \in 1 .. Len(s),
         NEW F, NEW B, IsRing(s, F, B), NEW F2, NEW B2,
         \A i \in 1 .. Len(s) : i # j =>
           /\ F2[s[i]] = IF s[i] = B[s[j]] THEN F[s[j]] ELSE F[s[i]]
           /\ B2[s[i]] = IF s[i] = F[s[j]] THEN B[s[j]] ELSE B[s[i]]
  PROVE  IsRing(Without(s, j), F2, B2)
<1> DEFINE t == Without(s, j)
           m == Len(s)
           b == IF j = 1 THEN m ELSE j - 1
           a == IF j = m THEN 1 ELSE j + 1
<1>1. /\ m \in Nat /\ m >= 2 /\ j \in Nat /\ 1 <= j /\ j <= m
      /\ \A i, k \in 1 .. m : s[i] = s[k] => i = k
      /\ \A i \in 1 .. m : F[s[i]] = s[IF i = m THEN 1 ELSE i + 1] /\ B[s[i]] = s[IF i = 1 THEN m ELSE i - 1]
  BY DEF IsRing, Distinct
<1>2. /\ t \in Seq(L) /\ Len(t) = m - 1
      /\ \A i \in 1 .. m - 1 : t[i] = IF i < j THEN s[i] ELSE s[i + 1]
  BY WithoutSeq
<1> HIDE DEF t
<1>3. a \in 1 .. m /\ b \in 1 .. m /\ a # j /\ b # j /\ F[s[j]] = s[a] /\ B[s[j]] = s[b]
  BY <1>1
<1>4. \A i \in 1 .. m : i # j =>
        /\ F2[s[i]] = IF i = b THEN s[a] ELSE s[IF i = m THEN 1 ELSE i + 1]
        /\ B2[s[i]] = IF i = a THEN s[b] ELSE s[IF i = 1 THEN m ELSE i - 1]
  <2> HIDE DEF a, b
  <2> QED
    BY <1>1, <1>3
<1>5. Distinct(t)
  <2> SUFFICES ASSUME NEW i \in 1 .. m - 1, NEW k \in 1 .. m - 1, t[i] = t[k]
               PROVE  i = k
    BY <1>2 DEF Distinct
  <2>1. /\ i \in 1 .. m /\ i + 1 \in 1 .. m /\ k \in 1 .. m /\ k + 1 \in 1 .. m
        /\ t[i] = IF i < j THEN s[i] ELSE s[i + 1]
        /\ t[k] = IF k < j THEN s[k] ELSE s[k + 1]
    <3>1. /\ i \in 1 .. m /\ i + 1 \in 1 .. m /\ k \in 1 .. m /\ k + 1 \in 1 .. m
      <4> HIDE DEF m
      <4> QED
        BY <1>1
    <3>2. /\ t[i] = IF i < j THEN s[i] ELSE s[i + 1]
          /\ t[k] = IF k < j THEN s[k] ELSE s[k + 1]
      BY <1>2
    <3> QED
      BY <3>1, <3>2
  <2> DEFINE qi == IF i < j THEN i ELSE i + 1
             qk == IF k < j THEN k ELSE k + 1
  <2>2. qi \in 1 .. m /\ qk \in 1 .. m /\ s[qi] = s[qk]
    BY <2>1
  <2>3. qi = qk
    <3> HIDE DEF qi, qk
    <3> QED
      BY <2>2, <1>1
  <2> QED
    BY <2>3, <1>1
<1>6. ASSUME NEW i \in 1 .. m - 1
      PROVE  F2[t[i]] = t[IF i = m - 1 THEN 1 ELSE i + 1]
  <2> DEFINE q == IF i < j THEN i ELSE i + 1
  <2>1. q \in 1 .. m /\ q # j /\ t[i] = s[q]
    BY <1>1, <1>2
  <2>2. CASE q = b
    <3>1. F2[t[i]] = s[a]
      BY <2>1, <2>2, <1>4
    <3>2. CASE i = m - 1
      <4>1. a = IF 1 < j THEN 1 ELSE 2
        BY <2>2, <3>2, <1>1
      <4>2. t[1] = s[a]
        BY <4>1, <1>1, <1>2
      <4> QED
        BY <4>2, <3>1, <3>2
    <3>3. CASE i # m - 1
      <4>1. i + 1 \in 1 .. m - 1 /\ a = IF i + 1 < j THEN i + 1 ELSE i + 2
        BY <2>2, <3>3, <1>1
      <4>2. t[i + 1] = s[a]
        BY <4>1, <1>1, <1>2
      <4> QED
        BY <4>2, <3>1, <3>3
    <3> QED
      BY <3>2, <3>3
  <2>3. CASE q # b
    <3>1. F2[t[i]] = s[IF q = m THEN 1 ELSE q + 1]
      BY <2>1, <2>3, <1>4
    <3>2. CASE i = m - 1
      <4>1. (IF q = m THEN 1 ELSE q + 1) = IF 1 < j THEN 1 ELSE 2
        BY <2>3, <3>2, <1>1
      <4>2. t[1] = s[IF 1 < j THEN 1 ELSE 2]
        BY <1>1, <1>2
      <4> QED
        BY <4>1, <4>2, <3>1, <3>2
    <3>3. CASE i # m - 1
      <4>1. i + 1 \in 1 .. m - 1 /\ (IF q = m THEN 1 ELSE q + 1) = IF i + 1 < j THEN i + 1 ELSE i + 2
        BY <2>3, <3>3, <1>1
      <4>2. t[i + 1] = s[IF i + 1 < j THEN i + 1 ELSE i + 2]
        BY <4>1, <1>1, <1>2
      <4> QED
        BY <4>1, <4>2, <3>1, <3>3
    <3> QED
      BY <3>2, <3>3
  <2> QED
    BY <2>2, <2>3
<1>7. ASSUME NEW i \in 1 .. m - 1
      PROVE  B2[t[i]] = t[IF i = 1 THEN m - 1 ELSE i - 1]
  <2> DEFINE q == IF i < j THEN i ELSE i + 1
             u == IF i = 1 THEN m - 1 ELSE i - 1
  <2>1. q \in 1 .. m /\ q # j /\ t[i] = s[q]
    BY <1>1, <1>2
  <2>2. u \in 1 .. m - 1 /\ t[u] = s[IF u < j THEN u ELSE u + 1]
    BY <1>1, <1>2
  <2>3. CASE q = a
    <3>1. B2[t[i]] = s[b]
      BY <2>1, <2>3, <1>4
    <3>2. b = IF u < j THEN u ELSE u + 1
      BY <2>3, <1>1
    <3> QED
      BY <3>1, <3>2, <2>2
  <2>4. CASE q # a
    <3>1. B2[t[i]] = s[IF q = 1 THEN m ELSE q - 1]
      BY <2>1, <2>4, <1>4
    <3>2. (IF q = 1 THEN m ELSE q - 1) = IF u < j THEN u ELSE u + 1
      BY <2>4, <1>1
    <3> QED
      BY <3>1, <3>2, <2>2
  <2> QED
    BY <2>3, <2>4
<1>8. IsRing(t, F2, B2)
  BY <1>1, <1>2, <1>5, <1>6, <1>7 DEF IsRing
<1> QED
  BY <1>8 DEF t

-----------------------------------------------------------------------------
(* s has just the members of A, each after those that W puts before it. *)
Ordered(s, A, W) ==
  /\ s \in Seq(A)
  /\ \A y \in A : Has(s, y)
  /\ \A i \in 1 .. Len(s) : \A j \in 1 .. Len(s) : i < j => <<s[i], s[j]>> \in W

OneWay(A, W) == \A x \in A : \A y \in A : <<x, y>> \in W => <<y, x>> \notin W

(* So no member comes twice, *)
LEMMA OrderedDistinct ==
  ASSUME NEW A, NEW W, OneWay(A, W), NEW s, Ordered(s, A, W)
  PROVE  Distinct(s)
<1> SUFFICES ASSUME NEW i \in 1 .. Len(s), NEW j \in 1 .. Len(s), s[i] = s[j], i # j
             PROVE  FALSE
  BY DEF Distinct
<1>1. s \in Seq(A) /\ Len(s) \in Nat /\ s[i] \in A
  BY DEF Ordered
<1>2. i < j \/ j < i
  BY <1>1
<1>3. <<s[i], s[j]>> \in W \/ <<s[j], s[i]>> \in W
  BY <1>2 DEF Ordered
<1> QED
  BY <1>1, <1>3 DEF OneWay

(* There is one such sequence only. *)
LEMMA OrderedWithin ==
  ASSUME NEW A, NEW W, OneWay(A, W), NEW s, Ordered(s, A, W), NEW t, Ordered(t, A, W)
  PROVE  \A i \in 1 .. Len(s) : i \in 1 .. Len(t) /\ s[i] = t[i]
<1> DEFINE S == {u \in Nat : \A i \in 1 .. Len(s) : i <= u => i \in 1 .. Len(t) /\ s[i] = t[i]}
<1>1. /\ s \in Seq(A) /\ t \in Seq(A) /\ Len(s) \in Nat /\ Len(t) \in Nat
      /\ Distinct(s) /\ Distinct(t)
  BY OrderedDistinct DEF Ordered
<1>2. 0 \in S
  OBVIOUS
<1>3. ASSUME NEW u \in Nat, u \in S PROVE u + 1 \in S
  <2> SUFFICES ASSUME u + 1 \in 1 .. Len(s)
               PROVE  u + 1 \in 1 .. Len(t) /\ s[u + 1] = t[u + 1]
    <3>1. \A i \in 1 .. Len(s) : i <= u + 1 => i <= u \/ i = u + 1
      BY <1>1
    <3> QED
      BY <3>1, <1>3
  <2>1. \A i \in 1 .. u : i \in 1 .. Len(s) /\ i \in 1 .. Len(t) /\ s[i] = t[i]
    BY <1>1, <1>3
  <2> DEFINE k == u + 1
  <2>2. k \in Nat /\ k >= 1 /\ k \in 1 .. Len(s) /\ \A i \in Nat : i < k /\ i >= 1 => i \in 1 .. u
    OBVIOUS
  <2> HIDE DEF k, S
  <2>3. PICK j \in 1 .. Len(t) : t[j] = s[k]
    <3>1. s[k] \in A
      BY <1>1, <2>2
    <3>2. Has(t, s[k])
      BY <3>1 DEF Ordered
    <3> QED
      BY <3>2 DEF Has
  <2>4. ~(j < k)
    <3> SUFFICES ASSUME j < k PROVE FALSE
      OBVIOUS
    <3>1. j \in 1 .. Len(s) /\ s[j] = t[j]
      BY <2>1, <2>2, <2>3, <1>1
    <3> QED
      BY <3>1, <2>2, <2>3, <1>1 DEF Distinct
  <2>5. k \in 1 .. Len(t)
    BY <2>2, <2>3, <2>4, <1>1
  <2>6. PICK i \in 1 .. Len(s) : s[i] = t[k]
    <3>1. t[k] \in A
      BY <1>1, <2>5
    <3>2. Has(s, t[k])
      BY <3>1 DEF Ordered
    <3> QED
      BY <3>2 DEF Has
  <2>7. ~(i < k)
    <3> SUFFICES ASSUME i < k PROVE FALSE
      OBVIOUS
    <3>1. i \in 1 .. Len(t) /\ s[i] = t[i]
      BY <2>1, <2>2, <2>6, <1>1
    <3> QED
      <4>1. t[i] = t[k] /\ i \in 1 .. Len(t) /\ k \in 1 .. Len(t)
        BY <3>1, <2>5, <2>6
      <4>2. i = k
        BY <4>1, <1>1 DEF Distinct
      <4> QED
        BY <4>2, <2>2
  <2>8. CASE j = k
    BY <2>3, <2>5, <2>8 DEF k
  <2>9. CASE j # k
    <3>1. k < j /\ i # k
      BY <2>2, <2>3, <2>4, <2>5, <2>6, <2>9, <1>1 DEF Distinct
    <3>2. k < i
      BY <3>1, <2>2, <2>6, <2>7, <1>1
    <3>3. <<t[k], t[j]>> \in W /\ <<s[k], s[i]>> \in W
      BY <3>1, <3>2, <2>2, <2>3, <2>5, <2>6 DEF Ordered
    <3>4. s[k] \in A /\ t[k] \in A
      BY <1>1, <2>2, <2>5
    <3> QED
      BY <3>3, <3>4, <2>3, <2>6 DEF OneWay
  <2> QED
    BY <2>8, <2>9
<1>4. \A u \in Nat : u \in S
  <2> HIDE DEF S
  <2> QED
    BY <1>2, <1>3, NatInduct
<1>5. Len(s) \in S
  BY <1>1, <1>4
<1> QED
  BY <1>1, <1>5

(* There is one such sequence at the most. *)
LEMMA OrderedIsUnique ==
  ASSUME NEW A, NEW W, OneWay(A, W), NEW s, Ordered(s, A, W), NEW t, Ordered(t, A, W)
  PROVE  s = t
<1>1. \A i \in 1 .. Len(s) : i \in 1 .. Len(t) /\ s[i] = t[i]
  BY OrderedWithin
<1>2. \A i \in 1 .. Len(t) : i \in 1 .. Len(s) /\ t[i] = s[i]
  BY OrderedWithin
<1>3. s \in Seq(A) /\ t \in Seq(A) /\ Len(s) \in Nat /\ Len(t) \in Nat
  BY DEF Ordered
<1>4. Len(s) = Len(t)
  <2>1. Len(s) # 0 => Len(s) \in 1 .. Len(s)
    BY <1>3
  <2>2. Len(t) # 0 => Len(t) \in 1 .. Len(t)
    BY <1>3
  <2>3. Len(s) # 0 => Len(s) \in 1 .. Len(t)
    BY <2>1, <1>1
  <2>4. Len(t) # 0 => Len(t) \in 1 .. Len(s)
    BY <2>2, <1>2
  <2> QED
    BY <2>3, <2>4, <1>3
<1> QED
  BY <1>1, <1>3, <1>4

(* An order that has all that another one has will do as well. *)
LEMMA OrderedKept ==
  ASSUME NEW A, NEW W, NEW W2, NEW s, Ordered(s, A, W),
         \A x \in A : \A y \in A : <<x, y>> \in W => <<x, y>> \in W2
  PROVE  Ordered(s, A, W2)
<1>1. s \in Seq(A) /\ \A i \in 1 .. Len(s) : s[i] \in A
  BY DEF Ordered
<1> QED
  BY <1>1 DEF Ordered

(* One sequence behind another. *)
LEMMA OrderedJoined ==
  ASSUME NEW A, NEW B, NEW W, NEW a, Ordered(a, A, W), NEW b, Ordered(b, B, W),
         \A x \in A : \A y \in B : <<x, y>> \in W
  PROVE  Ordered(a \o b, A \cup B, W)
<1> DEFINE s == a \o b
           m == Len(a)
           D == A \cup B
<1>1. a \in Seq(A) /\ b \in Seq(B) /\ m \in Nat /\ Len(b) \in Nat
  BY DEF Ordered
<1>2. a \in Seq(D) /\ b \in Seq(D)
  <2>1. \A i \in 1 .. Len(a) : a[i] \in D
    BY <1>1
  <2>2. \A i \in 1 .. Len(b) : b[i] \in D
    BY <1>1
  <2> QED
    BY <2>1, <2>2, <1>1
<1>3. s \in Seq(D) /\ Len(s) = m + Len(b)
  BY <1>2
<1>4. /\ \A i \in 1 .. m : s[i] = a[i] /\ a[i] \in A
      /\ \A i \in m + 1 .. Len(s) : i - m \in 1 .. Len(b) /\ s[i] = b[i - m] /\ b[i - m] \in B
  <2>1. \A i \in 1 .. m : s[i] = a[i] /\ a[i] \in A
    BY <1>1, <1>2, <1>3
  <2>2. \A i \in m + 1 .. Len(s) : i - m \in 1 .. Len(b) /\ s[i] = b[i - m] /\ b[i - m] \in B
    BY <1>1, <1>2, <1>3
  <2> QED
    BY <2>1, <2>2
<1> HIDE DEF s
<1>5. ASSUME NEW y \in D PROVE Has(s, y)
  <2>1. CASE y \in A
    <3>1. PICK i \in 1 .. Len(a) : a[i] = y
      BY <2>1 DEF Ordered, Has
    <3>2. i \in 1 .. Len(s) /\ s[i] = y
      BY <3>1, <1>1, <1>3, <1>4
    <3> QED
      BY <3>2 DEF Has
  <2>2. CASE y \in B
    <3>1. PICK i \in 1 .. Len(b) : b[i] = y
      BY <2>2 DEF Ordered, Has
    <3>2. i + m \in m + 1 .. Len(s) /\ (i + m) - m = i /\ i + m \in 1 .. Len(s)
      BY <3>1, <1>1, <1>3
    <3>3. s[i + m] = y
      BY <3>1, <3>2, <1>4
    <3> QED
      BY <3>2, <3>3 DEF Has
  <2> QED
    BY <2>1, <2>2
<1>6. ASSUME NEW i \in 1 .. Len(s), NEW j \in 1 .. Len(s), i < j
      PROVE  <<s[i], s[j]>> \in W
  <2>1. CASE j <= m
    <3>1. i \in 1 .. m /\ j \in 1 .. m
      BY <2>1, <1>1, <1>6
    <3> QED
      BY <3>1, <1>4, <1>6 DEF Ordered
  <2>2. CASE i <= m /\ j > m
    <3>1. i \in 1 .. m /\ j \in m + 1 .. Len(s)
      BY <2>2, <1>1
    <3>2. s[i] \in A /\ s[j] \in B
      BY <3>1, <1>4
    <3> QED
      BY <3>2
  <2>3. CASE i > m
    <3>1. i \in m + 1 .. Len(s) /\ j \in m + 1 .. Len(s) /\ i - m < j - m
      BY <2>3, <1>1, <1>3, <1>6
    <3>2. /\ i - m \in 1 .. Len(b) /\ s[i] = b[i - m]
          /\ j - m \in 1 .. Len(b) /\ s[j] = b[j - m]
      BY <3>1, <1>4
    <3>3. <<b[i - m], b[j - m]>> \in W
      BY <3>1, <3>2 DEF Ordered
    <3> QED
      BY <3>2, <3>3
  <2> QED
    BY <2>1, <2>2, <2>3, <1>1, <1>3, <1>6
<1>7. Ordered(s, D, W)
  BY <1>3, <1>5, <1>6 DEF Ordered
<1> QED
  BY <1>7 DEF s

(* A new member in its place. *)
LEMMA OrderedInserted ==
  ASSUME NEW A, NEW W, NEW s, Ordered(s, A, W), NEW e, NEW j \in 1 .. Len(s) + 1,
         \A i \in 1 .. Len(s) : IF i < j THEN <<s[i], e>> \in W ELSE <<e, s[i]>> \in W
  PROVE  Ordered(Inserted(s, j, e), A \cup {e}, W)
<1> DEFINE t == Inserted(s, j, e)
           m == Len(s)
           D == A \cup {e}
<1>1. s \in Seq(A) /\ m \in Nat /\ j \in Nat /\ 1 <= j /\ j <= m + 1
  BY DEF Ordered
<1>2. s \in Seq(D) /\ e \in D
  <2>1. \A i \in 1 .. Len(s) : s[i] \in D
    BY <1>1
  <2> QED
    BY <2>1, <1>1
<1>3. /\ t \in Seq(D) /\ Len(t) = m + 1
      /\ \A i \in 1 .. m + 1 : t[i] = IF i < j THEN s[i] ELSE IF i = j THEN e ELSE s[i - 1]
  BY ONLY <1>2, j \in 1 .. Len(s) + 1, InsertedSeq
<1> HIDE DEF t, D
<1>4. ASSUME NEW y \in D PROVE Has(t, y)
  <2>1. CASE y = e
    <3>1. j \in 1 .. m + 1 /\ t[j] = y
      BY <2>1, <1>1, <1>3
    <3> QED
      BY <3>1, <1>3 DEF Has
  <2>2. CASE y # e
    <3>1. PICK i \in 1 .. Len(s) : s[i] = y
      BY <2>2 DEF Ordered, Has, D
    <3>2. CASE i < j
      <4>1. i \in 1 .. m + 1 /\ t[i] = y
        BY <3>1, <3>2, <1>1, <1>3
      <4> QED
        BY <4>1, <1>3 DEF Has
    <3>3. CASE ~(i < j)
      <4>1. i + 1 \in 1 .. m + 1 /\ ~(i + 1 < j) /\ i + 1 # j /\ (i + 1) - 1 = i
        BY <3>3, <1>1
      <4>2. t[i + 1] = y
        BY <4>1, <3>1, <1>3
      <4> QED
        BY <4>1, <4>2, <1>3 DEF Has
    <3> QED
      BY <3>2, <3>3
  <2> QED
    BY <2>1, <2>2
<1>5. ASSUME NEW i \in 1 .. m + 1, NEW k \in 1 .. m + 1, i < k
      PROVE  <<t[i], t[k]>> \in W
  <2>0. \A u \in 1 .. m : \A v \in 1 .. m : u < v => <<s[u], s[v]>> \in W
    BY DEF Ordered
  <2>1. /\ i < j => i \in 1 .. m /\ t[i] = s[i]
        /\ i > j => i - 1 \in 1 .. m /\ t[i] = s[i - 1]
        /\ i = j => t[i] = e
        /\ k < j => k \in 1 .. m /\ t[k] = s[k]
        /\ k > j => k - 1 \in 1 .. m /\ t[k] = s[k - 1]
        /\ k = j => t[k] = e
    BY <1>1, <1>3
  <2>2. CASE k < j
    BY <2>0, <2>1, <2>2, <1>1, <1>5
  <2>3. CASE k = j
    <3>1. i < j
      BY <2>3, <1>5
    <3> QED
      BY <3>1, <2>1, <2>3
  <2>4. CASE k > j /\ i < j
    <3>1. i < k - 1
      BY <2>4, <1>1
    <3> QED
      BY <3>1, <2>0, <2>1, <2>4
  <2>5. CASE k > j /\ i = j
    <3>1. ~(k - 1 < j)
      BY <2>5, <1>1
    <3> QED
      BY <3>1, <2>1, <2>5
  <2>6. CASE k > j /\ i > j
    <3>1. i - 1 < k - 1
      BY <1>5
    <3> QED
      BY <3>1, <2>0, <2>1, <2>6
  <2> QED
    BY <2>2, <2>3, <2>4, <2>5, <2>6, <1>1
<1>6. Ordered(t, D, W)
  BY <1>3, <1>4, <1>5 DEF Ordered
<1> QED
  BY <1>6 DEF t, D

(* A part of it. *)
LEMMA OrderedPart ==
  ASSUME NEW A, NEW W, NEW s, Ordered(s, A, W), NEW i \in Nat, NEW j \in Nat, 1 <= i, j <= Len(s)
  PROVE  Ordered(SubSeq(s, i, j), {s[k] : k \in i .. j}, W)
<1> DEFINE t == SubSeq(s, i, j)
           D == {s[k] : k \in i .. j}
           m == IF i <= j THEN j - i + 1 ELSE 0
<1>1. s \in Seq(A) /\ Len(s) \in Nat /\ m \in Nat
  BY DEF Ordered
<1>2. Len(t) = m /\ \A k \in 1 .. m : t[k] = s[i + k - 1]
  BY <1>1
<1>3. t = [k \in 1 .. m |-> s[i + k - 1]]
  BY <1>1
<1> HIDE DEF t
<1>4. \A k \in 1 .. m : i + k - 1 \in i .. j /\ i + k - 1 \in 1 .. Len(s)
  BY <1>1
<1>5. t \in Seq(D)
  <2>1. \A k \in 1 .. m : s[i + k - 1] \in D
    BY <1>4
  <2>2. t \in [1 .. m -> D]
    <3> HIDE DEF D, m
    <3> QED
      BY <2>1, <1>3
  <2> HIDE DEF D, m
  <2> QED
    BY ONLY <2>2, <1>1
<1>6. ASSUME NEW y \in D PROVE Has(t, y)
  <2>1. PICK k \in i .. j : y = s[k]
    OBVIOUS
  <2>2. k - i + 1 \in 1 .. m /\ i + (k - i + 1) - 1 = k
    OBVIOUS
  <2>3. t[k - i + 1] = y
    BY <2>1, <2>2, <1>2
  <2> QED
    BY <2>2, <2>3, <1>2 DEF Has
<1>7. ASSUME NEW u \in 1 .. m, NEW v \in 1 .. m, u < v
      PROVE  <<t[u], t[v]>> \in W
  <2>1. i + u - 1 < i + v - 1
    BY <1>7
  <2>2. <<s[i + u - 1], s[i + v - 1]>> \in W
    BY <2>1, <1>4 DEF Ordered
  <2> QED
    BY <2>2, <1>2
<1>8. Ordered(t, D, W)
  BY <1>2, <1>5, <1>6, <1>7 DEF Ordered
<1> QED
  BY <1>8 DEF t

(* y is the next after x. *)
Covers(x, y, A, W) ==
  /\ x \in A /\ y \in A /\ <<x, y>> \in W
  /\ \A z \in A : ~(<<x, z>> \in W /\ <<z, y>> \in W)

(* The member that comes next in the order comes next in the sequence. *)
LEMMA CoversIsNext ==
  ASSUME NEW A, NEW W, OneWay(A, W), NEW s, Ordered(s, A, W)
  PROVE  \A i \in 1 .. Len(s) : \A y : Covers(s[i], y, A, W) => i # Len(s) /\ s[i + 1] = y
<1> SUFFICES ASSUME NEW i \in 1 .. Len(s), NEW y, Covers(s[i], y, A, W)
             PROVE  i # Len(s) /\ s[i + 1] = y
  OBVIOUS
<1>1. s \in Seq(A) /\ Len(s) \in Nat /\ s[i] \in A /\ y \in A
  BY DEF Ordered, Covers
<1>2. PICK j \in 1 .. Len(s) : s[j] = y
  BY <1>1 DEF Ordered, Has
<1>3. i < j
  <2>1. i # j
    BY <1>1, <1>2 DEF Covers, OneWay
  <2>2. ~(j < i)
    BY <1>1, <1>2 DEF Covers, OneWay, Ordered
  <2> QED
    BY <2>1, <2>2, <1>1
<1>4. j = i + 1
  <2> SUFFICES ASSUME j # i + 1 PROVE FALSE
    OBVIOUS
  <2>1. i + 1 \in 1 .. Len(s) /\ i < i + 1 /\ i + 1 < j
    BY <1>1, <1>2, <1>3
  <2>2. <<s[i], s[i + 1]>> \in W /\ <<s[i + 1], s[j]>> \in W /\ s[i + 1] \in A
    BY <2>1, <1>1 DEF Ordered
  <2> QED
    BY <2>2, <1>2 DEF Covers
<1> QED
  BY <1>1, <1>2, <1>3, <1>4

(* A sequence without repetition is as long as the set of its members is large. *)
LEMMA DistinctSize ==
  ASSUME NEW A, NEW s \in Seq(A), Distinct(s), \A y \in A : Has(s, y)
  PROVE  IsFiniteSet(A) /\ Cardinality(A) = Len(s)
<1>1. Len(s) \in Nat
  OBVIOUS
<1>2. IsFiniteSet(1 .. Len(s)) /\ Cardinality(1 .. Len(s)) = Len(s)
  <2>1. 1 \in Int /\ Len(s) \in Int
    BY <1>1
  <2>2. /\ IsFiniteSet(1 .. Len(s))
        /\ Cardinality(1 .. Len(s)) = IF 1 > Len(s) THEN 0 ELSE Len(s) - 1 + 1
    BY <2>1, FS_Interval
  <2> QED
    BY <2>2, <1>1
<1>3. s \in Bijection(1 .. Len(s), A)
  BY <1>1 DEF Bijection, Injection, Surjection, IsInjective, Distinct, Has
<1> QED
  BY <1>2, <1>3, FS_Bijection DEF ExistsBijection
=============================================================================
