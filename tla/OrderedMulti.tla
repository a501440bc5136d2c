---------------------------- MODULE OrderedMulti ----------------------------
(***************************************************************************)
(* What Open Watcom's multiset and multimap promise (_rbtree.h): a sequence *)
(* of elements in the order of their keys.  An insertion goes after all     *)
(* elements with its key, or as near before a hint as the order allows (the *)
(* comment at insert( hint, v ), after N1780).                              *)
(***************************************************************************)
EXTENDS Integers, Sequences, Functions

CONSTANT Elements  \* each a pair of a key and what tells it from its equals

VARIABLE seq

KeyOf(e) == e[1]

(* The places before the first element that is not less than k, and before the
   first that is greater. *)
Lower(k) == CHOOSE p \in 1 .. Len(seq) + 1 : \A i \in DOMAIN seq : i < p <=> KeyOf(seq[i]) < k
Upper(k) == CHOOSE p \in 1 .. Len(seq) + 1 : \A i \in DOMAIN seq : i < p <=> KeyOf(seq[i]) <= k

(* The place of an element with key k inserted with a hint at place p. *)
Place(p, k) ==
  LET s == seq
  IN  IF p > Len(s) \/ k <= KeyOf(s[p])
      THEN IF p = 1 \/ k >= KeyOf(s[p - 1]) THEN p ELSE Upper(k)
      ELSE Lower(k)

Before(p) == SubSeq(seq, 1, p - 1)
From(p) == SubSeq(seq, p, Len(seq))

InsertBefore(p, e) == seq' = Before(p) \o <<e>> \o From(p)

Insert(e) == InsertBefore(Upper(KeyOf(e)), e)
InsertHint(p, e) == InsertBefore(Place(p, KeyOf(e)), e)
Erase(i) == seq' = Before(i) \o From(i + 1)
EraseKey(k) == seq' = Before(Lower(k)) \o From(Upper(k))
Clear == seq' = << >>

Init == seq = << >>

Next == \/ \E e \in Elements \ Range(seq) :
             Insert(e) \/ \E p \in 1 .. Len(seq) + 1 : InsertHint(p, e)
        \/ \E i \in DOMAIN seq : Erase(i) \/ EraseKey(KeyOf(seq[i]))
        \/ Clear

Spec == Init /\ [][Next]_seq
=============================================================================
