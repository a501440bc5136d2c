---------------------------- MODULE MCHashTable -----------------------------
EXTENDS HashTable

(* Two or three objects in one bucket, the last or the middle one of three,
   some of them equal. *)
MCClients ==
  {[kind |-> "Bag", key |-> <<1, 1, 3>>, hash |-> <<2, 2, 5>>],
   [kind |-> "Bag", key |-> <<1, 2, 3>>, hash |-> <<1, 4, 2>>],
   [kind |-> "Set", key |-> <<1, 1, 3>>, hash |-> <<5, 5, 1>>]}
=============================================================================
