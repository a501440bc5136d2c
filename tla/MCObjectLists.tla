--------------------------- MODULE MCObjectLists ----------------------------
EXTENDS ObjectLists

(* Three objects, two of them equal. *)
MCObjects == 1 .. 3
MCEqual == <<1, 2, 1>>
=============================================================================
