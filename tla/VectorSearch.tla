---------------------------- MODULE VectorSearch ----------------------------
(***************************************************************************)
(* The binary search of the sorted vectors: BI_SVectorImp::find, and the   *)
(* form of it with one test more in BI_ISObjectVector::find.  Indexes are  *)
(* unsigned: UIntMax is the largest, the answer "not found", and what      *)
(* zero minus one is.  A turn of the loop is a step.                       *)
(***************************************************************************)
EXTENDS Integers

CONSTANTS UIntMax,  \* UINT_MAX
          Objects,  \* what can be put into a vector
          value     \* what operator < and == compare of it

Null == 0

ASSUME UIntAssumption == UIntMax \in Nat \ {0}
ASSUME ObjectsAssumption == Objects \subseteq Nat \ {Null} /\ value \in [Objects -> Int]

VARIABLES
  data,           \* the slots of the vector
  count,          \* count_: those that are in use
  tested,         \* whether the loop tests for UINT_MAX
  sought,         \* the value that is looked for
  lower, upper,   \* the bounds of the search
  found,          \* its answer
  pc              \* "idle", "search", "found"

vectorVars == <<data, count, tested>>
searchVars == <<sought, lower, upper, found, pc>>

InUse(i) == i \in DOMAIN data /\ data[i] \in Objects

(* Below count_ the slots are in order, and indexes can be added. *)
InOrder ==
  /\ count \in Nat
  /\ 2 * count <= UIntMax
  /\ \A i \in 0 .. count - 1 : InUse(i)
  /\ \A i, j \in 0 .. count - 1 : i <= j => value[data[i]] <= value[data[j]]

Find(v) ==
  /\ pc = "idle"
  /\ pc' = "search"
  /\ sought' = v
  /\ lower' = 0
  /\ upper' = IF count = 0 THEN UIntMax ELSE count - 1
  /\ UNCHANGED found

middle == (lower + upper) \div 2

Looking == count # 0 /\ lower < upper /\ (tested => upper # UIntMax)

(* What a comparison with a slot may say: of one that holds no object, because
   nothing was put there or it is not of this vector, anything. *)
Comparison(i) ==
  IF ~InUse(i) THEN {"equal", "less", "greater"}
  ELSE IF value[data[i]] = sought THEN {"equal"}
  ELSE IF value[data[i]] < sought THEN {"less"} ELSE {"greater"}

Answer(loc) == found' = loc /\ pc' = "found" /\ UNCHANGED <<sought, lower, upper>>

(* Mutant: the element in the middle is not looked at again, nor the next. *)
TurnPast ==
  /\ pc = "search"
  /\ Looking
  /\ \/ "equal" \in Comparison(middle) /\ Answer(middle)
     \/ /\ "less" \in Comparison(middle)
        /\ lower' = middle + 2
        /\ UNCHANGED <<sought, upper, found, pc>>
     \/ /\ "greater" \in Comparison(middle)
        /\ upper' = IF middle = 0 THEN UIntMax ELSE middle - 1
        /\ UNCHANGED <<sought, lower, found, pc>>

(* Mutant: the element in the middle is kept. *)
TurnKept ==
  /\ pc = "search"
  /\ Looking
  /\ \/ "equal" \in Comparison(middle) /\ Answer(middle)
     \/ /\ "less" \in Comparison(middle)
        /\ lower' = middle
        /\ UNCHANGED <<sought, upper, found, pc>>
     \/ /\ "greater" \in Comparison(middle)
        /\ upper' = IF middle = 0 THEN UIntMax ELSE middle - 1
        /\ UNCHANGED <<sought, lower, found, pc>>

Turn ==
  /\ pc = "search"
  /\ Looking
  /\ \/ "equal" \in Comparison(middle) /\ Answer(middle)
     \/ /\ "less" \in Comparison(middle)
        /\ lower' = middle + 1
        /\ UNCHANGED <<sought, upper, found, pc>>
     \/ /\ "greater" \in Comparison(middle)
        /\ upper' = IF middle = 0 THEN UIntMax ELSE middle - 1
        /\ UNCHANGED <<sought, lower, found, pc>>

Finish ==
  /\ pc = "search"
  /\ ~Looking
  /\ \/ lower = upper /\ "equal" \in Comparison(lower) /\ Answer(lower)
     \/ ~(lower = upper /\ Comparison(lower) = {"equal"}) /\ Answer(UIntMax)

AtRest == pc = "idle" /\ sought = 0 /\ lower = 0 /\ upper = 0 /\ found = UIntMax

(* The caller has the answer, and the variables of find are gone. *)
Stop == /\ pc = "found" /\ pc' = "idle"
        /\ sought' = 0 /\ lower' = 0 /\ upper' = 0 /\ found' = UIntMax

-----------------------------------------------------------------------------
(* A search of a vector that stays as it is. *)
SearchInit ==
  /\ InOrder
  /\ tested \in BOOLEAN
  /\ AtRest

SearchNext == /\ Turn \/ Finish \/ Stop \/ \E v \in Int : Find(v)
              /\ UNCHANGED vectorVars

SearchSpec == SearchInit /\ [][SearchNext]_<<vectorVars, searchVars>>

(* The searches that can be relied on: with the test, or for a value that is
   not less than the first. *)
Sound == tested \/ (count # 0 => value[data[0]] <= sought)

(* Such a search compares with slots in use only, and its answer is the index
   of an equal object, or UINT_MAX when there is none. *)
SearchRight ==
  Sound =>
    /\ pc = "search" /\ Looking => middle < count
    /\ pc = "search" /\ ~Looking /\ lower = upper => lower < count
    /\ pc = "found" =>
         IF \E i \in 0 .. count - 1 : value[data[i]] = sought
         THEN found \in 0 .. count - 1 /\ value[data[found]] = sought
         ELSE found = UIntMax
=============================================================================
