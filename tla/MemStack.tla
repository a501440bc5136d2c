------------------------------ MODULE MemStack ------------------------------
(***************************************************************************)
(* MemStack with its Markers: mark-and-release memory.  Clients allocate   *)
(* cells and create and destroy markers in any order the destructor's      *)
(* PRECONDITION lets pass (a failed one stops the program).  `inUse' is the *)
(* contract's view: the cells no destroyed marker has released.            *)
(***************************************************************************)
EXTENDS MemMgr

CONSTANTS
  Requests,    \* sizes clients ask allocate for
  Markers      \* Marker objects

ASSUME RequestsAssumption == Requests \subseteq 0 .. WordSize - 1

VARIABLES
  stack,       \* the pool
  inUse,       \* cells handed out and not released
  marks        \* the constructed markers

stackVars == <<stack, inUse, marks>>

(* A constructed marker: the position it saved, and (for the properties) the
   cells live at its construction that are live still. *)
Marks == [blk : Nat, curLoc : Nat, before : SUBSET Cells]

StackInit ==
  /\ stack = EmptyPool
  /\ inUse = {}
  /\ marks = << >>

(* MemStack::allocate( size ).  It returns 0 and changes nothing when a block
   is needed and the heap has none. *)
Allocate(request) ==
  LET sz == Larger(1, request)
  IN  /\ NeedsBlock(stack, sz) => BlockCount(stack) < MaxBlocks
      /\ stack' = AllocatedPool(stack, sz)
      /\ inUse' = inUse \cup {AllocatedCell(stack, sz)}
      /\ UNCHANGED marks

(* Mutant: the marker saves the block but not the place in it. *)
CreateMarkerBlockOnly(m) ==
  /\ m \notin DOMAIN marks
  /\ marks' = [x \in DOMAIN marks \cup {m} |->
                IF x = m
                THEN [blk |-> BlockCount(stack), curLoc |-> 0, before |-> inUse]
                ELSE marks[x]]
  /\ UNCHANGED <<stack, inUse>>

(* Marker( ms ). *)
CreateMarker(m) ==
  /\ m \notin DOMAIN marks
  /\ marks' = [x \in DOMAIN marks \cup {m} |->
                IF x = m
                THEN [blk |-> BlockCount(stack), curLoc |-> stack.curLoc,
                      before |-> inUse]
                ELSE marks[x]]
  /\ UNCHANGED <<stack, inUse>>

(* PRECONDITION of ~Marker. *)
MayRelease(mk) ==
  \/ mk.blk < BlockCount(stack)
  \/ mk.blk = BlockCount(stack) /\ mk.curLoc <= stack.curLoc

(* Mutant: the destructor frees the blocks and leaves curLoc alone. *)
DestroyMarkerNoReset(m) ==
  /\ m \in DOMAIN marks
  /\ MayRelease(marks[m])
  /\ stack' = freeTo(stack, marks[m].blk)
  /\ inUse' = inUse \cap marks[m].before
  /\ marks' = [x \in DOMAIN marks \ {m} |->
                [marks[x] EXCEPT !.before = @ \cap marks[m].before]]

(* ~Marker(): pops the blocks allocated since and resets the bump pointer. *)
DestroyMarker(m) ==
  /\ m \in DOMAIN marks
  /\ MayRelease(marks[m])
  /\ stack' = [blocks |-> freeTo(stack, marks[m].blk).blocks,
               curLoc |-> marks[m].curLoc]
  /\ inUse' = inUse \cap marks[m].before
  /\ marks' = [x \in DOMAIN marks \ {m} |->
                [marks[x] EXCEPT !.before = @ \cap marks[m].before]]

StackNext ==
  \/ \E request \in Requests : Allocate(request)
  \/ \E m \in Markers : CreateMarker(m)
  \/ \E m \in Markers : DestroyMarker(m)

StackSpec == StackInit /\ [][StackNext]_stackVars

-----------------------------------------------------------------------------
(* Clients ask for no more than an ordinary block holds.  Beyond it allocate
   leaves curLoc past blockSize, and blockSize - curLoc wraps. *)
RequestsFit == \A s \in Requests : s <= BlockSize

StackTypeOK ==
  /\ stack \in [blocks : Seq(Nat), curLoc : 0 .. BlockSize]
  /\ inUse \subseteq Cells
  /\ DOMAIN marks \subseteq Markers
  /\ \A m \in DOMAIN marks : marks[m] \in Marks

(* No allocate hands out bytes outside the blocks the stack owns, whatever
   markers were destroyed in between (MemStack::allocate,
   BaseMemBlocks::freeTo). *)
LiveInside == \A c \in inUse : Inside(c, stack)

(* No two cells in use share a byte: destroying a marker never moves the bump
   pointer back over a cell that is still in use (~Marker). *)
LiveDisjoint == \A c, d \in inUse : c # d => ~Overlap(c, d)

(* Everything in use lies below the bump pointer, so the next cell is free
   memory (MemStack::allocate). *)
LiveBelow == \A c \in inUse : Below(c, BlockCount(stack), stack.curLoc)

(* Everything that was in use when a marker was made and still is lies below
   the position the marker saved, so its destruction keeps it (~Marker). *)
MarkAbove ==
  \A m \in DOMAIN marks :
    /\ marks[m].before \subseteq inUse
    /\ \A c \in marks[m].before : Below(c, marks[m].blk, marks[m].curLoc)

(* The inductive invariant: the parts above and the facts they rest on.  An
   ordinary block is never smaller than BlockSize, and with no block at all
   the bump pointer stands at the end of a block, so that the next cell opens
   one; the positions markers saved obey the same rule. *)
StackInv ==
  /\ StackTypeOK
  /\ \A i \in 1 .. BlockCount(stack) : stack.blocks[i] >= BlockSize
  /\ BlockCount(stack) = 0 => stack.curLoc = BlockSize
  /\ \A m \in DOMAIN marks :
       /\ marks[m].curLoc <= BlockSize
       /\ marks[m].blk = 0 => marks[m].curLoc = BlockSize
  /\ \A c \in inUse : c.blk >= 1 /\ c.lo < c.hi
  /\ LiveInside
  /\ LiveDisjoint
  /\ LiveBelow
  /\ MarkAbove
=============================================================================
