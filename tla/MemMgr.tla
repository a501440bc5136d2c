------------------------------- MODULE MemMgr -------------------------------
(***************************************************************************)
(* The arithmetic of classlib's BaseMemBlocks and MemStack (memmgr.h,      *)
(* memmgr.cpp): a stack of heap blocks and a bump pointer into the top     *)
(* one.  A pool is a record                                                *)
(*   blocks : the usable sizes of the blocks, oldest first (curBlock is    *)
(*            the last, blockCount is the length);                           *)
(*   curLoc : offset of the first free byte of the top block.              *)
(* A cell is what allocate returns: the bytes lo .. hi-1 of block blk.     *)
(* size_t is an unsigned word: subtraction and addition wrap.              *)
(***************************************************************************)
EXTENDS Integers, Sequences

CONSTANTS
  BlockSize,   \* bytes of an ordinary block: the constructor's argument
  WordSize,    \* 2^(bits of a size_t), 2^16 in the real-mode compilers
  MaxBlocks    \* blocks the heap can give

(***************************************************************************)
(* CHECK( sz != 0 ) of both constructors, and sz is a size_t.              *)
(***************************************************************************)
ASSUME BlockSizeAssumption ==
  /\ WordSize \in Nat
  /\ BlockSize \in Nat \ {0}
  /\ BlockSize < WordSize

MinusU(a, b) == IF b <= a THEN a - b ELSE a - b + WordSize

PlusU(a, b) == IF a + b < WordSize THEN a + b ELSE a + b - WordSize

Larger(a, b) == IF a < b THEN b ELSE a

-----------------------------------------------------------------------------
(* curLoc(sz): an empty stack pretends to have used up a block. *)
EmptyPool == [blocks |-> << >>, curLoc |-> BlockSize]

BlockCount(mem) == Len(mem.blocks)

(* Mutant: the block is as large as the request, not as blockSize. *)
allocBlockExact(mem, sz) == [blocks |-> Append(mem.blocks, sz), curLoc |-> 0]

(* BaseMemBlocks::allocBlock, the heap granting the block.  Only MemStack
   calls it, and then starts at the new block's first byte. *)
allocBlock(mem, sz) ==
  [blocks |-> Append(mem.blocks, Larger(sz, BlockSize)), curLoc |-> 0]

(* BaseMemBlocks::freeTo: pops blocks until term are left. *)
freeTo(mem, term) ==
  [blocks |-> SubSeq(mem.blocks, 1, term), curLoc |-> mem.curLoc]

(* Mutant: a block one byte short is taken to be large enough. *)
NeedsBlockShort(mem, sz) == sz > MinusU(BlockSize, mem.curLoc) + 1

(* sz > blockSize - curLoc, in unsigned arithmetic. *)
NeedsBlock(mem, sz) == sz > MinusU(BlockSize, mem.curLoc)

(* The pool allocate(sz) bumps: a fresh block at offset 0 when sz does not
   fit, else the present one. *)
Fitted(mem, sz) ==
  IF NeedsBlock(mem, sz)
  THEN allocBlock(mem, sz)
  ELSE mem

(* The pool and the cell after MemStack::allocate(sz) when the heap gives
   every block asked for; sz has gone through max( 1, sz ). *)
AllocatedPool(mem, sz) ==
  LET top == Fitted(mem, sz)
  IN  [blocks |-> top.blocks, curLoc |-> PlusU(top.curLoc, sz)]

AllocatedCell(mem, sz) ==
  LET top == Fitted(mem, sz)
  IN  [blk |-> BlockCount(top), lo |-> top.curLoc, hi |-> top.curLoc + sz]

-----------------------------------------------------------------------------
Cells == [blk : Nat, lo : Nat, hi : Nat]

(* The cell lies in a block the pool still owns. *)
Inside(c, mem) == c.blk \in 1 .. BlockCount(mem) /\ c.hi <= mem.blocks[c.blk]

Overlap(c, d) == c.blk = d.blk /\ c.lo < d.hi /\ d.lo < c.hi

(* The cell ends at or before the position (blk, loc) of the stack. *)
Below(c, blk, loc) == c.blk < blk \/ (c.blk = blk /\ c.hi <= loc)
=============================================================================
