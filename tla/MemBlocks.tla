----------------------------- MODULE MemBlocks ------------------------------
(***************************************************************************)
(* MemBlocks: fixed-size cells carved out of a MemStack and recycled       *)
(* through a free list threaded through the cells themselves, and BMarker, *)
(* which releases the blocks allocated since its construction.             *)
(*                                                                         *)
(* BMarker touches neither the free list nor the bump pointer.  The        *)
(* constant Careful says whether clients destroy a BMarker only when that  *)
(* leaves the pool sound (CarefulRelease) or whenever its PRECONDITION     *)
(* holds.                                                                  *)
(***************************************************************************)
EXTENDS MemMgr, SequencesExt

CONSTANTS
  Sz, Count,   \* the constructor's arguments: cell size, cells per block
  PtrSize,     \* sizeof( void * )
  BMarkers,    \* BMarker objects
  Careful      \* see above

(* mem( sz*count ), CHECK( sz != 0 && count != 0 ). *)
ASSUME MemBlocksAssumption ==
  /\ Sz \in Nat \ {0}
  /\ Count \in Nat \ {0}
  /\ PtrSize \in Nat \ {0}
  /\ BlockSize = (Sz * Count) % WordSize
  /\ Careful \in BOOLEAN

VARIABLES
  mem,         \* the MemStack the cells come from
  freeList,    \* free cells, the next one to hand out first
  live,        \* cells clients hold
  bmarks       \* constructed BMarkers: the block count each saved

vars == <<mem, freeList, live, bmarks>>

(* The cell size: a free cell must hold the link of the free list. *)
size == Larger(Sz, PtrSize)

Init ==
  /\ mem = EmptyPool
  /\ freeList = << >>
  /\ live = {}
  /\ bmarks = << >>

(* Mutant: the cell stays on the free list. *)
ReuseNoPop ==
  /\ freeList # << >>
  /\ live' = live \cup {Head(freeList)}
  /\ UNCHANGED <<freeList, mem, bmarks>>

(* MemBlocks::allocate with a free cell: pop it. *)
Reuse ==
  /\ freeList # << >>
  /\ live' = live \cup {Head(freeList)}
  /\ freeList' = Tail(freeList)
  /\ UNCHANGED <<mem, bmarks>>

(* MemBlocks::allocate with an empty free list: mem.allocate( size ). *)
Carve ==
  /\ freeList = << >>
  /\ NeedsBlock(mem, size) => BlockCount(mem) < MaxBlocks
  /\ mem' = AllocatedPool(mem, size)
  /\ live' = live \cup {AllocatedCell(mem, size)}
  /\ UNCHANGED <<freeList, bmarks>>

(* Mutant: the cell is linked into the free list at the wrong end of a list
   whose head is then lost. *)
FreeLosing(c) ==
  /\ c \in live
  /\ live' = live \ {c}
  /\ freeList' = <<c>>
  /\ UNCHANGED <<mem, bmarks>>

(* MemBlocks::free: push.  Clients free what they hold, once. *)
Free(c) ==
  /\ c \in live
  /\ live' = live \ {c}
  /\ freeList' = <<c>> \o freeList
  /\ UNCHANGED <<mem, bmarks>>

(* BMarker( mb ). *)
CreateBMarker(m) ==
  /\ m \notin DOMAIN bmarks
  /\ bmarks' = [x \in DOMAIN bmarks \cup {m} |->
                 IF x = m THEN BlockCount(mem) ELSE bmarks[x]]
  /\ UNCHANGED <<mem, freeList, live>>

(* What a client must see to before BMarker can release down to term blocks:
   no free cell in the blocks that go, and, if any goes, a bump pointer that
   leaves no room, so that the next cell opens a new block. *)
CarefulRelease(term) ==
  BlockCount(mem) > term =>
    /\ \A c \in ToSet(freeList) : c.blk <= term
    /\ NeedsBlock(mem, size)

(* ~BMarker(): PRECONDITION( blk <= memstk.count() ), then freeTo.  The cells
   in the released blocks are gone, as for a Marker. *)
DestroyBMarker(m) ==
  /\ m \in DOMAIN bmarks
  /\ bmarks[m] <= BlockCount(mem)
  /\ Careful => CarefulRelease(bmarks[m])
  /\ mem' = freeTo(mem, bmarks[m])
  /\ live' = {c \in live : c.blk <= bmarks[m]}
  /\ bmarks' = [x \in DOMAIN bmarks \ {m} |-> bmarks[x]]
  /\ UNCHANGED freeList

Next ==
  \/ Reuse
  \/ Carve
  \/ \E c \in live : Free(c)
  \/ \E m \in BMarkers : CreateBMarker(m)
  \/ \E m \in BMarkers : DestroyBMarker(m)

Spec == Init /\ [][Next]_vars

-----------------------------------------------------------------------------
(* An internal block holds at least one cell.  MemBlocks( 1, 1 ) does not
   see to it: the cell is as large as a pointer, the block is not. *)
CellFits == size <= BlockSize

TypeOK ==
  /\ mem \in [blocks : Seq(Nat), curLoc : 0 .. BlockSize]
  /\ freeList \in Seq(Cells)
  /\ live \subseteq Cells
  /\ DOMAIN bmarks \subseteq BMarkers
  /\ \A m \in DOMAIN bmarks : bmarks[m] \in Nat

(* Cells handed out and cells waiting on the free list all lie in blocks the
   pool owns: "the internal blocks are not released until the MemBlock object
   is destroyed" (classlib.doc, MemBlocks). *)
CellsInside == \A c \in live \cup ToSet(freeList) : Inside(c, mem)

(* A byte belongs to one client or to one free cell: no cell is handed out
   twice, or handed out while it is on the free list (allocate, free). *)
CellsDisjoint ==
  /\ IsInjective(freeList)
  /\ live \cap ToSet(freeList) = {}
  /\ \A c, d \in live \cup ToSet(freeList) : c # d => ~Overlap(c, d)

(* The cells block b of a pool has been cut into: a full block holds as many
   as fit, the top one those below the bump pointer. *)
CutFrom(pool, b) ==
  LET end == IF b = BlockCount(pool) THEN pool.curLoc ELSE pool.blocks[b]
  IN  {[blk |-> b, lo |-> k * size, hi |-> (k + 1) * size] :
         k \in 0 .. (end \div size) - 1}

(* All of them. *)
AllCut(pool) == UNION {CutFrom(pool, b) : b \in 1 .. BlockCount(pool)}

(* Every cell cut from the blocks the pool owns is in a client's hands or on
   the free list: nothing is lost between allocate and free, nor by a careful
   release. *)
NothingLost ==
  Careful =>
    live \cup ToSet(freeList) = AllCut(mem)

(* The inductive invariant: an internal block has BlockSize bytes or more;
   either the next cell opens a new block or every cell lies below the bump
   pointer. *)
Inv ==
  /\ TypeOK
  /\ \A i \in 1 .. BlockCount(mem) : mem.blocks[i] >= BlockSize
  /\ BlockCount(mem) = 0 => NeedsBlock(mem, size)
  /\ \A c \in live \cup ToSet(freeList) :
       /\ c.blk >= 1 /\ c.lo < c.hi
       /\ NeedsBlock(mem, size) \/ Below(c, BlockCount(mem), mem.curLoc)
  /\ CellsInside
  /\ CellsDisjoint

(* What NothingLost needs besides: no request is larger than a block, so every
   block has BlockSize bytes, and the top one is cut into whole cells. *)
CutInv ==
  /\ \A i \in 1 .. BlockCount(mem) : mem.blocks[i] = BlockSize
  /\ BlockCount(mem) > 0 =>
       \E k \in 0 .. BlockSize : mem.curLoc = k * size
  /\ NothingLost
=============================================================================
