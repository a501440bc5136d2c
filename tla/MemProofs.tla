------------------------------ MODULE MemProofs ------------------------------
(***************************************************************************)
(* The theorems about classlib's two allocators.                           *)
(*                                                                         *)
(* MemStack: for every size of block and word, requests that fit a block,  *)
(* and any number of markers destroyed in any order their preconditions    *)
(* allow, cells in use stay inside the blocks and apart.                   *)
(*                                                                         *)
(* MemBlocks: for every cell size and count whose blocks hold at least one *)
(* cell, the cells handed out and the free cells lie in the pool's blocks, *)
(* never overlap, and are all the cells cut from those blocks, as long as  *)
(* BMarkers are destroyed carefully (or not used).                         *)
(***************************************************************************)
EXTENDS MemStack, MemBlocks, TLAPS

-----------------------------------------------------------------------------
(* What allocate does to a sound pool: the new cell lies in the top block,
   starts at or after every position of the old stack, and ends at the new
   bump pointer (MemStack::allocate). *)
LEMMA AllocateEffect ==
  ASSUME NEW pool, NEW sz \in Nat,
         pool \in [blocks : Seq(Nat), curLoc : 0 .. BlockSize],
         \A i \in 1 .. BlockCount(pool) : pool.blocks[i] >= BlockSize,
         BlockCount(pool) = 0 => NeedsBlock(pool, sz),
         1 <= sz, sz <= BlockSize
  PROVE  LET next == AllocatedPool(pool, sz)
             cell == AllocatedCell(pool, sz)
         IN  /\ next \in [blocks : Seq(Nat), curLoc : 0 .. BlockSize]
             /\ BlockCount(next) \in {BlockCount(pool), BlockCount(pool) + 1}
             /\ BlockCount(next) >= 1
             /\ \A i \in 1 .. BlockCount(next) : next.blocks[i] >= BlockSize
             /\ \A i \in 1 .. BlockCount(pool) : next.blocks[i] = pool.blocks[i]
             /\ cell \in Cells
             /\ cell.blk = BlockCount(next)
             /\ cell.lo < cell.hi
             /\ cell.hi = next.curLoc
             /\ BlockCount(next) = BlockCount(pool) => cell.lo = pool.curLoc
             /\ Inside(cell, next)
<1> DEFINE next == AllocatedPool(pool, sz)
           cell == AllocatedCell(pool, sz)
<1>1. MinusU(BlockSize, pool.curLoc) = BlockSize - pool.curLoc
  BY BlockSizeAssumption DEF MinusU
<1>2. CASE sz > BlockSize - pool.curLoc
  <2>1. NeedsBlock(pool, sz)
    BY <1>1, <1>2 DEF NeedsBlock
  <2>2. Larger(sz, BlockSize) = BlockSize
    BY BlockSizeAssumption DEF Larger
  <2>3. Fitted(pool, sz)
          = [blocks |-> Append(pool.blocks, BlockSize), curLoc |-> 0]
    BY <2>1, <2>2 DEF Fitted, allocBlock
  <2>4. next = [blocks |-> Append(pool.blocks, BlockSize), curLoc |-> sz]
    <3>1. Fitted(pool, sz).curLoc = 0
      BY <2>3
    <3>2. PlusU(Fitted(pool, sz).curLoc, sz) = sz
      BY <3>1, BlockSizeAssumption DEF PlusU
    <3>3. Fitted(pool, sz).blocks = Append(pool.blocks, BlockSize)
      BY <2>3
    <3> QED
      BY <3>2, <3>3, Zenon DEF AllocatedPool
  <2>5. cell = [blk |-> Len(pool.blocks) + 1, lo |-> 0, hi |-> sz]
    BY <2>3 DEF AllocatedCell, BlockCount
  <2> QED
    BY <2>4, <2>5, BlockSizeAssumption DEF BlockCount, Cells, Inside
<1>3. CASE sz <= BlockSize - pool.curLoc
  <2>1. ~NeedsBlock(pool, sz)
    BY <1>1, <1>3, BlockSizeAssumption DEF NeedsBlock
  <2>2. Fitted(pool, sz) = pool
    BY <2>1 DEF Fitted
  <2>3. /\ next = [blocks |-> pool.blocks, curLoc |-> pool.curLoc + sz]
        /\ cell = [blk |-> Len(pool.blocks), lo |-> pool.curLoc,
                   hi |-> pool.curLoc + sz]
    BY <2>2, <1>3, BlockSizeAssumption
       DEF AllocatedPool, AllocatedCell, PlusU, BlockCount
  <2>4. BlockCount(pool) >= 1
    BY <2>1 DEF BlockCount
  <2> QED
    BY <2>3, <2>4, <1>3, BlockSizeAssumption DEF BlockCount, Cells, Inside
<1> QED
  BY <1>2, <1>3, BlockSizeAssumption

(* With the bump pointer at the end of a block every request opens one. *)
LEMMA AtTheEnd ==
  ASSUME NEW pool, NEW sz \in Nat, 1 <= sz, pool.curLoc = BlockSize
  PROVE  NeedsBlock(pool, sz)
  BY BlockSizeAssumption DEF NeedsBlock, MinusU

-----------------------------------------------------------------------------
LEMMA StackInitInv == StackInit => StackInv
  BY BlockSizeAssumption
     DEF StackInit, StackInv, EmptyPool, BlockCount, StackTypeOK, LiveInside,
         LiveDisjoint, LiveBelow, MarkAbove

(* MemStack::allocate keeps the invariant when the request fits a block. *)
LEMMA AllocateInv ==
  ASSUME StackInv, NEW r \in Requests, r <= BlockSize, Allocate(r)
  PROVE  StackInv'
<1> DEFINE sz == Larger(1, r)
           cell == AllocatedCell(stack, sz)
<1>1. r \in Nat
  BY RequestsAssumption, BlockSizeAssumption
<1>2. /\ sz \in Nat
      /\ 1 <= sz
      /\ sz <= BlockSize
  BY <1>1, BlockSizeAssumption DEF Larger
<1>3. /\ stack' = AllocatedPool(stack, sz)
      /\ inUse' = inUse \cup {cell}
      /\ marks' = marks
  BY DEF Allocate
<1> HIDE DEF sz, cell
<1>opens. BlockCount(stack) = 0 => NeedsBlock(stack, sz)
  BY <1>2, AtTheEnd DEF StackInv
<1>4. /\ stack' \in [blocks : Seq(Nat), curLoc : 0 .. BlockSize]
      /\ BlockCount(stack') \in {BlockCount(stack), BlockCount(stack) + 1}
      /\ BlockCount(stack') >= 1
      /\ \A i \in 1 .. BlockCount(stack') : stack'.blocks[i] >= BlockSize
      /\ \A i \in 1 .. BlockCount(stack) : stack'.blocks[i] = stack.blocks[i]
      /\ cell \in Cells
      /\ cell.blk = BlockCount(stack')
      /\ cell.lo < cell.hi
      /\ cell.hi = stack'.curLoc
      /\ BlockCount(stack') = BlockCount(stack) => cell.lo = stack.curLoc
      /\ Inside(cell, stack')
  BY <1>2, <1>3, <1>opens, AllocateEffect DEF StackInv, StackTypeOK, cell
<1>5. BlockCount(stack) \in Nat
  BY DEF StackInv, StackTypeOK, BlockCount
<1>6. StackTypeOK'
  BY <1>3, <1>4 DEF StackInv, StackTypeOK
<1>7. /\ \A i \in 1 .. BlockCount(stack') : stack'.blocks[i] >= BlockSize
      /\ BlockCount(stack') = 0 => stack'.curLoc = BlockSize
      /\ \A m \in DOMAIN marks' :
           /\ marks'[m].curLoc <= BlockSize
           /\ marks'[m].blk = 0 => marks'[m].curLoc = BlockSize
      /\ \A c \in inUse' : c.blk >= 1 /\ c.lo < c.hi
  BY <1>3, <1>4, <1>5 DEF StackInv
<1>8. LiveInside'
  <2>1. 1 .. BlockCount(stack) \subseteq 1 .. BlockCount(stack')
    BY <1>4, <1>5
  <2>2. ASSUME NEW c \in inUse
        PROVE  Inside(c, stack')
    <3>1. c.blk \in 1 .. BlockCount(stack) /\ c.hi <= stack.blocks[c.blk]
      BY DEF StackInv, LiveInside, Inside
    <3>2. /\ c.blk \in 1 .. BlockCount(stack')
          /\ stack'.blocks[c.blk] = stack.blocks[c.blk]
      BY <3>1, <2>1, <1>4
    <3> QED
      BY <3>1, <3>2 DEF Inside
  <2> QED
    BY <1>3, <1>4, <2>2 DEF LiveInside
<1>9. LiveBelow'
  BY SMTT(30), <1>3, <1>4, <1>5
     DEF StackInv, StackTypeOK, Cells, LiveBelow, Below
<1>10. \A c \in inUse : ~Overlap(c, cell) /\ ~Overlap(cell, c)
  BY SMTT(30), <1>4, <1>5
     DEF StackInv, StackTypeOK, Cells, LiveBelow, Below, Overlap
<1>11. LiveDisjoint'
  BY <1>3, <1>10 DEF StackInv, LiveDisjoint
<1>12. MarkAbove'
  BY <1>3 DEF StackInv, MarkAbove
<1> QED
  BY <1>6, <1>7, <1>8, <1>9, <1>11, <1>12 DEF StackInv

(* Marker( ms ) saves the present position, which is above everything. *)
LEMMA CreateMarkerInv ==
  ASSUME StackInv, NEW m \in Markers, CreateMarker(m)
  PROVE  StackInv'
<1>1. /\ stack' = stack
      /\ inUse' = inUse
      /\ DOMAIN marks' = DOMAIN marks \cup {m}
      /\ marks'[m] = [blk |-> BlockCount(stack), curLoc |-> stack.curLoc,
                      before |-> inUse]
      /\ \A x \in DOMAIN marks : marks'[x] = marks[x]
  BY DEF CreateMarker
<1>2. BlockCount(stack) \in Nat /\ stack.curLoc \in 0 .. BlockSize
  BY DEF StackInv, StackTypeOK, BlockCount
<1>3. StackTypeOK'
  BY <1>1, <1>2, BlockSizeAssumption DEF StackInv, StackTypeOK, Marks
<1>4. MarkAbove'
  BY <1>1, <1>2 DEF StackInv, MarkAbove, LiveBelow
<1> QED
  BY <1>1, <1>2, <1>3, <1>4, BlockSizeAssumption
     DEF StackInv, LiveInside, LiveDisjoint, LiveBelow

(* ~Marker() pops blocks and moves the bump pointer back, but not below what
   was in use before the marker: the cells that stay lie under its position. *)
LEMMA DestroyMarkerInv ==
  ASSUME StackInv, NEW m \in Markers, DestroyMarker(m)
  PROVE  StackInv'
<1> DEFINE mk == marks[m]
<1>1. m \in DOMAIN marks /\ mk \in Marks
  BY DEF DestroyMarker, StackInv, StackTypeOK
<1>2. /\ stack' = [blocks |-> SubSeq(stack.blocks, 1, mk.blk),
                   curLoc |-> mk.curLoc]
      /\ inUse' = inUse \cap mk.before
      /\ DOMAIN marks' = DOMAIN marks \ {m}
      /\ \A x \in DOMAIN marks' :
            marks'[x] = [marks[x] EXCEPT !.before = @ \cap mk.before]
  BY DEF DestroyMarker, freeTo
<1>3. /\ mk.blk \in 0 .. Len(stack.blocks)
      /\ mk.curLoc \in 0 .. BlockSize
      /\ stack.blocks \in Seq(Nat)
  BY <1>1, BlockSizeAssumption
     DEF DestroyMarker, MayRelease, BlockCount, StackInv, StackTypeOK, Marks
<1>4. /\ stack' \in [blocks : Seq(Nat), curLoc : 0 .. BlockSize]
      /\ Len(stack'.blocks) = mk.blk
      /\ \A i \in 1 .. mk.blk : stack'.blocks[i] = stack.blocks[i]
      /\ stack'.curLoc = mk.curLoc
  BY <1>2, <1>3
<1>5. \A x \in DOMAIN marks' :
        /\ marks'[x] = [blk |-> marks[x].blk, curLoc |-> marks[x].curLoc,
                        before |-> marks[x].before \cap mk.before]
        /\ marks'[x] \in Marks
        /\ x \in DOMAIN marks
  BY <1>2 DEF StackInv, StackTypeOK, Marks
<1>6. \A c \in inUse' : Below(c, mk.blk, mk.curLoc)
  BY <1>1, <1>2 DEF StackInv, MarkAbove
<1>7. StackTypeOK'
  BY <1>2, <1>4, <1>5 DEF StackInv, StackTypeOK
<1>8. LiveInside'
  <2>1. ASSUME NEW c \in inUse'
        PROVE  Inside(c, stack')
    <3>1. c.blk \in 1 .. Len(stack.blocks) /\ c.hi <= stack.blocks[c.blk]
      BY <1>2 DEF StackInv, LiveInside, Inside, BlockCount
    <3>2. c.blk <= mk.blk
      BY <3>1, <1>3, <1>6 DEF Below
    <3>3. c.blk \in 1 .. mk.blk
      BY <3>1, <3>2, <1>3
    <3>4. stack'.blocks[c.blk] = stack.blocks[c.blk]
      BY <3>3, <1>4
    <3> QED
      BY <3>1, <3>3, <3>4, <1>4 DEF Inside, BlockCount
  <2> QED
    BY <2>1 DEF LiveInside
<1>9. LiveDisjoint'
  BY <1>2 DEF StackInv, LiveDisjoint
<1>10. LiveBelow'
  BY <1>4, <1>6 DEF LiveBelow, BlockCount
<1>11. MarkAbove'
  BY <1>2, <1>5 DEF StackInv, MarkAbove
<1>12. /\ \A i \in 1 .. BlockCount(stack') : stack'.blocks[i] >= BlockSize
       /\ BlockCount(stack') = 0 => stack'.curLoc = BlockSize
       /\ \A x \in DOMAIN marks' :
            /\ marks'[x].curLoc <= BlockSize
            /\ marks'[x].blk = 0 => marks'[x].curLoc = BlockSize
       /\ \A c \in inUse' : c.blk >= 1 /\ c.lo < c.hi
  BY SMTT(30), <1>1, <1>2, <1>3, <1>4, <1>5 DEF StackInv, BlockCount
<1> QED
  BY <1>7, <1>8, <1>9, <1>10, <1>11, <1>12 DEF StackInv

LEMMA StackInductive ==
  RequestsFit => (StackInv /\ [StackNext]_stackVars => StackInv')
<1> SUFFICES ASSUME RequestsFit, StackInv, [StackNext]_stackVars
             PROVE  StackInv'
  OBVIOUS
<1>1. ASSUME NEW r \in Requests, Allocate(r)
      PROVE  StackInv'
  BY <1>1, AllocateInv DEF RequestsFit
<1>2. ASSUME NEW m \in Markers, CreateMarker(m)
      PROVE  StackInv'
  BY <1>2, CreateMarkerInv
<1>3. ASSUME NEW m \in Markers, DestroyMarker(m)
      PROVE  StackInv'
  BY <1>3, DestroyMarkerInv
<1>4. CASE UNCHANGED stackVars
  BY <1>4
     DEF stackVars, StackInv, StackTypeOK, LiveInside, LiveDisjoint, LiveBelow,
         MarkAbove
<1> QED
  BY <1>1, <1>2, <1>3, <1>4 DEF StackNext

(* The inductive invariant holds in every state, if requests fit a block. *)
THEOREM MemStackInv == RequestsFit => (StackSpec => []StackInv)
<1> SUFFICES ASSUME RequestsFit
             PROVE  StackSpec => []StackInv
  OBVIOUS
<1>1. StackInv /\ [StackNext]_stackVars => StackInv'
  BY StackInductive
<1> QED
  BY <1>1, StackInitInv, PTL DEF StackSpec

(* The variables keep their types; in particular the bump pointer never
   passes the end of an ordinary block (MemStack::allocate, ~Marker). *)
THEOREM MemStackType == RequestsFit => (StackSpec => []StackTypeOK)
<1> SUFFICES ASSUME RequestsFit
             PROVE  StackSpec => []StackTypeOK
  OBVIOUS
<1>1. StackInv => StackTypeOK
  BY DEF StackInv
<1> QED
  BY <1>1, MemStackInv, PTL

(* MemStack::allocate never hands out bytes outside the stack's blocks, and
   no freeTo takes a block from under a cell in use. *)
THEOREM MemStackInside == RequestsFit => (StackSpec => []LiveInside)
<1> SUFFICES ASSUME RequestsFit
             PROVE  StackSpec => []LiveInside
  OBVIOUS
<1>1. StackInv => LiveInside
  BY DEF StackInv
<1> QED
  BY <1>1, MemStackInv, PTL

(* No two cells in use overlap, in whatever order markers are destroyed. *)
THEOREM MemStackDisjoint == RequestsFit => (StackSpec => []LiveDisjoint)
<1> SUFFICES ASSUME RequestsFit
             PROVE  StackSpec => []LiveDisjoint
  OBVIOUS
<1>1. StackInv => LiveDisjoint
  BY DEF StackInv
<1> QED
  BY <1>1, MemStackInv, PTL

-----------------------------------------------------------------------------
(* Pushing a new element on a free list without duplicates. *)
LEMMA Push ==
  ASSUME NEW S, NEW f \in Seq(S), NEW c \in S, IsInjective(f), c \notin ToSet(f)
  PROVE  /\ <<c>> \o f \in Seq(S)
         /\ ToSet(<<c>> \o f) = {c} \cup ToSet(f)
         /\ IsInjective(<<c>> \o f)
<1> DEFINE g == <<c>> \o f
<1>1. /\ g \in Seq(S)
      /\ DOMAIN f = 1 .. Len(f) /\ DOMAIN g = 1 .. Len(f) + 1
      /\ Len(f) \in Nat
      /\ g[1] = c
      /\ \A i \in 2 .. Len(f) + 1 : i - 1 \in 1 .. Len(f) /\ g[i] = f[i - 1]
      /\ \A i \in 1 .. Len(f) : i + 1 \in 2 .. Len(f) + 1 /\ g[i + 1] = f[i]
  OBVIOUS
<1> HIDE DEF g
<1>2. ToSet(g) = {c} \cup ToSet(f)
  <2>1. ASSUME NEW x \in ToSet(g)
        PROVE  x \in {c} \cup ToSet(f)
    BY <1>1, <2>1 DEF ToSet
  <2>2. ASSUME NEW x \in {c} \cup ToSet(f)
        PROVE  x \in ToSet(g)
    BY SMTT(30), <1>1, <2>2 DEF ToSet
  <2> QED
    BY <2>1, <2>2
<1>3. IsInjective(g)
  <2> SUFFICES ASSUME NEW i \in DOMAIN g, NEW j \in DOMAIN g, g[i] = g[j]
               PROVE  i = j
    BY DEF IsInjective
  <2>1. \A k \in 2 .. Len(f) + 1 : g[k] # c
    BY SMTT(30), <1>1 DEF ToSet
  <2>2. CASE i = 1 \/ j = 1
    BY <1>1, <2>1, <2>2
  <2>3. CASE i # 1 /\ j # 1
    <3>1. /\ i \in 2 .. Len(f) + 1 /\ j \in 2 .. Len(f) + 1
          /\ i - 1 \in DOMAIN f /\ j - 1 \in DOMAIN f
          /\ f[i - 1] = f[j - 1]
      BY <1>1, <2>3
    <3>2. i - 1 = j - 1
      BY <3>1 DEF IsInjective
    <3> QED
      BY <3>1, <3>2
  <2> QED
    BY <2>2, <2>3
<1> QED
  BY <1>1, <1>2, <1>3 DEF g

(* Popping the head of a non-empty free list without duplicates. *)
LEMMA Pop ==
  ASSUME NEW S, NEW f \in Seq(S), IsInjective(f), f # << >>
  PROVE  /\ Tail(f) \in Seq(S)
         /\ Head(f) \in S
         /\ ToSet(f) = {Head(f)} \cup ToSet(Tail(f))
         /\ Head(f) \notin ToSet(Tail(f))
         /\ IsInjective(Tail(f))
<1> DEFINE t == Tail(f)
<1>1. /\ t \in Seq(S)
      /\ Len(f) \in Nat /\ Len(f) >= 1
      /\ DOMAIN f = 1 .. Len(f) /\ DOMAIN t = 1 .. Len(f) - 1
      /\ Head(f) = f[1]
      /\ \A i \in 1 .. Len(f) - 1 : t[i] = f[i + 1]
      /\ \A i \in 2 .. Len(f) : f[i] = t[i - 1]
  OBVIOUS
<1> HIDE DEF t
<1>2. ToSet(f) = {Head(f)} \cup ToSet(t)
  <2>1. ASSUME NEW x \in ToSet(f)
        PROVE  x \in {Head(f)} \cup ToSet(t)
    <3>1. PICK i \in 1 .. Len(f) : x = f[i]
      BY <1>1, <2>1 DEF ToSet
    <3>2. CASE i = 1
      BY <1>1, <3>1, <3>2
    <3>3. CASE i # 1
      BY <1>1, <3>1, <3>3 DEF ToSet
    <3> QED
      BY <3>2, <3>3
  <2>2. ASSUME NEW x \in {Head(f)} \cup ToSet(t)
        PROVE  x \in ToSet(f)
    BY <1>1, <2>2 DEF ToSet
  <2> QED
    BY <2>1, <2>2
<1>3. Head(f) \notin ToSet(t)
  BY SMTT(30), <1>1 DEF ToSet, IsInjective
<1>4. IsInjective(t)
  <2> SUFFICES ASSUME NEW i \in DOMAIN t, NEW j \in DOMAIN t, t[i] = t[j]
               PROVE  i = j
    BY DEF IsInjective
  <2>1. i + 1 \in DOMAIN f /\ j + 1 \in DOMAIN f /\ f[i + 1] = f[j + 1]
    BY <1>1
  <2> QED
    BY <1>1, <2>1 DEF IsInjective
<1> QED
  BY <1>1, <1>2, <1>3, <1>4 DEF t

-----------------------------------------------------------------------------
LEMMA SizeType == size \in Nat /\ size >= 1
  BY MemBlocksAssumption DEF size, Larger

LEMMA InitInv == Init => Inv
<1> SUFFICES ASSUME Init
             PROVE  Inv
  OBVIOUS
<1>1. NeedsBlock(mem, size)
  BY SizeType, BlockSizeAssumption DEF Init, EmptyPool, NeedsBlock, MinusU
<1>2. ToSet(freeList) = {} /\ freeList \in Seq(Cells) /\ IsInjective(freeList)
  BY DEF Init, ToSet, IsInjective
<1> QED
  BY <1>1, <1>2, BlockSizeAssumption
     DEF Init, EmptyPool, Inv, TypeOK, BlockCount, CellsInside, CellsDisjoint

(* A free cell handed out again stays where it was. *)
LEMMA ReuseInv ==
  ASSUME Inv, Reuse
  PROVE  Inv'
<1>1. /\ freeList' \in Seq(Cells)
      /\ Head(freeList) \in Cells
      /\ ToSet(freeList) = {Head(freeList)} \cup ToSet(freeList')
      /\ Head(freeList) \notin ToSet(freeList')
      /\ IsInjective(freeList')
  BY Pop DEF Inv, TypeOK, CellsDisjoint, Reuse
<1>2. /\ live' \cup ToSet(freeList') = live \cup ToSet(freeList)
      /\ live' \cap ToSet(freeList') = {}
      /\ live' = live \cup {Head(freeList)}
      /\ mem' = mem /\ bmarks' = bmarks
  BY <1>1 DEF Reuse, Inv, CellsDisjoint
<1> QED
  BY <1>1, <1>2 DEF Inv, TypeOK, CellsInside, CellsDisjoint

(* A cell freed joins the list it was not on. *)
LEMMA FreeInv ==
  ASSUME Inv, NEW c \in live, Free(c)
  PROVE  Inv'
<1>1. c \in Cells /\ c \notin ToSet(freeList)
  BY DEF Inv, TypeOK, CellsDisjoint
<1>2. /\ freeList' \in Seq(Cells)
      /\ ToSet(freeList') = {c} \cup ToSet(freeList)
      /\ IsInjective(freeList')
  BY <1>1, Push DEF Inv, TypeOK, CellsDisjoint, Free
<1>3. /\ live' \cup ToSet(freeList') = live \cup ToSet(freeList)
      /\ live' \cap ToSet(freeList') = {}
      /\ live' \subseteq live
      /\ mem' = mem /\ bmarks' = bmarks
  BY <1>1, <1>2 DEF Free, Inv, CellsDisjoint
<1> QED
  BY <1>2, <1>3 DEF Inv, TypeOK, CellsInside, CellsDisjoint

(* What MemStack::allocate gives for a cell: the first bytes of a new block, or
   those at the bump pointer. *)
LEMMA CarveEffect ==
  ASSUME CellFits, Inv
  PROVE  /\ NeedsBlock(mem, size) =>
              /\ AllocatedPool(mem, size)
                   = [blocks |-> Append(mem.blocks, BlockSize), curLoc |-> size]
              /\ AllocatedCell(mem, size)
                   = [blk |-> BlockCount(mem) + 1, lo |-> 0, hi |-> size]
         /\ ~NeedsBlock(mem, size) =>
              /\ AllocatedPool(mem, size)
                   = [blocks |-> mem.blocks, curLoc |-> mem.curLoc + size]
              /\ AllocatedCell(mem, size)
                   = [blk |-> BlockCount(mem), lo |-> mem.curLoc,
                      hi |-> mem.curLoc + size]
              /\ BlockCount(mem) > 0
              /\ mem.curLoc + size <= BlockSize
<1>1. /\ mem.blocks \in Seq(Nat) /\ mem.curLoc \in 0 .. BlockSize
      /\ BlockCount(mem) \in Nat
  BY DEF Inv, TypeOK, BlockCount
<1>2. size \in Nat /\ 1 <= size /\ size <= BlockSize
  BY SizeType DEF CellFits
<1>3. CASE NeedsBlock(mem, size)
  <2>1. Larger(size, BlockSize) = BlockSize
    BY <1>2, BlockSizeAssumption DEF Larger
  <2>2. Fitted(mem, size)
          = [blocks |-> Append(mem.blocks, BlockSize), curLoc |-> 0]
    BY <2>1, <1>3 DEF Fitted, allocBlock
  <2>3. /\ Fitted(mem, size).curLoc = 0
        /\ Fitted(mem, size).blocks = Append(mem.blocks, BlockSize)
    BY <2>2
  <2>4. PlusU(Fitted(mem, size).curLoc, size) = size
    BY <2>3, <1>2, BlockSizeAssumption DEF PlusU
  <2>5. AllocatedPool(mem, size)
          = [blocks |-> Append(mem.blocks, BlockSize), curLoc |-> size]
    BY <2>3, <2>4, Zenon DEF AllocatedPool
  <2>6. AllocatedCell(mem, size)
          = [blk |-> BlockCount(mem) + 1, lo |-> 0, hi |-> size]
    BY <2>2, <1>1, <1>2 DEF AllocatedCell, BlockCount
  <2> QED
    BY <1>3, <2>5, <2>6
<1>4. CASE ~NeedsBlock(mem, size)
  <2>1. Fitted(mem, size) = mem
    BY <1>4 DEF Fitted
  <2>2. size <= BlockSize - mem.curLoc
    BY <1>4, <1>1, <1>2, BlockSizeAssumption DEF NeedsBlock, MinusU
  <2>3. PlusU(mem.curLoc, size) = mem.curLoc + size
    BY <2>2, <1>1, <1>2, BlockSizeAssumption DEF PlusU
  <2>4. AllocatedPool(mem, size)
          = [blocks |-> mem.blocks, curLoc |-> mem.curLoc + size]
    BY <2>1, <2>3 DEF AllocatedPool
  <2>5. AllocatedCell(mem, size)
          = [blk |-> BlockCount(mem), lo |-> mem.curLoc,
             hi |-> mem.curLoc + size]
    BY <2>1 DEF AllocatedCell
  <2>6. BlockCount(mem) > 0
    BY <1>4, <1>1 DEF Inv
  <2>7. mem.curLoc + size <= BlockSize
    BY <2>2, <1>1, <1>2, BlockSizeAssumption
  <2> QED
    BY <1>4, <2>4, <2>5, <2>6, <2>7
<1> QED
  BY <1>3, <1>4

(* A cell cut from the stack is apart from every cell cut before. *)
LEMMA CarveInv ==
  ASSUME CellFits, Inv, Carve
  PROVE  Inv'
<1> DEFINE cell == AllocatedCell(mem, size)
<1>1. /\ mem' = AllocatedPool(mem, size)
      /\ live' = live \cup {cell}
      /\ freeList' = freeList /\ bmarks' = bmarks
      /\ ToSet(freeList) = {}
  BY DEF Carve, ToSet
<1> HIDE DEF cell
<1>2. /\ mem' \in [blocks : Seq(Nat), curLoc : 0 .. BlockSize]
      /\ BlockCount(mem') \in {BlockCount(mem), BlockCount(mem) + 1}
      /\ BlockCount(mem') >= 1
      /\ \A i \in 1 .. BlockCount(mem') : mem'.blocks[i] >= BlockSize
      /\ \A i \in 1 .. BlockCount(mem) : mem'.blocks[i] = mem.blocks[i]
      /\ cell \in Cells
      /\ cell.blk = BlockCount(mem')
      /\ cell.lo < cell.hi
      /\ cell.hi = mem'.curLoc
      /\ BlockCount(mem') = BlockCount(mem) => cell.lo = mem.curLoc
      /\ Inside(cell, mem')
  <2>1. /\ mem.blocks \in Seq(Nat) /\ mem.curLoc \in 0 .. BlockSize
        /\ \A i \in 1 .. Len(mem.blocks) : mem.blocks[i] >= BlockSize
        /\ size \in Nat /\ 1 <= size /\ size <= BlockSize
        /\ BlockSize \in Nat
    BY SizeType, BlockSizeAssumption DEF Inv, TypeOK, CellFits, BlockCount
  <2>2. CASE NeedsBlock(mem, size)
    <3>1. /\ mem' = [blocks |-> Append(mem.blocks, BlockSize), curLoc |-> size]
          /\ cell = [blk |-> Len(mem.blocks) + 1, lo |-> 0, hi |-> size]
      BY <1>1, <2>2, CarveEffect DEF cell, BlockCount
    <3> QED
      BY <2>1, <3>1 DEF BlockCount, Cells, Inside
  <2>3. CASE ~NeedsBlock(mem, size)
    <3>1. /\ mem' = [blocks |-> mem.blocks, curLoc |-> mem.curLoc + size]
          /\ cell = [blk |-> Len(mem.blocks), lo |-> mem.curLoc,
                      hi |-> mem.curLoc + size]
          /\ Len(mem.blocks) > 0
          /\ mem.curLoc + size <= BlockSize
      BY <1>1, <2>3, CarveEffect DEF cell, BlockCount
    <3> QED
      BY <2>1, <3>1 DEF BlockCount, Cells, Inside
  <2> QED
    BY <2>2, <2>3
<1>3. BlockCount(mem') = BlockCount(mem) => ~NeedsBlock(mem, size)
  <2> SUFFICES ASSUME NeedsBlock(mem, size)
               PROVE  BlockCount(mem') # BlockCount(mem)
    OBVIOUS
  <2>1. mem'.blocks = Append(mem.blocks, BlockSize)
    BY <1>1, CarveEffect
  <2> QED
    BY <2>1, BlockSizeAssumption DEF BlockCount, Inv, TypeOK
<1>4. BlockCount(mem) \in Nat
  BY DEF Inv, TypeOK, BlockCount
<1>5. TypeOK'
  BY <1>1, <1>2 DEF Inv, TypeOK
<1>6. \A c \in live : /\ c \in Cells
                      /\ c.blk \in 1 .. BlockCount(mem)
                      /\ c.hi <= mem.blocks[c.blk]
  BY DEF Inv, TypeOK, CellsInside, Inside
<1>7. \A c \in live : Below(c, BlockCount(mem'), mem'.curLoc)
  <2> SUFFICES ASSUME NEW c \in live
               PROVE  Below(c, BlockCount(mem'), mem'.curLoc)
    OBVIOUS
  <2>1. CASE BlockCount(mem') = BlockCount(mem)
    <3>1. Below(c, BlockCount(mem), mem.curLoc)
      BY <2>1, <1>3 DEF Inv
    <3> QED
      BY <2>1, <3>1, <1>2, <1>6 DEF Below, Cells, Inv, TypeOK
  <2>2. CASE BlockCount(mem') = BlockCount(mem) + 1
    BY <2>2, <1>4, <1>6 DEF Below, Cells
  <2> QED
    BY <2>1, <2>2, <1>2
<1>8. \A c \in live : ~Overlap(c, cell) /\ ~Overlap(cell, c)
  <2> SUFFICES ASSUME NEW c \in live
               PROVE  ~Overlap(c, cell) /\ ~Overlap(cell, c)
    OBVIOUS
  <2>1. CASE BlockCount(mem') = BlockCount(mem)
    <3>1. Below(c, BlockCount(mem), mem.curLoc)
      BY <2>1, <1>3 DEF Inv
    <3> QED
      BY <2>1, <3>1, <1>2, <1>6, <1>4 DEF Below, Overlap, Cells, Inv, TypeOK
  <2>2. CASE BlockCount(mem') = BlockCount(mem) + 1
    BY <2>2, <1>2, <1>4, <1>6 DEF Overlap, Cells
  <2> QED
    BY <2>1, <2>2, <1>2
<1>9. CellsDisjoint'
  BY <1>1, <1>8 DEF Inv, CellsDisjoint
<1>10. CellsInside'
  BY SMTT(30), <1>1, <1>2, <1>4, <1>6 DEF CellsInside, Inside
<1>11. \A c \in live' \cup ToSet(freeList') :
         /\ c.blk >= 1 /\ c.lo < c.hi
         /\ Below(c, BlockCount(mem'), mem'.curLoc)
  BY <1>1, <1>2, <1>7 DEF Inv, Below
<1> QED
  BY <1>2, <1>5, <1>9, <1>10, <1>11 DEF Inv

LEMMA CreateBMarkerInv ==
  ASSUME Inv, NEW m \in BMarkers, CreateBMarker(m)
  PROVE  Inv'
<1>1. /\ mem' = mem /\ live' = live /\ freeList' = freeList
      /\ DOMAIN bmarks' = DOMAIN bmarks \cup {m}
      /\ bmarks'[m] = BlockCount(mem)
      /\ \A x \in DOMAIN bmarks : x # m => bmarks'[x] = bmarks[x]
  BY DEF CreateBMarker
<1>2. BlockCount(mem) \in Nat
  BY DEF Inv, TypeOK, BlockCount
<1> QED
  BY <1>1, <1>2 DEF Inv, TypeOK, CellsInside, CellsDisjoint

(* A careful release takes no free cell away and leaves the next cell to a
   block of its own. *)
LEMMA DestroyBMarkerInv ==
  ASSUME Careful, Inv, NEW m \in BMarkers, DestroyBMarker(m)
  PROVE  Inv'
<1> DEFINE term == bmarks[m]
<1>1. /\ term \in 0 .. Len(mem.blocks)
      /\ mem.blocks \in Seq(Nat)
      /\ mem' = [blocks |-> SubSeq(mem.blocks, 1, term), curLoc |-> mem.curLoc]
      /\ live' = {c \in live : c.blk <= term}
      /\ freeList' = freeList
      /\ DOMAIN bmarks' \subseteq DOMAIN bmarks
      /\ \A x \in DOMAIN bmarks' : bmarks'[x] = bmarks[x]
  BY DEF DestroyBMarker, freeTo, BlockCount, Inv, TypeOK
<1>2. CarefulRelease(term)
  BY DEF DestroyBMarker
<1> HIDE DEF term
<1>3. CASE term = BlockCount(mem)
  <2>1. /\ mem'.blocks = mem.blocks /\ mem'.curLoc = mem.curLoc
        /\ BlockCount(mem') = BlockCount(mem)
    BY <1>1, <1>3 DEF BlockCount
  <2>2. /\ NeedsBlock(mem', size) <=> NeedsBlock(mem, size)
        /\ live' \subseteq live
        /\ mem' \in [blocks : Seq(Nat), curLoc : 0 .. BlockSize]
    BY <1>1, <2>1 DEF NeedsBlock, Inv, TypeOK
  <2>3. TypeOK'
    BY <1>1, <2>2 DEF Inv, TypeOK
  <2>4. CellsInside' /\ CellsDisjoint'
    BY <1>1, <2>1, <2>2 DEF Inv, CellsInside, CellsDisjoint, Inside
  <2> QED
    BY <1>1, <2>1, <2>2, <2>3, <2>4 DEF Inv
<1>4. CASE term < BlockCount(mem)
  <2>1. /\ NeedsBlock(mem', size)
        /\ mem' \in [blocks : Seq(Nat), curLoc : 0 .. BlockSize]
        /\ BlockCount(mem') = term
        /\ \A i \in 1 .. term : mem'.blocks[i] = mem.blocks[i]
        /\ live' \subseteq live
        /\ \A c \in live' \cup ToSet(freeList) : c.blk <= term
    BY <1>1, <1>2, <1>4
       DEF CarefulRelease, NeedsBlock, BlockCount, Inv, TypeOK
  <2>2. TypeOK'
    BY <1>1, <2>1 DEF Inv, TypeOK
  <2>3. CellsInside'
    BY SMTT(30), <1>1, <2>1 DEF Inv, TypeOK, Cells, CellsInside, Inside, BlockCount
  <2>4. CellsDisjoint'
    BY <1>1, <2>1 DEF Inv, CellsDisjoint
  <2>5. /\ \A i \in 1 .. BlockCount(mem') : mem'.blocks[i] >= BlockSize
        /\ \A c \in live' \cup ToSet(freeList') : c.blk >= 1 /\ c.lo < c.hi
    BY <1>1, <2>1 DEF Inv, BlockCount
  <2> QED
    BY <2>1, <2>2, <2>3, <2>4, <2>5 DEF Inv
<1> QED
  BY <1>1, <1>3, <1>4 DEF BlockCount

LEMMA Inductive == CellFits /\ Careful => (Inv /\ [Next]_vars => Inv')
<1> SUFFICES ASSUME CellFits, Careful, Inv, [Next]_vars
             PROVE  Inv'
  OBVIOUS
<1>1. CASE Reuse
  BY <1>1, ReuseInv
<1>2. CASE Carve
  BY <1>2, CarveInv
<1>3. ASSUME NEW c \in live, Free(c)
      PROVE  Inv'
  BY <1>3, FreeInv
<1>4. ASSUME NEW m \in BMarkers, CreateBMarker(m)
      PROVE  Inv'
  BY <1>4, CreateBMarkerInv
<1>5. ASSUME NEW m \in BMarkers, DestroyBMarker(m)
      PROVE  Inv'
  BY <1>5, DestroyBMarkerInv
<1>6. CASE UNCHANGED vars
  BY <1>6 DEF vars, Inv, TypeOK, CellsInside, CellsDisjoint
<1> QED
  BY <1>1, <1>2, <1>3, <1>4, <1>5, <1>6 DEF Next

(* The inductive invariant holds, if a block holds a cell and BMarkers are
   destroyed carefully. *)
THEOREM MemBlocksInv == CellFits /\ Careful => (Spec => []Inv)
<1> SUFFICES ASSUME CellFits /\ Careful
             PROVE  Spec => []Inv
  OBVIOUS
<1>1. Inv /\ [Next]_vars => Inv'
  BY Inductive
<1> QED
  BY <1>1, InitInv, PTL DEF Spec

(* Free cells and cells in use lie in blocks the pool owns: neither allocate
   nor free ever touches memory given back to the heap. *)
THEOREM MemBlocksInside == CellFits /\ Careful => (Spec => []CellsInside)
<1> SUFFICES ASSUME CellFits /\ Careful
             PROVE  Spec => []CellsInside
  OBVIOUS
<1>1. Inv => CellsInside
  BY DEF Inv
<1> QED
  BY <1>1, MemBlocksInv, PTL

(* No cell is in two hands, on the free list twice, or in both places. *)
THEOREM MemBlocksDisjoint == CellFits /\ Careful => (Spec => []CellsDisjoint)
<1> SUFFICES ASSUME CellFits /\ Careful
             PROVE  Spec => []CellsDisjoint
  OBVIOUS
<1>1. Inv => CellsDisjoint
  BY DEF Inv
<1> QED
  BY <1>1, MemBlocksInv, PTL

-----------------------------------------------------------------------------
(* Whole numbers of cells. *)
LEMMA WholeCells ==
  ASSUME NEW s \in Nat, s >= 1, NEW a \in Nat
  PROVE  /\ a \div s \in Nat
         /\ (a \div s) * s <= a
         /\ a < (a \div s + 1) * s
  OBVIOUS

LEMMA CellsOf ==
  ASSUME NEW s \in Nat, s >= 1, NEW k \in Nat, NEW a \in Nat,
         k * s <= a, a < (k + 1) * s
  PROVE  a \div s = k
  OBVIOUS

(* The cells of block b that lie below its k-th one. *)
CutCells(b, k) ==
  {[blk |-> b, lo |-> j * size, hi |-> (j + 1) * size] : j \in 0 .. k - 1}

(* What a block that is full has been cut into. *)
PerBlock == BlockSize \div size

LEMMA PerBlockFits ==
  /\ PerBlock \in Nat
  /\ PerBlock * size <= BlockSize
  /\ BlockSize < (PerBlock + 1) * size
  BY SizeType, WholeCells, BlockSizeAssumption DEF PerBlock

(* Cutting one more cell. *)
LEMMA CutOneMore ==
  ASSUME NEW b \in Nat, NEW k \in Nat
  PROVE  CutCells(b, k + 1) =
           CutCells(b, k)
             \cup {[blk |-> b, lo |-> k * size, hi |-> (k + 1) * size]}
<1>1. 0 .. (k + 1) - 1 = (0 .. k - 1) \cup {k}
  OBVIOUS
<1> QED
  BY <1>1 DEF CutCells

(* A pool every block of which has been cut into whole cells, the top one into
   k of them. *)
WholePool(pool, k) ==
  /\ pool.blocks \in Seq(Nat)
  /\ \A i \in 1 .. BlockCount(pool) : pool.blocks[i] = BlockSize
  /\ k \in Nat
  /\ pool.curLoc = k * size

(* What NothingLost counts in such a pool, block by block. *)
LEMMA CutFromBlocks ==
  ASSUME NEW pool, NEW k, WholePool(pool, k),
         NEW b \in 1 .. BlockCount(pool)
  PROVE  /\ b < BlockCount(pool) => CutFrom(pool, b) = CutCells(b, PerBlock)
         /\ b = BlockCount(pool) => CutFrom(pool, b) = CutCells(b, k)
<1>1. BlockCount(pool) \in Nat /\ pool.blocks[b] = BlockSize
  BY DEF WholePool, BlockCount
<1>2. CASE b < BlockCount(pool)
  BY <1>1, <1>2 DEF CutFrom, CutCells, PerBlock
<1>3. CASE b = BlockCount(pool)
  <2>1. /\ k \in Nat /\ pool.curLoc \in Nat
        /\ k * size <= pool.curLoc /\ pool.curLoc < (k + 1) * size
    BY SizeType DEF WholePool
  <2>2. pool.curLoc \div size = k
    BY <2>1, SizeType, CellsOf
  <2> QED
    BY <1>3, <2>2 DEF CutFrom, CutCells
<1> QED
  BY <1>1, <1>2, <1>3

(* Such a pool whose top block has no room for a cell is full. *)
LEMMA FullAtTheEnd ==
  ASSUME NEW pool, NEW k, WholePool(pool, k), pool.curLoc \in 0 .. BlockSize,
         NeedsBlock(pool, size)
  PROVE  k = PerBlock
<1>1. size > BlockSize - pool.curLoc
  BY BlockSizeAssumption DEF NeedsBlock, MinusU
<1>2. k \in Nat /\ k * size <= BlockSize /\ BlockSize < (k + 1) * size
  BY <1>1, SizeType, BlockSizeAssumption DEF WholePool
<1> QED
  BY <1>2, CellsOf, SizeType, BlockSizeAssumption DEF PerBlock

(* The cells of a pool that is full. *)
LEMMA AllCutOfFull ==
  ASSUME NEW pool, WholePool(pool, PerBlock)
  PROVE  AllCut(pool) =
           UNION {CutCells(b, PerBlock) : b \in 1 .. BlockCount(pool)}
<1>1. BlockCount(pool) \in Nat
  BY DEF WholePool, BlockCount
<1>2. \A b \in 1 .. BlockCount(pool) : CutFrom(pool, b) = CutCells(b, PerBlock)
  BY <1>1, CutFromBlocks
<1> QED
  BY <1>2 DEF AllCut

(* Cutting a cell from the top block, and from a new one, adds that cell. *)
LEMMA CutAnother ==
  ASSUME NEW pool, NEW k, WholePool(pool, k), BlockCount(pool) > 0,
         NEW next, WholePool(next, k + 1), BlockCount(next) = BlockCount(pool)
  PROVE  AllCut(next) =
           AllCut(pool) \cup {[blk |-> BlockCount(pool), lo |-> k * size,
                               hi |-> (k + 1) * size]}
<1> DEFINE n == BlockCount(pool)
           cell == [blk |-> n, lo |-> k * size, hi |-> (k + 1) * size]
<1>1. n \in Nat /\ k \in Nat /\ BlockCount(next) = n
  BY DEF WholePool, BlockCount
<1>2. \A b \in 1 .. n : b # n => CutFrom(next, b) = CutFrom(pool, b)
  <2> SUFFICES ASSUME NEW b \in 1 .. n, b # n
               PROVE  CutFrom(next, b) = CutFrom(pool, b)
    OBVIOUS
  <2>1. b < n
    BY <1>1
  <2>2. CutFrom(pool, b) = CutCells(b, PerBlock)
    BY <2>1, CutFromBlocks
  <2>3. CutFrom(next, b) = CutCells(b, PerBlock)
    BY <2>1, <1>1, CutFromBlocks
  <2> QED
    BY <2>2, <2>3
<1>3. CutFrom(next, n) = CutFrom(pool, n) \cup {cell}
  <2>1. CutFrom(pool, n) = CutCells(n, k)
    BY <1>1, CutFromBlocks
  <2>2. CutFrom(next, n) = CutCells(n, k + 1)
    BY <1>1, CutFromBlocks
  <2> QED
    BY <2>1, <2>2, <1>1, CutOneMore
<1>4. n \in 1 .. n
  BY <1>1
<1> HIDE DEF n, cell
<1>5. AllCut(next) = UNION {CutFrom(next, b) : b \in 1 .. n}
  BY <1>1 DEF AllCut
<1>6. AllCut(pool) = UNION {CutFrom(pool, b) : b \in 1 .. n}
  BY DEF AllCut, n
<1>7. AllCut(next) = AllCut(pool) \cup {cell}
  BY <1>2, <1>3, <1>4, <1>5, <1>6
<1> QED
  BY <1>7 DEF n, cell

LEMMA CutFirst ==
  ASSUME NEW pool, WholePool(pool, PerBlock) \/ BlockCount(pool) = 0,
         pool.blocks \in Seq(Nat),
         NEW next, WholePool(next, 1),
         BlockCount(next) = BlockCount(pool) + 1
  PROVE  AllCut(next) =
           AllCut(pool)
             \cup {[blk |-> BlockCount(pool) + 1, lo |-> 0, hi |-> size]}
<1> DEFINE n == BlockCount(pool)
           cell == [blk |-> n + 1, lo |-> 0, hi |-> size]
<1>1. n \in Nat /\ BlockCount(next) = n + 1
  BY DEF BlockCount
<1>2. \A b \in 1 .. n : CutFrom(next, b) = CutFrom(pool, b)
  <2> SUFFICES ASSUME NEW b \in 1 .. n
               PROVE  CutFrom(next, b) = CutFrom(pool, b)
    OBVIOUS
  <2>1. WholePool(pool, PerBlock)
    BY <1>1
  <2>2. CutFrom(pool, b) = CutCells(b, PerBlock)
    BY <1>1, <2>1, CutFromBlocks
  <2>3. CutFrom(next, b) = CutCells(b, PerBlock)
    BY <1>1, CutFromBlocks
  <2> QED
    BY <2>2, <2>3
<1>3. CutFrom(next, n + 1) = {cell}
  <2>1. CutFrom(next, n + 1) = CutCells(n + 1, 1)
    BY <1>1, CutFromBlocks
  <2>2. 0 .. 1 - 1 = {0} /\ 0 * size = 0 /\ (0 + 1) * size = size
    BY SizeType
  <2>3. CutCells(n + 1, 1) = {cell}
    BY <2>2 DEF CutCells
  <2> QED
    BY <2>1, <2>3
<1>4. 1 .. n + 1 = (1 .. n) \cup {n + 1}
  BY <1>1
<1> HIDE DEF n, cell
<1>5. AllCut(next) = UNION {CutFrom(next, b) : b \in (1 .. n) \cup {n + 1}}
  BY <1>1, <1>4 DEF AllCut
<1>6. AllCut(pool) = UNION {CutFrom(pool, b) : b \in 1 .. n}
  BY DEF AllCut, n
<1>7. AllCut(next) = AllCut(pool) \cup {cell}
  BY <1>2, <1>3, <1>5, <1>6
<1> QED
  BY <1>7 DEF n, cell

-----------------------------------------------------------------------------
LEMMA InitCut == Init => CutInv
<1> SUFFICES ASSUME Init
             PROVE  CutInv
  OBVIOUS
<1>1. BlockCount(mem) = 0 /\ live = {} /\ ToSet(freeList) = {}
  BY DEF Init, EmptyPool, BlockCount, ToSet
<1>2. AllCut(mem) = {}
  BY <1>1 DEF AllCut
<1> QED
  BY <1>1, <1>2 DEF CutInv, NothingLost

(* The cells and the pool of a step that moves cells between the clients and
   the free list are the same. *)
LEMMA SamePoolCut ==
  ASSUME CutInv, mem' = mem,
         live' \cup ToSet(freeList') = live \cup ToSet(freeList)
  PROVE  CutInv'
  BY DEF CutInv, NothingLost

(* Carving a cell gives the client the one cell that was cut. *)
LEMMA CarveCut ==
  ASSUME CellFits, Careful, Inv, CutInv, Carve
  PROVE  CutInv'
<1> DEFINE cell == AllocatedCell(mem, size)
<1>1. /\ mem' = AllocatedPool(mem, size)
      /\ live' = live \cup {cell}
      /\ ToSet(freeList) = {} /\ ToSet(freeList') = {}
  BY DEF Carve, ToSet
<1>2. /\ mem \in [blocks : Seq(Nat), curLoc : 0 .. BlockSize]
      /\ mem.blocks \in Seq(Nat) /\ mem.curLoc \in 0 .. BlockSize
      /\ BlockCount(mem) \in Nat
      /\ \A i \in 1 .. BlockCount(mem) : mem.blocks[i] = BlockSize
  BY DEF Inv, TypeOK, CutInv, BlockCount
<1>3. live = AllCut(mem)
  BY <1>1 DEF CutInv, NothingLost
<1>4. size \in Nat /\ 1 <= size /\ size <= BlockSize
  BY SizeType DEF CellFits
<1>5. CASE NeedsBlock(mem, size)
  <2>1. mem' = [blocks |-> Append(mem.blocks, BlockSize), curLoc |-> size]
    BY <1>1, <1>5, CarveEffect
  <2>2. cell = [blk |-> BlockCount(mem) + 1, lo |-> 0, hi |-> size]
    BY <1>5, CarveEffect
  <2>3. /\ WholePool(mem', 1)
        /\ BlockCount(mem') = BlockCount(mem) + 1
    BY <2>1, <1>2, <1>4, BlockSizeAssumption DEF WholePool, BlockCount
  <2>4. WholePool(mem, PerBlock) \/ BlockCount(mem) = 0
    <3> SUFFICES ASSUME BlockCount(mem) # 0
                 PROVE  WholePool(mem, PerBlock)
      OBVIOUS
    <3>1. PICK k \in 0 .. BlockSize : mem.curLoc = k * size
      BY <1>2 DEF CutInv
    <3>2. WholePool(mem, k)
      BY <3>1, <1>2 DEF WholePool
    <3> QED
      BY <3>2, <1>2, <1>5, FullAtTheEnd
  <2>5. live' \cup ToSet(freeList') = AllCut(mem')
    BY <1>1, <1>2, <1>3, <2>2, <2>3, <2>4, CutFirst
  <2>6. 1 \in 0 .. BlockSize /\ mem'.curLoc = 1 * size
    <3>1. mem'.curLoc = size
      BY <2>1
    <3> QED
      BY <3>1, <1>4, BlockSizeAssumption
  <2> QED
    BY <2>3, <2>5, <2>6 DEF CutInv, NothingLost, WholePool
<1>6. CASE ~NeedsBlock(mem, size)
  <2>1. /\ mem' = [blocks |-> mem.blocks, curLoc |-> mem.curLoc + size]
        /\ cell = [blk |-> BlockCount(mem), lo |-> mem.curLoc,
                    hi |-> mem.curLoc + size]
        /\ BlockCount(mem) > 0
        /\ mem.curLoc + size <= BlockSize
    BY <1>1, <1>6, CarveEffect
  <2>2. PICK k \in 0 .. BlockSize : mem.curLoc = k * size
    BY <2>1 DEF CutInv
  <2>3. mem.curLoc + size = (k + 1) * size
    BY <2>2, <1>4, BlockSizeAssumption
  <2>4. /\ WholePool(mem, k) /\ WholePool(mem', k + 1)
        /\ BlockCount(mem') = BlockCount(mem)
    BY <2>1, <2>2, <2>3, <1>2 DEF WholePool, BlockCount
  <2>5. live' \cup ToSet(freeList') = AllCut(mem')
    <3>1. cell = [blk |-> BlockCount(mem), lo |-> k * size,
                  hi |-> (k + 1) * size]
      BY <2>1, <2>2, <2>3
    <3>2. AllCut(mem') = AllCut(mem) \cup {cell}
      BY <3>1, <2>1, <2>4, CutAnother
    <3> QED
      BY <3>2, <1>1, <1>3
  <2>6. k + 1 \in 0 .. BlockSize
    <3>1. /\ (k + 1) * size <= BlockSize
      BY <2>1, <2>3, <1>2, <1>4, BlockSizeAssumption
    <3>2. k + 1 <= (k + 1) * size
      BY <1>4, BlockSizeAssumption
    <3> QED
      BY <3>1, <3>2, <1>4, BlockSizeAssumption
  <2>7. mem'.curLoc = (k + 1) * size
    BY <2>1, <2>3
  <2> QED
    BY <2>4, <2>5, <2>6, <2>7 DEF CutInv, NothingLost, WholePool
<1> QED
  BY <1>5, <1>6

(* A careful release takes whole blocks away, and every cell left is still in
   a client's hands or on the free list: the next block on top is full. *)
LEMMA DestroyBMarkerCut ==
  ASSUME CellFits, Careful, Inv, CutInv, NEW m \in BMarkers, DestroyBMarker(m)
  PROVE  CutInv'
<1> DEFINE term == bmarks[m]
<1>1. /\ term \in 0 .. BlockCount(mem)
      /\ BlockCount(mem) \in Nat
      /\ mem.blocks \in Seq(Nat)
      /\ mem.curLoc \in 0 .. BlockSize
      /\ mem \in [blocks : Seq(Nat), curLoc : 0 .. BlockSize]
      /\ mem' = [blocks |-> SubSeq(mem.blocks, 1, term), curLoc |-> mem.curLoc]
      /\ live' = {c \in live : c.blk <= term}
      /\ freeList' = freeList
  BY DEF DestroyBMarker, freeTo, BlockCount, Inv, TypeOK
<1>2. CarefulRelease(term)
  BY DEF DestroyBMarker
<1>3. live \cup ToSet(freeList) = AllCut(mem)
  BY DEF CutInv, NothingLost
<1>4. \A c \in live \cup ToSet(freeList) : c.blk \in 1 .. BlockCount(mem)
  BY DEF Inv, CellsInside, Inside
<1> HIDE DEF term
<1>5. CASE term = BlockCount(mem)
  <2>1. SubSeq(mem.blocks, 1, term) = mem.blocks
    BY <1>1, <1>5 DEF BlockCount
  <2>2. mem' = mem
    BY <1>1, <2>1
  <2>3. live' = live
    BY <1>1, <1>4, <1>5
  <2> QED
    BY <1>1, <2>2, <2>3 DEF CutInv, NothingLost
<1>6. CASE term < BlockCount(mem)
  <2>1. /\ \A c \in ToSet(freeList) : c.blk <= term
        /\ NeedsBlock(mem, size)
    BY <1>2, <1>1, <1>6 DEF CarefulRelease
  <2>2. /\ mem'.blocks \in Seq(Nat) /\ mem'.curLoc = mem.curLoc
        /\ BlockCount(mem') = term
        /\ \A i \in 1 .. term : mem'.blocks[i] = BlockSize
    BY <1>1, <1>6 DEF BlockCount, CutInv
  <2>3. PICK k \in 0 .. BlockSize : mem.curLoc = k * size
    BY <1>1, <1>6 DEF CutInv
  <2>4. WholePool(mem, k)
    BY <1>1, <2>3 DEF WholePool, CutInv
  <2>5. k = PerBlock
    BY <1>1, <2>1, <2>4, FullAtTheEnd
  <2>6. WholePool(mem, PerBlock) /\ WholePool(mem', PerBlock)
    BY <2>2, <2>3, <2>4, <2>5 DEF WholePool
  <2>7. AllCut(mem) = UNION {CutCells(b, PerBlock) : b \in 1 .. BlockCount(mem)}
    BY <2>6, AllCutOfFull
  <2>8. AllCut(mem') = UNION {CutCells(b, PerBlock) : b \in 1 .. term}
    BY <2>2, <2>6, AllCutOfFull
  <2>9. \A b \in 1 .. BlockCount(mem) : \A c : c \in CutCells(b, PerBlock) => c.blk = b
    BY DEF CutCells
  <2>10. AllCut(mem') = {c \in AllCut(mem) : c.blk <= term}
    BY <2>7, <2>8, <2>9, <1>1
  <2>11. live' \cup ToSet(freeList') = AllCut(mem')
    BY <2>10, <2>1, <1>1, <1>3
  <2> QED
    BY <2>2, <2>3, <2>11 DEF CutInv, NothingLost
<1> QED
  BY <1>1, <1>5, <1>6

LEMMA CutInductive ==
  CellFits /\ Careful => (Inv /\ CutInv /\ [Next]_vars => CutInv')
<1> SUFFICES ASSUME CellFits, Careful, Inv, CutInv, [Next]_vars
             PROVE  CutInv'
  OBVIOUS
<1>1. CASE Reuse
  <2>1. /\ ToSet(freeList) = {Head(freeList)} \cup ToSet(Tail(freeList))
        /\ freeList' = Tail(freeList)
        /\ live' = live \cup {Head(freeList)}
        /\ mem' = mem
    BY <1>1, Pop DEF Inv, TypeOK, CellsDisjoint, Reuse
  <2> QED
    BY <2>1, SamePoolCut
<1>2. CASE Carve
  BY <1>2, CarveCut
<1>3. ASSUME NEW c \in live, Free(c)
      PROVE  CutInv'
  <2>1. c \in Cells /\ c \notin ToSet(freeList)
    BY DEF Inv, TypeOK, CellsDisjoint
  <2>2. /\ ToSet(freeList') = {c} \cup ToSet(freeList)
        /\ live' = live \ {c}
        /\ mem' = mem
    BY <1>3, <2>1, Push DEF Inv, TypeOK, CellsDisjoint, Free
  <2> QED
    BY <2>2, SamePoolCut
<1>4. ASSUME NEW m \in BMarkers, CreateBMarker(m)
      PROVE  CutInv'
  BY <1>4, SamePoolCut DEF CreateBMarker
<1>5. ASSUME NEW m \in BMarkers, DestroyBMarker(m)
      PROVE  CutInv'
  BY <1>5, DestroyBMarkerCut
<1>6. CASE UNCHANGED vars
  BY <1>6, SamePoolCut DEF vars
<1> QED
  BY <1>1, <1>2, <1>3, <1>4, <1>5, <1>6 DEF Next

(* Every cell ever cut from a block the pool owns is in a client's hands or on
   the free list: allocate, free and careful releases lose none. *)
THEOREM MemBlocksNothingLost == CellFits => (Spec => []NothingLost)
<1>1. CASE CellFits /\ Careful
  <2>1. Inv /\ CutInv /\ [Next]_vars => CutInv'
    BY <1>1, CutInductive
  <2>2. CutInv => NothingLost
    BY DEF CutInv
  <2> QED
    BY <1>1, <2>1, <2>2, InitCut, MemBlocksInv, PTL DEF Spec
<1>2. CASE ~Careful
  <2>1. NothingLost
    BY <1>2 DEF NothingLost
  <2> QED
    BY <2>1, PTL
<1> QED
  BY <1>1, <1>2
=============================================================================
