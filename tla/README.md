# Models, checks and proofs for the programs in this repository

The repository collects MS-DOS compilers. Nearly all of it is executables,
object libraries, help files and headers that declare what the libraries hold.
Three parts come as source with logic of their own:

- the container class library of Turbo C++ (`src/tcpp/classlib`), documented in
  `src/tcpp/doc/classlib.doc`;
- the red-black tree behind `set`, `map`, `multiset` and `multimap` of Open
  Watcom, which is all in a header (`src/watcom/h/_rbtree.h`);
- MicroCalc, the spreadsheet that came with Turbo C (`src/tc/mc*.c`), documented
  in `src/tc/mcalc.doc`.

This directory models them in TLA+, checks the models with TLC and proves
theorems about some of them with TLAPS. Below, `source/` and `include/` stand
for `src/tcpp/classlib/source/` and `src/tcpp/classlib/include/`.

All of it is sequential. What is hard in it is not concurrency but history: long
sequences of legal calls that leave a structure in a state nobody tried, cached
values (counts, offsets, saved positions, flags, iterators) that are stale when
used, loops that change what they count by, limits and wrap-around, a heap that
refuses, and who deletes what. There are no threads, timers or messages; the
only persistent state is a sheet saved to a file.

## 1. Inventory

| Component | State it keeps | Operations | What makes it correct |
|---|---|---|---|
| MemStack, Marker (`memmgr.h/.cpp`) | a stack of heap blocks, a bump pointer into the top one; a Marker saves both | `allocate`, Marker construction and destruction, which pops blocks | cells in use stay in owned memory and apart; destroying a marker releases just what came after it |
| MemBlocks, BMarker (`memmgr.h/.cpp`) | a MemStack, a free list threaded through freed cells; BMarker saves a block count | `allocate`, `free`, BMarker construction and destruction | a cell has one owner at a time, none is lost, none lies in released memory |
| Btree (`btree.h`, `btree.cpp`, `btreeinn.cpp`, `btreelfn.cpp`) | leaf and inner nodes with parent pointers, counts in every item, the total | `add`, `detach`, `flush`, `operator[]`, `rank`, `i_add`, `found`; inside: split, share, merge, root growing and shrinking | contents, order, counts, parent links, equal depth and fill survive every cascade; no internal check fails |
| PriorityQueue (`priortyq.h`) | a Btree whose objects may compare equal | `put`, `get`, `peekLeft`, `detachLeft`, `flush` | objects come out by priority, and what is returned is what leaves |
| Deques and queues as vectors (`deques.h`, `queues.h`, `vectimp.h`, `shddel.h`) | a ring of slots with two indices, ownership flag; iterators copy the indices | `putLeft/Right`, `getLeft/Right`, `flush`, `ownsElements`, iterators, `forEach`, `firstThat`, `lastThat` | the ring is a two-ended sequence, objects are deleted once and never while in use, a walk visits all |
| Vectors, and arrays, bags, sets as vectors (`vectimp.h`, `arrays.h`, `bags.h`, `sets.h`, `bsortary.cpp`) | slots, limit, growth delta, count, ownership | `resize`, `add`, `addAt`, `detach`, `find`, `flush`, sorted insertion, binary search | no write past the end, no object lost or twice, sorted order, a search that is right and ends |
| List, DoubleList (`list.cpp`, `dbllist.cpp`) | linked elements between sentinels, from one MemBlocks per class; iterators point at elements | `add`, `detach`, `flush`, searches with a sentinel, iterators | links, pool and counts agree after searches for what is not there; an iterator misses nothing while its client goes on |
| Stack, Deque, Queue (`stack.cpp`, `deque.cpp`, `queue.h`) | a list and a count kept beside it | `push`, `pop`, `put`, `get`, `flush` | two-ended sequences; ownership |
| HashTable, Bag, Set, Dictionary, Association (`hashtbl.cpp`, ...) | vector of lists made on demand, count, ownership; an iterator over both levels | `add`, `detach`, `findMember`, `flush`, iterator | nothing lost, ownership handed to the buckets, every object visited once, the walk ends |
| Object, Container, Collection | none; abstract | `forEach`, `firstThat`, `isEqual`, `printOn` loops over iterators | the loops are walks of the iterators |
| Tree of Open Watcom (`_rbtree.h`) | nodes with a colour in the parent word, first, last and size; for multisets a ring of list nodes behind each tree node | find, bounds, insertion with and without hint, erase, clear, copy; iterators | ordered, balanced, sane between operations, every loop ends, half a copy is freed |
| MicroCalc, parser (`mcparser.c`) | a stack of tokens and the token looked at | one formula | accepts just the grammar of `mcalc.doc`, builds its tree, ends |
| MicroCalc, window (`mcalc.c`, `mcommand.c`, `mcutil.c`) | first and last column and row shown, the cursor, widths | keys, goto, column width | the cursor is in the window, the columns shown fit |
| MicroCalc, sheet (`mcommand.c`, `mcutil.c`) | cells, memory left, last column and row in use, overwrite flags | enter, delete, insert and delete columns and rows, widths, recalculation, clear, save, load | memory, flags, formulas and moved cells agree |
| *not modelled:* lists of the template library (`listimp.h`, `dlistimp.h`), `abstarry.cpp`, String, Date, Time, Timer, Sortable, the C86 run-time library, Open Watcom's other headers, BGI demonstration, start-up assembly, binaries | | | section 5 |

Interactions. MemBlocks is built on MemStack and is the pool of list elements;
PriorityQueue is a thin client of Btree and inherits its search by equality;
Stack, Deque and Queue are clients of lists, Queue is Deque with `put` =
`putLeft` and `get` = `getRight`; HashTable, Bag, Set and Dictionary are a
vector of lists and walk both levels; the ring stores its pointers in a vector,
whose iterator it uses twice per walk; containers call `delObj` of TShouldDelete
to decide whether a flush or a detach deletes. MicroCalc's `run` reads a key and
calls the window or a command; a command that enters a cell calls the parser,
whose result and attribute it stores; loading and recalculation call the parser
for every formula. All of these are direct calls.

`PROJECT.json` lists, under "hazards", every place found where this goes wrong
in a way a test would hardly reach, with the properties that cover it.

## 2. Modules

```
MemMgr -+- MemStack --+--- Memory                 allocation
        +- MemBlocks -+--- MemProofs
BtreeNodes - BtreeOps - BtreeShape                B-tree
                            +- Btree              distinct objects, any order
                            +- PriorityQueue      equal objects
DequeSpec <-(refinement)- Deque - DequeIterator - MCDeque
    ^                                +----------- DequeProofs
    +-----(refinement)- ObjectLists - MCObjectLists
                          |    +----------------- ObjectListsProofs
List - DoubleList --------+                       lists, stack, deque, queue
  +--- HashTable - MCHashTable                    bags and sets
           +------------------------------------- HashTableProofs
VectorSearch - Vectors - MCVectors                arrays, bags, sets as vectors
                  +------------------------------ VectorsProofs
RbTree - MultiTree -(refinement)-> OrderedMulti   Open Watcom's tree
             +----------------------------------- TreeProofs
CalcGrammar - CalcParser -+
CalcScreen ---------------+- MicroCalc            MicroCalc
CalcSheet ----------------+
    +-------------------------------------------- CalcProofs
Induction                                         lemmas of the last five
```

**MemMgr** holds the arithmetic as operators on a pool (`blocks`, the sizes of
the heap blocks, and `curLoc`). `size_t` is kept as a word: `MinusU` and `PlusU`
wrap at `WordSize`. `allocBlock`, `freeTo`, `AllocatedPool` are the functions of
`memmgr.cpp`. A cell is `[blk, lo, hi]`, not an address.

**MemStack** adds the clients: `Allocate`, `CreateMarker`, `DestroyMarker`.
Markers may be destroyed in any order the destructor's PRECONDITION lets pass,
not only as a stack. `inUse` is the view of the documentation: the cells that no
destroyed marker has released; a marker records which of them preceded it
(`before`), for the properties only. A refused block is an `Allocate` that is
not enabled, because the code then changes nothing and returns 0. Destroying a
MemStack ends its history and is not an action.

A request is assumed to fit a block in what is proved, and does so in the run:
see "Defects that the models keep" in section 3.

**MemBlocks** adds the free list and `Reuse`, `Carve` (the two branches of
`allocate`), `Free`, `CreateBMarker`, `DestroyBMarker`. BMarker repairs neither
the free list nor the bump pointer; the constant `Careful` says whether clients
destroy it only when that does no harm (`CarefulRelease`) or whenever its
PRECONDITION holds. Clients free what they hold, once. **Memory** is the
instance of both: a behaviour runs one of them.

**BtreeNodes** is the heap of nodes as a function from addresses to records, and
the primitives that move items between siblings; **BtreeOps** the operations
that walk the tree, with the recursion of `isFull`, `splitWith`, `isLow`,
`removeItem` as in the code. Each operator takes a tree and returns the tree
after it. Every PRECONDITION and CHECK goes through `Checked`: the first that
fails clears `ok` and nothing happens any more, as `__assertfail` ends the
program; `Then` passes a tree on to the next step if no check has failed. The
hidden key of inner nodes (index 0) is kept, stale values included, since the
code copies it about. Moves of arrays item by item are sequence operations.

**BtreeShape** says what a tree should look like, from the ten properties in the
comment at `source/btree.cpp:41`, with one difference: how few keys an inner node
may have is the code's (`btree.cpp:203`), which is less than the comment's; see
"Defects that the models keep" in section 3.

**Btree** is a client with distinct objects. Only their order matters to the
code, so the n objects of a tree are named 1..n and renamed when one comes or
goes, and node addresses are dropped from the view (`AddressFree`): a state is a
shape. Object o has key 2o, the odd keys are absent ones to search for. A
pointer left behind in a hidden key to a detached object becomes Null, so a
stale key that surfaces is an error `TypeOK` and `HoldsItsObjects` see.

**PriorityQueue** uses the same operators with objects that compare equal, and
the history `given` of what `get` returned. `peekLeft` reads what `get` reads
and changes nothing.

**DequeSpec** is the promise: a sequence with two ends and a capacity. **Deque**
is the ring with ownership: `alive` are the objects that exist, `held` those
clients must see to. A slot that was got keeps its pointer, as in the code.
**DequeIterator** adds a walk in the loop `Container::forEach`, `isEqual` and
`printOn` use, `while( it != 0 ) ... it++`, with the two blocks the iterator
makes of a ring that wraps and the null slots the vector's iterator passes over.

**List** is the pool and the singly linked list. Every list has two sentinels;
the elements between them come from one pool, whose free list runs through the
`next` of freed elements, so that a freed element points into the free list and
is the first to be used again, as in the code. A search puts the object sought
in the tail sentinel; `detach` of what is absent finds that sentinel and unlinks
it, which does nothing since it is its own successor. `Detach` is the whole of
`detach`, with the decrement of the count that only a real element causes.

**DoubleList** adds `prev` and the search from either end; **ObjectLists** makes
of both the containers List, DoubleList, Stack, Deque and Queue, one of which a
behaviour has. `itemsInContainer` is the count Stack, Deque and Queue keep
beside the list's own; the gets of an empty container, and a flush, leave it as
the code does. The iterator may go either way and be restarted while its client
adds and detaches, as long as the client leaves the iterator's element alone. A
restart goes back to the element the iterator was made at, and `WalkIsWhole` asks
of it what the code gives: the objects from there on.
For the last three kinds, `Ends` is DequeSpec with the objects of the list as
its items, and `AreEnds` is the refinement.

**HashTable** is the table of a Bag or a Set over lists of List. The iterator is
a small machine of its own (`none`, `ready`, in the loop of `scan`), one turn of
a loop a step, and the client goes on in between. `due` and `done` record, for
the properties only, the objects the walk has to return and has returned. What
the client hashes and compares is in a constant, one record for each kind of
client; `HashTableAssumption` asks that objects which compare equal have equal
hash values, without which no hash table finds what it holds.

**VectorSearch** is the binary search of sorted vectors, one turn of its loop a
step, with unsigned indexes: `UIntMax` is the answer "not found" and what zero
minus one is. `tested` tells the form of `BI_ISObjectVector` (`bsortary.cpp`)
that has one more test from that of `BI_SVectorImp` (`vectimp.h`). **Vectors**
is an array, bag, set or sorted array of pointers that grows by `delta`:
`resize`, `add`, `addAt`, `detach` by index and by value (for sorted ones at the
end of a search), `flush`, and who deletes what. A write past the end makes the
function `data` longer than the vector, which `Packed` sees.

**RbTree** is the tree of Open Watcom down to its links. A node is named by its
key, which it keeps all its life. A search is one step; the loops that rebalance
after insertion and erasure, that clear, and that copy take one step a turn,
with the node and side they carry in `n` and `lefty`. The copy constructor may
meet a failing allocation at every node. **MultiTree** puts a ring of equal
elements behind each node. **OrderedMulti** is its promise: a sequence sorted by
key, an element inserted after its equals or as near to its hint as order
allows; `IsOrdered` is the refinement. A node of a multiset whose ring empties
is erased in the loop of RbTree, during which nothing else happens and the
abstract sequence stutters.

**CalcGrammar** is the grammar in `mcalc.doc`, as the set of trees of a sequence
of tokens; nothing of the tables is in it. **CalcParser** is the loop and the
tables of `mcparser.c`: the next token is chosen when the parser asks for it, a
value is the tree of the operations that would compute it. `errno`, never
cleared, makes all later numbers bad.

**CalcScreen** is the window: the columns that fit the screen, counted from the
left or from the right, and each key and command that moves the cursor or
changes a width. The columns of the names typed at goto are the constant
`NamedCols`; `getcell` lets negative ones pass. From a column before the first the
widths read are any bytes (`setBothBefore`), and the model follows the program no
further.

**CalcSheet** is the sheet. A formula is the name of one cell, which has a
length, so that it can grow from one letter or digit to two. Every operator
takes a sheet and returns the sheet after it, reading `lastcol` and `lastrow`
where the code does: the loops are folds whose body looks at the sheet of the
turn before. `Contents` is what a cell can hold; what users type and what is in a
file are of it, by assumption. `memleft` is charged and refunded cell by cell.
`CanChange` and `Harmless` keep users from inserting or deleting a column or row
where the code is known to go wrong (below), and `Unsplit` from inserting a column
at a flag left past the end of its text, so that what else could go wrong is
seen. `Careless` lifts `Harmless`, `Splitting` lifts `Unsplit`.

**MicroCalc** puts the parts side by side. `run` serves one key at a time and
each part keeps its state to itself, so a behaviour runs one of them, and what
the others would give it is any.

In each module a definition marked "Mutant" is not part of the model: it is a
plausible bug put in the place of a definition below it, to see that the
property listed with it in `PROJECT.json` fails.

## 3. Runs

All runs check for deadlock, and none has one: a client can always do something,
and a loop of the program always has a next turn or an end.

| Run | Instance | States | What it shows |
|---|---|---|---|
| Memory | blocks of 5, two of them; a MemStack with requests 0, 3, 5 and two markers, or cells of 2 (sz 1 below a pointer) and two BMarkers | 130827 | cells of a MemStack in use stay inside and apart for every interleaving of requests and markers, in and out of order; cells of MemBlocks have one owner, none is lost, none outside, with careful releases |
| Btree | order 3 with up to 24 objects, any place, any order; orders 3, 4, 7 with up to 200 objects, filled and emptied at one end or the middle | 8638 | contents, links, counts, shape, ranks, searches and all checks of the code, in cascades over several levels |
| PriorityQueue | order 3, two priorities, up to 26 objects | 8768 | the tree is well formed and sorted with equal objects, `i_add` returns a right index |
| PriorityQueueGet (violation) | the same, up to 12 objects | | `get` detaches another object than it returns |
| Deque | capacity 3, four objects | 152624 | nothing in use is deleted, refinement of DequeSpec, walks of unwrapped rings |
| Vectors | sizes 1, 2 growing by 0, 1, 2 up to 5; five objects, two equal; UINT_MAX 15 | 228324 | no write past the end, nothing lost or twice or dangling, an add keeps what is there, searches are right and end |
| Lists | one container of each kind, three elements, three objects, two equal, counts up to 4 | 117990 | links, pool, counts and ownership agree, walks miss nothing from where they were begun or restarted; Stack, Deque and Queue are two-ended sequences |
| HashTable | three buckets, three objects with collisions and equals, a Bag or a Set | 101944 | nothing is lost, a walk returns every object once, it ends unless the last bucket is drained |
| RbTree | sets of keys 1..10, copied up to 5 nodes; multisets of 5 elements over 3 keys, 3 equals | 240880 | order, the tree's own test of sanity, iterators, copies that fail, rings; every loop ends; multisets implement OrderedMulti |
| MicroCalc | formulas up to 5 tokens, parser stack 6; window of 8 by 2 on 5 by 5, goto to any column of the sheet or past it; sheet of 3 by 2 cells | 222069 | the parser accepts the grammar and ends; the cursor is shown, when cells are named by letters; memory, flags, moved formulas and files agree |
| MicroCalcInsert (violation) | the same sheet | | inserting a row or column deletes a cell it was to keep |
| MicroCalcFlags (violation) | a row of 5 cells, texts only | | two inserted columns leave a flag behind that no text accounts for |

### Fairness

The only scheduling there is: a loop of the program, once entered, goes on by
itself, since nothing else runs meanwhile. Weak fairness is assumed of just
those steps, never of a call by a client or user: the turns of the search (and
the detach it is for) in Vectors, of the iterator in HashTable, of the loops of
RbTree, and of the parser in MicroCalc. From it:

- `SearchEnds`: a binary search ends, whatever wraps.
- `WalkEnds`: a walk of a hash table that is begun ends, unless its client
  restarts it for ever or the list of the last bucket was drained, when `scan`
  never leaves it. The client's calls between two turns are not fair and may go
  on for ever; they do not disable a turn.
- `OperationsEnd`: insertion, erasure, clearing and copying of the tree end.
- `ParseEnds`: the parser accepts or refuses. The tables can in principle loop
  by reductions alone.

The other runs have no step that the program would take by itself.

### Why the bounds are enough

- *Memory.* `MaxBlocks` is what the heap can give and also exercises its
  refusal. Two markers are the least that can be destroyed out of order; block 5
  and the requests leave exact fits, rests too small, and full blocks. In
  MemBlocks the cell (a pointer) does not divide the block, so that a rest stays
  behind. Three blocks, with requests 0 and 5, add nothing but states (2.2
  million). Word sizes are small but larger than every sum of the runs; no
  result depends on them, as the proofs show.
- *Btree.* 24 objects of order 3 give trees of three levels, with leaves of up
  to 7 objects and inner nodes that fill, share, split and merge. 200 objects
  filled in from one end or the middle reach splits and mergers of inner nodes
  at several levels, and orders 4 and 7 the cases in which `splitWith` takes
  none, one, two or more items from the left node. Disabling the branches of
  `isFull` and `isLow` one by one, for leaves and for inner nodes, and the cases
  of `splitWith` and of a merger with an empty right sibling, makes the run
  fail, with one exception: an inner node sharing with its left sibling because
  its right one is almost full.
- *PriorityQueue.* The eighth object splits the first leaf, the sixteenth the
  second, and from the twenty-second on there are inner nodes below the root: 26
  objects of two priorities split, share and merge leaves and inner nodes with
  equal objects on both sides of a key at each level. Two states that differ only
  in which of equal objects was got are one (the view `ByPriority`); the violation
  keeps them apart and needs eight objects. Three priorities add nothing to the
  comparison of neighbours.
- *Deque.* Capacity 3 is four slots: empty, full, wrapped by one, by two. Four
  objects are one more than fit, so some object is always outside. The proofs
  cover every capacity.
- *Vectors.* From 1 or 2 slots by 0, 1 or 2 gives vectors that cannot grow, that
  grow each time and that grow in steps that do not divide the size. Five slots
  give searches of several turns to both ends; `UIntMax` is above twice the
  count, as it is in any vector that fits memory. The proof covers every count
  and width.
- *Lists, HashTable.* Three elements are one in the middle and one at each end,
  and with three objects every order of equals around another. The pool has as
  many cells as elements, so that freed ones are used again at once. `MaxCount`
  4 is one above what fits, for the count that a flush does not reset. Three
  buckets have a first, a middle and a last; the clients put two objects in one
  bucket at the end, at the middle, or equal in a Set.
- *RbTree.* Ten keys are enough for every case of erase, double black going up
  two levels included; a copy of five nodes has both sides and depth three, and
  fails at each of them. Five elements over three keys make rings of one, two
  and three, alone and with neighbours.
- *MicroCalc.* Five tokens hold each production, nesting of one and two binary
  operators with rising, equal or falling precedence; `1+2*3` takes six entries of
  the stack, and no input of five tokens more. That a full stack refuses is in the
  model but not in the run: the six tokens it takes are more states than fit. A 5
  by 5
  sheet with a window of two rows and one to three columns, one width equal to
  the whole screen, has each edge inside and outside. The sheet of 3 by 2 cells
  has a middle column, a text that runs over two cells, names that grow with a
  column (`Letters`) or row (`Tens`), and `Memory` for two or three of its
  cells, so that entry and loading are refused. Three columns are too few for a
  flag to be parted from its text, which takes five; in a row of five cells with
  texts, `Unsplit` is all that `FlagsBelong` needs.

The symmetry sets are the markers of both pools and the objects of Deque, which
the modules compare for equality only; what is checked with them is safety.

### What the violations show

1. `PriorityQueue::get` (`include/priortyq.h:51`): the search for an object
   equal to `tree[0]` may stop at an equal key of an inner node, so one object
   is returned and another detached. Nine steps, eight equal objects.
2. `insertrow` and `insertcol` of MicroCalc (`src/tc/mcommand.c:684`, `:596`):
   the loop that empties the last row names `lastrow` in each turn, and
   `deletecell` lowers `lastrow` when the last cell of the row goes: the next
   turns delete cells of another row.
3. `insertcol` again (`src/tc/mcommand.c:625`): the flags move with their
   columns, and `updateoflags` sets those that the text now calls for and clears
   none, though its comment says it "updates all flags" (`mcutil.c:424`). A text
   over two columns and a column inserted in it leave a flag past its end; a
   column inserted there parts that flag from the text. `clearoflags` stops at
   the gap, so that the flag outlives the text, and `cellstring` (`:535`) looks
   for a cell in use to the left of the flagged one, where there is none.

### Defects that the models keep

The models do what the code does. Where that is wrong and a property would say
nothing else, an assumption or a guard, named here, keeps clients from it.

*Allocation.* `MemStack::allocate` (`source/memmgr.cpp:49`): with a request
larger than a block `blockSize - curLoc` wraps and the next cell starts behind
the block; hence the assumption `RequestsFit`. The header that `operator new` of
a block adds (`include/memmgr.h:46`) can wrap for blocks nearly as large as a
word counts, which would then be short; the model's blocks are whole. `~BMarker`
(`include/memmgr.h:236`): the free list may point into a released block; hence
the constant `Careful`. *Rings.* A flush (`include/deques.h:404`) starts at
`left + 1` when the ring wraps and leaks the leftmost object: `NoneDangling`
asks that nothing in use is deleted, not that nothing leaks. A walk
(`include/deques.h:236`) never changes over to its second block:
`WalksUnwrapped` is about the other rings. *Hash tables.* `scan` never leaves an
existing and empty list in the last bucket (`source/hashtbl.cpp:136`): the
exception in `WalkEnds`.

*B-tree.* The comment on the tree (`source/btree.cpp:46`, `:59`) says that an
inner node other than the root has at least ceiling(Order/2) keys; the code sets
the mark to (Order-1)/2 (`:203`), and splits and mergers keep only that. In a
tree of order 3 a root that splits leaves inner nodes of one key, where the
comment has two, and with order 7 it is three for four. `WellFormed` holds the
tree to the mark of the code, under which a low node can always share or merge;
the comment's is not kept, and no run says it is. Leaves keep at least what the
comment asks.

*Lists.* `restart` of both iterators (`source/list.cpp:103`,
`source/dbllist.cpp:158`) goes back to the element the iterator was made at. The
documentation has it go to "the head of the list" (`classlib.doc:4374`) or "the
first nonempty element" (`:3849`): an object added before that element since is
not returned after a restart. `WalkIsWhole` asks for the others only. The
element the iterator is at, or was made at if it is to restart, must not be
detached: it goes on in the free list of the pool, or in the place the next add
puts that cell. The model's client leaves it alone.

*Vectors.* With delta 0 `resize` does not grow, and `add`, `addAt` and the
sorted insertion write past the end; the array's `isFull` looks at the count
alone, though `addAt` may have filled the slots behind it: the model's clients
ask `isFull` first and, after `addAt`, know of a free slot (`HasRoom`).
`operator[]` of an array grows to `loc`, not `loc + 1`. `BI_SVectorImp::find`
(`vectimp.h:448`) wraps `upper` when the value is below the first, and goes on
reading with it: `SearchRight` claims nothing there. `BI_ISArrayAsVector` sorts
by address and finds by value. *Stacks and queues built on lists.*
`ownsElements` has no effect on a flush, which goes by the list's own flag, and
the count kept beside the list is not reset by it.

*Tree.* `erase( key )` of an absent key follows a null pointer in a multi tree;
the unwinding of its copy leaks the ring of the first key (`_rbtree.h:1906`);
`insert( first, last )` of an empty range steps past the end (`:310`).

*MicroCalc.* `getcell` (`src/tc/mcinput.c:161-168`) takes the first character of
a cell name for the column, whatever it is, and refuses only columns past the
last: `11` or `@1` at goto is column -16 or -1, which `gotocell`
(`src/tc/mcommand.c:485-487`) stores in `curcol` and `leftcol`. The cursor is then
in no column of the sheet and what follows works with memory before its arrays.
With a negative column in `NamedCols` TLC violates `CursorShown` in one step; the
run, and the theorem by its hypothesis `LettersFirst`, have names that begin with
letters. `formatcells` (`:501`) reads its ranges in the same way.

`deleterow` leaves the last row's pointers in two rows when a row
above it is deleted and it is not blank (`CanChange`). `fixformula` deletes a
formula whose length changes before it stores it anew, which lowers `lastcol` or
`lastrow`, disturbs flags, or fails for want of memory (`Harmless`, unless
`Careless`). With `Careless` TLC violates `Accounted` in three steps: a formula
in the first column, alone in the sheet; a column inserted before it, so that
the name in it grows and `lastcol` falls to the column before the formula; a
clear, which stops at `lastcol` and never gives the formula's memory back.
Inserting into a sheet whose last column or row is in use deletes
too much (violation 2; excluded in `Followed`), and inserting a column at a flag
past the end of its text parts the two (violation 3; `Unsplit`, unless
`Splitting`). Flags are set and cleared one
past the array at the last column; a load that ends early leaves `lastcol` and
`lastrow` to the file's and `changed` cleared; `errno` is never cleared, so one
number out of range spoils all that follow; recalculation is one pass by
columns, so a formula that names a later cell is one recalculation behind;
`printsheet` changes `lastcol` and does not put it back when it returns early;
blank cells with a format are not saved.

## 4. Proofs

The theorems listed in `PROJECT.json` hold for every value of the constants
their modules allow; none bounds a list, a vector, a table or a pool. Each
module of proofs follows one argument: an invariant, here called `Inv`, `IInv`
or by its parts, that is true initially, that every action keeps (one step of
the proof per action), and from which the properties of the runs follow.

**MemStack** (`MemProofs`): `RequestsFit => (StackSpec => []StackInv)`, and from
it type correctness, `LiveInside` and `LiveDisjoint`. `RequestsFit`, no request
larger than a block, is needed: section 3 says why. The three properties are not
inductive. `StackInv` adds that everything in use lies below the bump pointer,
that what a marker must keep lies below what it saved (`MarkAbove`), that blocks
are at least `BlockSize` long, and that with no block the bump pointer stands at
the end, so that the first request opens one. The marker positions obey the same
rule, since `~Marker` may reinstate any of them.

**MemBlocks** (`MemProofs`): `CellFits /\ Careful => (Spec => []Inv)`,
then `CellsInside`, `CellsDisjoint` and `NothingLost`. `CellFits` excludes pools
whose cell, enlarged to a pointer, does not fit a block (`MemBlocks( 1, 1 )`),
and by the `% WordSize` in the assumption on `BlockSize` those whose `sz*count`
overflows below a cell. `Inv` says that either the next cell opens a new block
or all cells lie below the bump pointer. Two lemmas, `Push` and `Pop`, relate
the free list as a sequence to its set; `CarveEffect` says what `allocate`
gives, as `AllocateEffect` does for the MemStack. For
`NothingLost` the invariant counts: a block holds `BlockSize \div size` cells,
the full ones that many, the top one those below the bump pointer, and the cells
in use and free are as many as that. A BMarker that goes takes whole blocks and
all their cells with it.

**Deque** (`DequeProofs`): `Spec => []Sound` with `Sound` being `TypeOK` and
`NoneDangling` together, and `Spec => IsDeque`: the ring of every capacity, with
every set of objects, implements DequeSpec with `items <- Contents`. The
arithmetic of the ring is in lemmas about slots (`Slots`, `SlotsPutLeft`, ...),
the operations are then lemmas about `Contents`, and every step of the ring is
the step of the same name of DequeSpec, or a stutter for `ownsElements` and
`ClientDeletes`. Flush, wrong as it is for ownership, empties the deque in both.

**Walks of a ring** (`DequeProofs`): `WalksAreRight`, that a walk of an
unwrapped ring of every capacity visits just its objects in order, whatever the
ring went through before. `Sound` says that every slot between `left` and
`right` has an object, so `bump` passes over none; to it the invariant adds
where the iterator stands and that what it has returned are the slots from
`left` to there.

**Sorted vectors** (`VectorsProofs`): `SearchIsRight`, that every behaviour of
the search, in either form, over every vector, value and width of unsigned,
satisfies `SearchRight`: an index that is found is of an equal object, and "not
found" means there is none. The invariant says that the bounds stay in the
vector or have wrapped to `UIntMax` together with an empty interval, and that an
object equal to the value sought lies between them. The form without the test
needs the hypothesis that the value is not below the first, which is in
`SearchRight`.

**Arrays, bags, sets and sorted arrays** (`VectorsProofs`): `Packed`,
`NoneDangling` and `AddsKeep` for every first size, growth and set of objects,
from one invariant, `VInv`, which is the first two with the types and the growth
of bags and sets, always 1. Two facts carry it: `resize` makes room for what it
is asked for whenever it may grow (`ResizedIsEnough`, by its rounding up to
`delta`), and the slots that hold what is not greater than a new object are the
first ones (`PlaceInOrder`), so that sorted insertion keeps the order. What the
binary search answers does not matter here, only that it is an index. The
assumption on `MaxSize`, that twice the largest size does not overflow, is the
one the sum of two indexes in the search needs. A client adds as in the runs:
where there is room.

**Induction** holds what the proofs about linked lists share. Numbers first: a
nonempty set of numbers has a least one, hence induction stated of sets
(`NatInduct`), which is the form the installed provers can use. Then chains: a
sequence is the `Path` of a function from one address to another, and a chain
ends at one end only. `Linked` says of several lists and one free list that they
are disjoint chains through all the cells cut so far; lemmas say that it
survives unlinking, insertion, a flush, a new list. Last, the recursive function
by which List collects the elements of a chain is shown to exist and to give the
chain (`Collector`): a recursive *function* is within reach, by induction on the
length of what it walks. Then binary trees given by two links per node: a tree
is a family that assigns each node the set of nodes below it (`TreeInduct` is
induction on its size), a recursive function over the links has a value
(`FoldTree`), an inorder walk yields each node once and in order, and the family
survives a new leaf, a rotation (`Rotated`) and the removal of a node with one
child (`Unlinked`). Then rings of links, with the recursive function that goes
round one, and the sequences that have each member of a finite set once, in the
order of a relation: there is only one (`OrderedIsUnique`).

**Lists** (`ObjectListsProofs`): `ListWhole` and `WalkIsWhole` for every pool
and every set of objects, and `Spec => AreEnds`. `IInv` has four parts: the
links and the free list (`LinksInv`), the links back of the double list
(`BackInv`), where the objects are and the counts (`DataInv`), and the walk
(`WalkInv`): the iterator is at an element or at the sentinel it walks to, what
is due lies ahead of it and what is done does not. The searches that write the
value sought into a sentinel are shown to stop at the first equal element or at
the sentinel. The refinement needs that `pop` and `get`, which look at one end
and then detach *by value* what they saw, detach that very element: the first of
its equals from the end where the search begins.

**Hash tables** (`HashTableProofs`): `NothingLost` and `WalksTheTable` for every
number of buckets, pool, set of objects, and hash function that agrees on equal
objects. `LinksInv` is that of the lists, for as many lists as there are
buckets; `DataInv` files each object once, under its hash value, and counts
them; `WalkInv` says what is `Ahead` of an iterator: the rest of its bucket and
all of the buckets behind it. An addition may put an object before or behind the
iterator and a detachment takes one out of either; the objects that were there
all along stay where they are with respect to it.

**Tree** (`TreeProofs`): `RbSpec => []RbInv`, and from it `Sorted`, `IsSane`,
`Walks` and `Copies`, for every set of keys and every number of allocations
after which a copy fails. `RbSpec` is the tree without rings: insertion with and
without a hint, erasure, clear and copy, each loop of the code one step per turn.
None of the four properties is inductive, since all are about the tree between
two operations only. `RbInv` says what is true in the middle of one: the links
are a search tree (`Shape`, which asks for *some* family of subtrees), `first`
and `last` are its ends (`Ends`), black heights agree except at the place
where an insertion or erasure is still repairing, where a red node may have a red
parent or one side be a black short (`Balanced`), what the loop remembers in its
locals is in that place (`Working`), and a copy has copied just the nodes before
the one it is at and would, after a failure, free them all (`CopyInv`). Every
turn of a repair is a case of the textbook argument: the place moves up, or a
rotation ends the loop. `Shape` quantifies over functions, so TLC checks what
follows from it and not `RbInv` itself.

**Rings of equal elements** (`TreeProofs`): for every set of keys and number of
equals, `Spec => []MultiInv`, and from it `RingsWhole`, and the four properties of
the tree for sets and multisets alike; then `Spec => IsOrdered`, that the
multiset implements OrderedMulti with `seq <- Contents`. `MultiInv` is `RbInv`
and, in a multiset whose tree is not being cleared, `RingInv`: there is a family
of sequences, one for each node, of the elements with its key from the one that
the node points at, linked both ways in a ring. From such a family comes an order
of the elements (`Precedes`: by key, and by place within a ring). `Contents` is
the one sequence of all elements in that order; `++`, `--` and the bounds are
shown to lead to neighbours in it, and every place of `insert( hint, v )`, with
its nested tests of both neighbours, is the `Place` that OrderedMulti chooses
(`HintPlace`). An insertion adds one element to the order, an erasure takes out
one or a ring, and the loops that repair the tree change neither (`Added`,
`TakenOut`); so what they do to `Contents` follows from there being only one such
sequence.

**MicroCalc's window** (`CalcProofs`): `LettersFirst => (ScreenSpec =>
[]CursorShown)` for every sheet size, screen and set of column widths that
leaves room for a column. The hypothesis, that no cell named at goto lies before
the first column, is needed: `getcell` does not see to it (section 3). The
invariant is that the columns shown fit and that the cursor is among them
(`ColInv`, `RowInv`). `setleftcol` and `setrightcol` count with a recursive
function over the columns; the lemmas say that what they find is the least, or
greatest, column from which what is shown fits, and that it is on the right side
of the cursor.

**MicroCalc's sheet** (`CalcProofs`): `~Careless => (SheetInit /\
[][SheetNext]_sheetVars => []Accounted)`, for every size of sheet, every
contents users type and every file. The hypothesis is needed: section 3 has the
three steps without it. The invariant `Good` is that the sheet has its type, that
free memory and the sizes of all cells add up (`Paid`), and that no cell is in
use past `lastcol` or `lastrow` (`Within`). `Within` is what makes `Paid`
last: a clear, a load or an emptied column looks no further than `lastcol` and
`lastrow`, and what lies past them would be dropped unpaid. The argument has
three layers. A sum over cells is the number of `Bars`, so that cells that move
keep their sum by a bijection (`TotalMoved`) and one cell that changes changes it
by its own size (`TotalPut`). Each loop of the code is a fold: `FoldExists` says
the fold has a value when no turn leaves the type, and `FoldKeeps` carries a
family of sets `J[k]` through its turns, which is how a loop that reads a
`lastcol` its own body lowers is shown to have met every cell (`EmptyRowBare`,
`Cleans`). Above them is one lemma per command, from `DeleteCell` to `LoadGood`;
`EmptiedReady` says that what a shift would overwrite is blank, and `ShiftedGood`
uses `Harmless` where `fixformula` deletes a cell that is not in the last column
or row in use.

`StackInv` of MemStack, `Inv` of MemBlocks, `IInv` of the lists and the hash
table, and the types and `Within` of the sheet were checked by TLC before they
were proved; they are not among the runs' properties now, since the theorems say
more.

**Only model-checked.** The B-tree, the priority queue and the parser's grammar:
their operations are recursive operators, as the code is recursive, and
induction over them is out of reach of the installed provers, as is anything in
a module with RECURSIVE operators. Of the sheet: flags, formulas that
follow and files that come back. All liveness: fairness is beyond the provers.

## 5. Not modelled

*Of modelled components.* `addAt` of a sorted array (`include/arrays.h:951`,
`:1041`), which puts an object anywhere. `BtreeIterator` (a counter over
`operator[]`), printing, the heap refusing a node of a tree, ownership and
deletion of the keys of a Btree. `forEach`, `firstThat`, `lastThat` of rings and
arrays, which keep no state. Destructors, where they are a flush of what is
left. The bytes of cells: nobody writes to a freed cell. Stacks as vectors and
`top`. The copy of a multi tree, assignment (a copy and a clear) and range
insertion (a loop over `insert`). In MicroCalc numeric formats, printing,
formulas of more than one cell, arithmetic, screen output and line input; names
of cells past the sheet in a formula, which `fixformula` steps over
(`src/tc/mcutil.c:164`, `:221`); and the second place where a row name grows, at
row 100 (`:98`).

*Whole components.* The lists of the template library repeat the links,
sentinels and pool of `list.cpp` and `dbllist.cpp`. `AbstractArray` of
`abstarry.cpp` is the array of Vectors with a last index for a count. String,
Date, Time, Timer and Sortable are values without a history. The near heap,
stdio and signals of the Computer Innovations C86 run-time library have their C
sources inside archives. Open Watcom's other headers (string, vector, list,
deque, algorithms, intrusive lists) are templates over arrays and links like
those that are modelled. The BGI demonstration is a slide show of graphics calls
and keeps no state to go wrong. Start-up sources are assembly around DOS calls.
The rest is executables, libraries, headers and help.

What share of the sources is modelled is limited by what they are: most lines of
C in the repository are headers that declare functions whose source is not here
(the C, DOS, Windows and graphics libraries of six vendors), and a declaration
has no behaviour.

## 6. Plan

The order was by weight: memory first, because all dynamic structures of the
class library rest on it, then the B-tree, the most intricate part, the ring,
the lists and vectors; then the programs outside the class library. All of that
is done. What could follow:

1. The near heap of C86 (`src/c86plus/arc/cbasec.arc`): address order,
   disjointness and coalescing, a `realloc` that frees before it allocates. Its
   promise would be a pool of disjoint cells.
2. The copy of a multi tree with its failing allocations.
3. Formulas of several cells in CalcSheet, with the order of recalculation.
4. Proofs: flags and moved formulas of the sheet, from `Good`; a variant function
   for the binary search as an action property, which is the part of its
   termination the provers can reach.
