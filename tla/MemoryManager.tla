---------------------------- MODULE MemoryManager ----------------------------
(***************************************************************************)
(* MemoryManager (memmanager.hh, memmanager.cc), and how a collection uses *)
(* two of them (vm.hh, doGC and startGC).                                  *)
(*                                                                         *)
(* Sizes are in units of AllocGranularity.  A chunk is a part of a block   *)
(* that the system's malloc has given.  Objects are allocated with         *)
(* getMemory, and never freed; working memory with malloc, and freed.  A   *)
(* collection swaps the two managers, copies what is alive, and forgets the*)
(* old chunks.  The free lists are sets: which chunk of a list is taken    *)
(* does not matter.                                                        *)
(***************************************************************************)
EXTENDS Naturals, FiniteSets

CONSTANTS
    Blocks,     \* the addresses of the system's blocks
    NoBlock,    \* nullptr
    HeapSizes,  \* the sizes that adjustHeapSize may choose
    MaxChunk,   \* the largest chunk of a free list (MaxBuckets - 1)
    MaxSize,    \* bound on the size of a request
    MaxLive     \* bound on the chunks in use

ASSUME MemoryAssumption ==
    /\ NoBlock \notin Blocks
    /\ HeapSizes \subseteq Nat \ {0} /\ HeapSizes # {}
    /\ MaxChunk \in Nat /\ MaxSize \in Nat /\ MaxLive \in Nat

VARIABLES
    heap,         \* the sizes of the blocks that the system has given; 0 for others
    heapSize,     \* config.heapSize
    baseBlock, blockSize, allocated,
    extraAllocs, allocatedInExtra,
    free,         \* the chunks in the free lists
    allocatedInFreeList,
    live,         \* the chunks in use
    old,          \* those of before the collection that is running
    spareBlock, spareSize, spareAllocs,   \* the second manager
    collecting

managerVars ==
    <<baseBlock, blockSize, allocated, extraAllocs, allocatedInExtra, free,
      allocatedInFreeList>>
spareVars == <<spareBlock, spareSize, spareAllocs>>
memoryVars == <<heap, heapSize, managerVars, live, old, spareVars, collecting>>

Chunk(block, start, size, kind) ==
    [block |-> block, start |-> start, size |-> size, kind |-> kind]

\* A block that ::malloc may give.
Unused(b) == b \in Blocks /\ heap[b] = 0

Fits(size) == allocated + size <= blockSize

-----------------------------------------------------------------------------
\* getMemory, in the block of the heap,
InBlock(size, kind) ==
    /\ Fits(size)
    /\ live' = live \cup {Chunk(baseBlock, allocated, size, kind)}
    /\ allocated' = allocated + size
    /\ UNCHANGED <<heap, heapSize, extraAllocs, allocatedInExtra>>

\* or, when it is full, getMoreMemory, which may change the size of the heap
\* that the next collection will use (adjustHeapSize).
MoreMemory(size, kind) ==
    /\ ~Fits(size)
    /\ \E b \in Blocks :
          /\ Unused(b)
          /\ heap' = [heap EXCEPT ![b] = size]
          /\ extraAllocs' = extraAllocs \cup {b}
          /\ live' = live \cup {Chunk(b, 0, size, kind)}
    /\ allocatedInExtra' = allocatedInExtra + size
    /\ heapSize' \in HeapSizes
    /\ UNCHANGED allocated

Fetch(size, kind) == InBlock(size, kind) \/ MoreMemory(size, kind)

\* An object.
GetMemory(size) ==
    /\ Cardinality(live) < MaxLive
    /\ Fetch(size, "object")
    /\ UNCHANGED <<baseBlock, blockSize, free, allocatedInFreeList, old, spareVars, collecting>>

\* malloc: from the free list, from the heap, or, when it is big, from the system.
MallocFromList(size) ==
    /\ Cardinality(live) < MaxLive
    /\ size <= MaxChunk
    /\ \E c \in free :
          /\ c.size = size
          /\ free' = free \ {c}
          /\ live' = live \cup {[c EXCEPT !.kind = "malloc"]}
    /\ UNCHANGED <<heap, heapSize, baseBlock, blockSize, allocated, extraAllocs,
                   allocatedInExtra, allocatedInFreeList, old, spareVars, collecting>>

MallocFromHeap(size) ==
    /\ Cardinality(live) < MaxLive
    /\ size <= MaxChunk
    /\ \A c \in free : c.size # size
    /\ Fetch(size, "malloc")
    /\ allocatedInFreeList' = allocatedInFreeList + size
    /\ UNCHANGED <<baseBlock, blockSize, free, old, spareVars, collecting>>

MallocBig(size) ==
    /\ Cardinality(live) < MaxLive
    /\ size > MaxChunk
    /\ \E b \in Blocks :
          /\ Unused(b)
          /\ heap' = [heap EXCEPT ![b] = size]
          /\ live' = live \cup {Chunk(b, 0, size, "big")}
    /\ UNCHANGED <<heapSize, managerVars, old, spareVars, collecting>>

\* free: back to the free list, or to the system.
FreeChunk(c) ==
    /\ c.kind # "object"
    /\ live' = live \ {c}
    /\ \/ /\ c.kind = "malloc"
          /\ free' = free \cup {[c EXCEPT !.kind = "free"]}
          /\ UNCHANGED heap
       \/ /\ c.kind = "big"
          /\ heap' = [heap EXCEPT ![c.block] = 0]
          /\ UNCHANGED free
    /\ UNCHANGED <<heapSize, baseBlock, blockSize, allocated, extraAllocs, allocatedInExtra,
                   allocatedInFreeList, old, spareVars, collecting>>

-----------------------------------------------------------------------------
(* doGC *)

\* Fault: the free lists still hold chunks of before the swap.
StartGCKeepsLists ==
    /\ ~collecting /\ collecting' = TRUE
    /\ spareBlock' = baseBlock /\ spareSize' = blockSize /\ spareAllocs' = extraAllocs
    /\ extraAllocs' = spareAllocs /\ allocatedInExtra' = 0
    /\ baseBlock' \in IF spareSize = heapSize THEN {spareBlock}
                      ELSE {b \in Blocks : b = spareBlock \/ Unused(b)}
    /\ heap' = [b \in Blocks |-> IF b = baseBlock' THEN heapSize
                                ELSE IF b = spareBlock THEN 0 ELSE heap[b]]
    /\ blockSize' = heapSize
    /\ allocated' = 0
    /\ old' = live /\ live' = {}
    /\ UNCHANGED <<heapSize, free, allocatedInFreeList>>

\* startGC: swap, and init, which frees its block and takes another
\* one when the size has changed.
StartGC ==
    /\ ~collecting /\ collecting' = TRUE
    /\ spareBlock' = baseBlock /\ spareSize' = blockSize /\ spareAllocs' = extraAllocs
    /\ extraAllocs' = spareAllocs /\ allocatedInExtra' = 0
    /\ baseBlock' \in IF spareSize = heapSize THEN {spareBlock}
                      ELSE {b \in Blocks : b = spareBlock \/ Unused(b)}
    /\ heap' = [b \in Blocks |-> IF b = baseBlock' THEN heapSize
                                ELSE IF b = spareBlock THEN 0 ELSE heap[b]]
    /\ blockSize' = heapSize
    /\ allocated' = 0
    /\ free' = {} /\ allocatedInFreeList' = 0
    /\ old' = live /\ live' = {}
    /\ UNCHANGED heapSize

\* All that is alive has been copied: releaseExtraAllocs of the second manager,
\* and adjustHeapSize.  A big chunk that is not freed stays with the system.
EndGC ==
    /\ collecting /\ collecting' = FALSE
    /\ old' = {}
    /\ heap' = [b \in Blocks |-> IF b \in spareAllocs THEN 0 ELSE heap[b]]
    /\ spareAllocs' = {}
    /\ heapSize' \in HeapSizes
    /\ UNCHANGED <<managerVars, live, spareBlock, spareSize>>

-----------------------------------------------------------------------------
\* The first manager has been initialized; the second one has no block.
MemoryOf(block, size) ==
    /\ heapSize = size
    /\ baseBlock = block /\ spareBlock = NoBlock
    /\ heap = [b \in Blocks |-> IF b = baseBlock THEN heapSize ELSE 0]
    /\ blockSize = heapSize /\ allocated = 0
    /\ extraAllocs = {} /\ allocatedInExtra = 0
    /\ free = {} /\ allocatedInFreeList = 0
    /\ live = {} /\ old = {}
    /\ spareSize = 0 /\ spareAllocs = {}
    /\ collecting = FALSE

MemoryInit == \E block \in Blocks, size \in HeapSizes : MemoryOf(block, size)

MemoryNext ==
    \/ \E size \in 1..MaxSize :
          GetMemory(size) \/ MallocFromList(size) \/ MallocFromHeap(size) \/ MallocBig(size)
    \/ \E c \in live : FreeChunk(c)
    \/ StartGC
    \/ EndGC

MemorySpec == MemoryInit /\ [][MemoryNext]_memoryVars

-----------------------------------------------------------------------------
(* Properties *)

Apart(c, d) ==
    \/ c.block # d.block
    \/ c.start + c.size <= d.start
    \/ d.start + d.size <= c.start

\* No two chunks share memory, whether they are in use, in a free list, or still
\* to be copied by the collection that is running; and each lies in memory that
\* the system has given and not taken back.
ChunksAreApart ==
    LET all == live \cup free \cup old
    IN /\ \A c \in all : c.start + c.size <= heap[c.block]
       /\ \A c, d \in all : c # d => Apart(c, d)

=============================================================================
