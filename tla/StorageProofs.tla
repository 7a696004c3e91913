---------------------------- MODULE StorageProofs ----------------------------
(***************************************************************************)
(* What a machine keeps things in, proved correct.                         *)
(*                                                                         *)
(* MemoryManager: no two chunks share memory, for every set of blocks,     *)
(* every choice of heap sizes and every bound.                             *)
(*                                                                         *)
(* AtomTable: each string has one atom, for every width of a character,    *)
(* strings of every length and every number of them.                       *)
(***************************************************************************)
EXTENDS MemoryManager, AtomTable, Induction, FiniteSetTheorems

-----------------------------------------------------------------------------
(* MemoryManager *)

Kinds == {"object", "malloc", "big", "free"}
Chunks == [block : Blocks, start : Nat, size : Nat \ {0}, kind : Kinds]

Within(c) == c.start + c.size <= heap[c.block]

\* The types.
Typed ==
    /\ heap \in [Blocks -> Nat]
    /\ heapSize \in HeapSizes
    /\ baseBlock \in Blocks /\ blockSize \in Nat /\ allocated \in Nat
    /\ extraAllocs \subseteq Blocks /\ spareAllocs \subseteq Blocks
    /\ live \subseteq Chunks /\ free \subseteq Chunks /\ old \subseteq Chunks
    /\ collecting \in BOOLEAN

\* The blocks that the two managers have from the system: each has one use, and
\* outside of a collection the second manager has no extra one.
Owned ==
    /\ heap[baseBlock] = blockSize /\ blockSize # 0 /\ allocated <= blockSize
    /\ spareBlock # baseBlock
    /\ spareBlock \in Blocks => heap[spareBlock] = spareSize /\ spareSize # 0
    /\ spareBlock \notin Blocks => spareSize = 0
    /\ \A b \in extraAllocs \cup spareAllocs :
          heap[b] # 0 /\ b # baseBlock /\ b # spareBlock
    /\ extraAllocs \cap spareAllocs = {}
    /\ ~collecting => old = {} /\ spareAllocs = {}

\* Where the chunks of the manager are: in its own blocks, the part of the heap
\* that has been given included, or, when they are big, in a block of their own.
Placed ==
    /\ \A c \in live : c.kind # "free"
    /\ \A c \in free : c.kind = "free"
    /\ \A c \in live \cup free :
          /\ Within(c)
          /\ c.block # spareBlock /\ c.block \notin spareAllocs
          /\ c.block = baseBlock => c.start + c.size <= allocated
          /\ c.kind = "big" => /\ c.start = 0 /\ c.size = heap[c.block]
                               /\ c.block # baseBlock /\ c.block \notin extraAllocs
    /\ \A d \in old : Within(d) /\ d.block # baseBlock

\* They are apart, also from those of before the collection.
Separate ==
    /\ \A c, d \in live : c # d => Apart(c, d)
    /\ \A c, d \in free : c # d => Apart(c, d)
    /\ \A c, d \in old : c # d => Apart(c, d)
    /\ \A c \in live, d \in free : Apart(c, d)
    /\ \A c \in live \cup free, d \in old : c.block # d.block

MemoryInv == Typed /\ Owned /\ Placed /\ Separate

\* The invariant holds at first, and each operation preserves it.
LEMMA MemoryAtFirst == MemoryInit => MemoryInv
  <1> SUFFICES ASSUME NEW block \in Blocks, NEW size \in HeapSizes, MemoryOf(block, size)
               PROVE  MemoryInv
    BY DEF MemoryInit
  <1> USE DEF MemoryOf
  <1>1. size \in Nat \ {0} /\ NoBlock \notin Blocks
    BY MemoryAssumption
  <1>2. Typed
    BY <1>1 DEF Typed
  <1>3. Owned
    BY <1>1 DEF Owned
  <1>4. Placed /\ Separate
    BY DEF Placed, Separate
  <1> QED
    BY <1>2, <1>3, <1>4 DEF MemoryInv

\* A block that the system has not given holds nothing, and nobody owns it.
LEMMA UnusedIsEmpty ==
  ASSUME MemoryInv, NEW b \in Blocks, Unused(b)
  PROVE  /\ \A c \in live \cup free \cup old : c.block # b
         /\ b # baseBlock /\ b # spareBlock
         /\ b \notin extraAllocs /\ b \notin spareAllocs
  <1>1. ASSUME NEW c \in live \cup free \cup old PROVE c.block # b
    <2>1. c \in Chunks /\ Within(c)
      BY DEF MemoryInv, Typed, Placed
    <2> QED
      BY <2>1 DEF Chunks, Within, Unused
  <1> QED
    BY <1>1 DEF MemoryInv, Typed, Owned, Unused

\* A chunk that is made in the heap, behind all that were.
LEMMA InBlockHolds ==
  ASSUME MemoryInv, NEW size \in Nat \ {0}, NEW kind \in {"object", "malloc"},
         InBlock(size, kind),
         UNCHANGED <<baseBlock, blockSize, free, old, spareVars, collecting>>
  PROVE  MemoryInv'
  <1>0. PICK n : n = Chunk(baseBlock, allocated, size, kind)
    OBVIOUS
  <1> USE DEF InBlock, Fits, spareVars
  <1>1. n \in Chunks /\ n.block = baseBlock /\ n.start = allocated /\ n.size = size /\ n.kind = kind
    BY <1>0 DEF MemoryInv, Typed, Chunks, Kinds, Chunk
  <1>2. live' = live \cup {n} /\ allocated' = allocated + size /\ allocated + size <= blockSize
    BY <1>0
  <1>3. Typed'
    BY <1>1, <1>2 DEF MemoryInv, Typed
  <1>4. Owned'
    BY <1>2, MemoryAssumption DEF MemoryInv, Typed, Owned
  <1>5. Placed'
    <2>1. Within(n)' /\ n.block # spareBlock /\ n.block \notin spareAllocs
      BY <1>1, <1>2 DEF MemoryInv, Typed, Owned, Within
    <2>2. \A c \in live \cup free \cup old : Within(c)' <=> Within(c)
      BY DEF Within
    <2>3. \A c \in live \cup free : c.block = baseBlock => c.start + c.size <= allocated'
      BY <1>2 DEF MemoryInv, Typed, Placed, Chunks
    <2>4. /\ \A c \in live' : c.kind # "free"
          /\ \A c \in free : c.kind = "free"
      BY <1>1, <1>2 DEF MemoryInv, Placed
    <2>5. ASSUME NEW c \in live' \cup free
          PROVE  /\ Within(c)'
                 /\ c.block # spareBlock /\ c.block \notin spareAllocs
                 /\ c.block = baseBlock => c.start + c.size <= allocated'
                 /\ c.kind = "big" => /\ c.start = 0 /\ c.size = heap[c.block]
                                      /\ c.block # baseBlock /\ c.block \notin extraAllocs
      <3>1. CASE c = n
        BY <1>1, <1>2, <2>1, <3>1
      <3>2. CASE c # n
        <4>1. c \in live \cup free
          BY <1>2, <3>2
        <4> QED BY <2>2, <2>3, <4>1 DEF MemoryInv, Placed
      <3> QED BY <3>1, <3>2
    <2>6. \A d \in old : Within(d)' /\ d.block # baseBlock
      BY <2>2 DEF MemoryInv, Placed
    <2> QED
      BY <2>4, <2>5, <2>6 DEF Placed
  <1>6. Separate'
    <2>1. ASSUME NEW c \in live \cup free PROVE Apart(c, n) /\ Apart(n, c)
      BY <1>1 DEF MemoryInv, Typed, Placed, Apart, Chunks
    <2>2. \A d \in old : d.block # n.block
      BY <1>1 DEF MemoryInv, Placed
    <2> QED
      BY <1>2, <2>1, <2>2 DEF MemoryInv, Separate
  <1> QED
    BY <1>3, <1>4, <1>5, <1>6 DEF MemoryInv

\* A chunk that has a new block for itself: an extra one, or a big chunk.
LEMMA NewBlockHolds ==
  ASSUME MemoryInv, NEW b \in Blocks, Unused(b), NEW size \in Nat \ {0},
         NEW kind \in {"object", "malloc", "big"},
         heap' = [heap EXCEPT ![b] = size],
         live' = live \cup {Chunk(b, 0, size, kind)},
         extraAllocs' = IF kind = "big" THEN extraAllocs ELSE extraAllocs \cup {b},
         heapSize' \in HeapSizes,
         UNCHANGED <<baseBlock, blockSize, allocated, free, old, spareVars, collecting>>
  PROVE  MemoryInv'
  <1> DEFINE n == Chunk(b, 0, size, kind)
  <1> USE DEF spareVars
  <1>1. n \in Chunks /\ n.block = b /\ n.start = 0 /\ n.size = size /\ n.kind = kind
    BY DEF Chunks, Kinds, Chunk
  <1>2. live' = live \cup {n}
    OBVIOUS
  <1> HIDE DEF n
  <1>3. /\ \A c \in live \cup free \cup old : c.block # b
        /\ b # baseBlock /\ b # spareBlock
        /\ b \notin extraAllocs /\ b \notin spareAllocs
    BY UnusedIsEmpty
  <1>4. heap'[b] = size /\ \A a \in Blocks : a # b => heap'[a] = heap[a]
    BY DEF MemoryInv, Typed
  <1>5. Typed'
    BY <1>1, <1>2 DEF MemoryInv, Typed
  <1>6. Owned'
    BY <1>3, <1>4 DEF MemoryInv, Typed, Owned
  <1>7. Placed'
    <2>1. \A c \in live \cup free \cup old : c.block \in Blocks /\ heap'[c.block] = heap[c.block]
      BY <1>3, <1>4 DEF MemoryInv, Typed, Chunks
    <2>2. \A c \in live \cup free \cup old : Within(c)' <=> Within(c)
      BY <2>1 DEF Within
    <2>3. Within(n)'
      BY <1>1, <1>4 DEF Within
    <2>4. \A c \in live \cup free : c.kind = "big" => c.block \notin extraAllocs'
      BY <1>3 DEF MemoryInv, Placed
    <2> QED
      BY <1>1, <1>2, <1>3, <1>4, <2>1, <2>2, <2>3, <2>4 DEF MemoryInv, Placed
  <1>8. Separate'
    BY <1>1, <1>2, <1>3 DEF MemoryInv, Separate, Apart
  <1> QED
    BY <1>5, <1>6, <1>7, <1>8 DEF MemoryInv

LEMMA FetchHolds ==
  ASSUME MemoryInv, NEW size \in Nat \ {0}, NEW kind \in {"object", "malloc"},
         Fetch(size, kind),
         UNCHANGED <<baseBlock, blockSize, free, old, spareVars, collecting>>
  PROVE  MemoryInv'
  <1>1. CASE InBlock(size, kind)
    BY <1>1, InBlockHolds
  <1>2. CASE MoreMemory(size, kind)
    <2>1. PICK b \in Blocks :
             /\ Unused(b) /\ heap' = [heap EXCEPT ![b] = size]
             /\ extraAllocs' = extraAllocs \cup {b}
             /\ live' = live \cup {Chunk(b, 0, size, kind)}
      BY <1>2 DEF MoreMemory
    <2>2. heapSize' \in HeapSizes /\ UNCHANGED allocated
      BY <1>2 DEF MoreMemory
    <2> QED
      BY <2>1, <2>2, NewBlockHolds
  <1> QED
    BY <1>1, <1>2 DEF Fetch

LEMMA MallocFromListHolds ==
  ASSUME MemoryInv, NEW size \in Nat \ {0}, MallocFromList(size)
  PROVE  MemoryInv'
  <1>1. PICK c \in free :
           /\ free' = free \ {c}
           /\ live' = live \cup {[c EXCEPT !.kind = "malloc"]}
    BY DEF MallocFromList
  <1> DEFINE n == [c EXCEPT !.kind = "malloc"]
  <1>2. /\ n \in Chunks /\ n.block = c.block /\ n.start = c.start /\ n.size = c.size
        /\ n.kind = "malloc"
    BY DEF MemoryInv, Typed, Chunks, Kinds
  <1>3. live' = live \cup {n}
    BY <1>1
  <1>4. UNCHANGED <<heap, heapSize, baseBlock, blockSize, allocated, extraAllocs, old,
                    spareBlock, spareSize, spareAllocs, collecting>>
    BY DEF MallocFromList, spareVars
  <1> HIDE DEF n
  <1>5. Typed'
    BY <1>1, <1>2, <1>3, <1>4 DEF MemoryInv, Typed
  <1>6. Owned'
    BY <1>4 DEF MemoryInv, Owned
  <1>7. Placed'
    BY <1>1, <1>2, <1>3, <1>4 DEF MemoryInv, Placed, Within
  <1>8. Separate'
    <2>1. \A d : Apart(d, n) <=> Apart(d, c)
      BY <1>2 DEF Apart
    <2>2. \A d : Apart(n, d) <=> Apart(c, d)
      BY <1>2 DEF Apart
    <2>3. \A d \in live : Apart(d, c) /\ Apart(c, d)
      BY DEF MemoryInv, Separate, Apart
    <2> QED
      BY <1>1, <1>2, <1>3, <1>4, <2>1, <2>2, <2>3 DEF MemoryInv, Separate
  <1> QED
    BY <1>5, <1>6, <1>7, <1>8 DEF MemoryInv

LEMMA FreeChunkHolds ==
  ASSUME MemoryInv, NEW c \in live, FreeChunk(c)
  PROVE  MemoryInv'
  <1>1. c \in Chunks /\ live' = live \ {c}
    BY DEF MemoryInv, Typed, FreeChunk
  <1>2. UNCHANGED <<heapSize, baseBlock, blockSize, allocated, extraAllocs, old,
                    spareBlock, spareSize, spareAllocs, collecting>>
    BY DEF FreeChunk, spareVars
  <1>3. CASE c.kind = "malloc" /\ free' = free \cup {[c EXCEPT !.kind = "free"]} /\ heap' = heap
    <2> DEFINE n == [c EXCEPT !.kind = "free"]
    <2>1. /\ n \in Chunks /\ n.block = c.block /\ n.start = c.start /\ n.size = c.size
          /\ n.kind = "free"
      BY <1>1 DEF Chunks, Kinds
    <2>2. free' = free \cup {n}
      BY <1>3
    <2> HIDE DEF n
    <2>3. Typed'
      BY <1>1, <1>2, <1>3, <2>1, <2>2 DEF MemoryInv, Typed
    <2>4. Owned'
      BY <1>2, <1>3 DEF MemoryInv, Owned
    <2>5. Placed'
      BY <1>1, <1>2, <1>3, <2>1, <2>2 DEF MemoryInv, Placed, Within
    <2>6. Separate'
      <3>1. \A d : (Apart(d, n) <=> Apart(d, c)) /\ (Apart(n, d) <=> Apart(c, d))
        BY <2>1 DEF Apart
      <3>2. \A d \in free : Apart(d, c) /\ Apart(c, d)
        BY DEF MemoryInv, Separate, Apart
      <3>3. \A d \in live \ {c} : Apart(d, c)
        BY DEF MemoryInv, Separate
      <3> QED
        BY <1>1, <1>2, <2>1, <2>2, <3>1, <3>2, <3>3 DEF MemoryInv, Separate
    <2> QED
      BY <2>3, <2>4, <2>5, <2>6 DEF MemoryInv
  <1>4. CASE c.kind = "big" /\ heap' = [heap EXCEPT ![c.block] = 0] /\ free' = free
    <2>1. /\ c.start = 0 /\ c.size = heap[c.block] /\ c.block \in Blocks
          /\ c.block # baseBlock /\ c.block # spareBlock
          /\ c.block \notin extraAllocs /\ c.block \notin spareAllocs
      BY <1>1, <1>4 DEF MemoryInv, Placed, Chunks
    <2>2. \A a \in Blocks : a # c.block => heap'[a] = heap[a]
      BY <1>4 DEF MemoryInv, Typed
    \* The chunk fills its block, so that no other one is in it.
    <2>3. ASSUME NEW d \in live' \cup free \cup old PROVE d.block # c.block /\ d.block \in Blocks
      <3>1. d \in Chunks /\ Within(d)
        BY <1>1 DEF MemoryInv, Typed, Placed
      <3>2. CASE d \in old
        BY <3>1, <3>2 DEF MemoryInv, Separate, Chunks
      <3>3. CASE d \in live' \cup free
        <4>1. Apart(c, d)
          BY <1>1, <3>3 DEF MemoryInv, Separate
        <4> QED
          BY <1>1, <2>1, <3>1, <4>1 DEF Apart, Within, Chunks
      <3> QED
        BY <3>2, <3>3
    <2>4. Typed'
      BY <1>1, <1>2, <1>4 DEF MemoryInv, Typed
    <2>5. Owned'
      BY <1>2, <2>1, <2>2 DEF MemoryInv, Typed, Owned
    <2>6. Placed'
      <3>1. \A d \in live' \cup free \cup old : heap'[d.block] = heap[d.block]
        BY <2>2, <2>3
      <3>2. \A d \in live' \cup free \cup old : Within(d)' <=> Within(d)
        BY <3>1 DEF Within
      <3> QED
        BY <1>1, <1>2, <1>4, <3>1, <3>2 DEF MemoryInv, Placed
    <2>7. Separate'
      BY <1>1, <1>2, <1>4 DEF MemoryInv, Separate
    <2> QED
      BY <2>4, <2>5, <2>6, <2>7 DEF MemoryInv
  <1> QED
    BY <1>3, <1>4 DEF FreeChunk

LEMMA StartGCHolds ==
  ASSUME MemoryInv, StartGC
  PROVE  MemoryInv'
  <1> USE DEF StartGC
  <1>1. old = {} /\ spareAllocs = {}
    BY DEF MemoryInv, Owned
  <1>2. baseBlock' \in Blocks /\ (baseBlock' = spareBlock \/ Unused(baseBlock'))
    <2>1. CASE spareSize = heapSize
      BY <2>1, MemoryAssumption DEF MemoryInv, Typed, Owned
    <2>2. CASE spareSize # heapSize
      BY <2>2
    <2> QED
      BY <2>1, <2>2
  <1>3. \A c \in live : c.block # baseBlock' /\ c.block # spareBlock /\ c.block \in Blocks
    BY <1>2, UnusedIsEmpty DEF MemoryInv, Typed, Placed, Chunks
  <1>4. /\ baseBlock # baseBlock' /\ baseBlock # spareBlock /\ baseBlock \in Blocks
        /\ baseBlock' \notin extraAllocs /\ spareBlock \notin extraAllocs
    BY <1>2, UnusedIsEmpty DEF MemoryInv, Typed, Owned
  <1>5. heap' = [b \in Blocks |-> IF b = baseBlock' THEN heapSize
                                  ELSE IF b = spareBlock THEN 0 ELSE heap[b]]
    OBVIOUS
  <1>6. heapSize \in Nat \ {0} /\ heapSize \in HeapSizes
    BY MemoryAssumption DEF MemoryInv, Typed
  <1>7. /\ heap'[baseBlock'] = heapSize
        /\ \A b \in Blocks : b # baseBlock' /\ b # spareBlock => heap'[b] = heap[b]
    BY <1>2, <1>5
  <1>8. /\ spareBlock' = baseBlock /\ spareSize' = blockSize /\ spareAllocs' = extraAllocs
        /\ extraAllocs' = {} /\ blockSize' = heapSize /\ allocated' = 0 /\ free' = {}
        /\ old' = live /\ live' = {} /\ collecting' = TRUE /\ heapSize' = heapSize
    BY <1>1
  <1> HIDE DEF StartGC
  <1>9. Typed'
    BY <1>2, <1>5, <1>6, <1>8 DEF MemoryInv, Typed
  <1>10. Owned'
    BY <1>2, <1>4, <1>6, <1>7, <1>8 DEF MemoryInv, Typed, Owned
  <1>11. Placed'
    BY <1>3, <1>7, <1>8 DEF MemoryInv, Placed, Within
  <1>12. Separate'
    BY <1>8 DEF MemoryInv, Separate
  <1> QED
    BY <1>9, <1>10, <1>11, <1>12 DEF MemoryInv

LEMMA EndGCHolds ==
  ASSUME MemoryInv, EndGC
  PROVE  MemoryInv'
  <1>1. /\ collecting' = FALSE /\ old' = {} /\ spareAllocs' = {} /\ heapSize' \in HeapSizes
        /\ heap' = [b \in Blocks |-> IF b \in spareAllocs THEN 0 ELSE heap[b]]
        /\ UNCHANGED <<baseBlock, blockSize, allocated, extraAllocs, free, live,
                       spareBlock, spareSize>>
    BY DEF EndGC, managerVars
  <1>2. \A b \in Blocks : b \notin spareAllocs => heap'[b] = heap[b]
    BY <1>1
  <1>3. Typed'
    BY <1>1 DEF MemoryInv, Typed
  <1>4. Owned'
    BY <1>1, <1>2 DEF MemoryInv, Typed, Owned
  <1>5. Placed'
    <2>1. \A c \in live \cup free : c.block \in Blocks /\ heap'[c.block] = heap[c.block]
      BY <1>2 DEF MemoryInv, Typed, Placed, Chunks
    <2> QED
      BY <1>1, <2>1 DEF MemoryInv, Placed, Within
  <1>6. Separate'
    BY <1>1 DEF MemoryInv, Separate
  <1> QED
    BY <1>3, <1>4, <1>5, <1>6 DEF MemoryInv

\* Every operation of the manager, and every step of a collection, preserves the
\* invariant.
LEMMA MemoryStepHolds == MemoryInv /\ [MemoryNext]_memoryVars => MemoryInv'
  <1> SUFFICES ASSUME MemoryInv, [MemoryNext]_memoryVars PROVE MemoryInv'
    OBVIOUS
  <1>1. ASSUME NEW size \in 1..MaxSize, GetMemory(size) PROVE MemoryInv'
    BY <1>1, FetchHolds, MemoryAssumption DEF GetMemory
  <1>2. ASSUME NEW size \in 1..MaxSize, MallocFromList(size) PROVE MemoryInv'
    BY <1>2, MallocFromListHolds, MemoryAssumption
  <1>3. ASSUME NEW size \in 1..MaxSize, MallocFromHeap(size) PROVE MemoryInv'
    BY <1>3, FetchHolds, MemoryAssumption DEF MallocFromHeap
  <1>4. ASSUME NEW size \in 1..MaxSize, MallocBig(size) PROVE MemoryInv'
    <2>1. PICK b \in Blocks :
             /\ Unused(b) /\ heap' = [heap EXCEPT ![b] = size]
             /\ live' = live \cup {Chunk(b, 0, size, "big")}
      BY <1>4 DEF MallocBig
    <2>2. heapSize' \in HeapSizes /\ UNCHANGED <<managerVars, old, spareVars, collecting>>
      BY <1>4 DEF MallocBig, MemoryInv, Typed
    <2>3. size \in Nat \ {0}
      BY MemoryAssumption
    <2> QED
      BY <2>1, <2>2, <2>3, NewBlockHolds DEF managerVars
  <1>5. ASSUME NEW c \in live, FreeChunk(c) PROVE MemoryInv'
    BY <1>5, FreeChunkHolds
  <1>6. CASE StartGC
    BY <1>6, StartGCHolds
  <1>7. CASE EndGC
    BY <1>7, EndGCHolds
  <1>8. CASE UNCHANGED memoryVars
    BY <1>8 DEF memoryVars, managerVars, spareVars, MemoryInv, Typed, Owned, Placed, Separate,
                Within
  <1> QED
    BY <1>1, <1>2, <1>3, <1>4, <1>5, <1>6, <1>7, <1>8 DEF MemoryNext

\* The invariant says more than that the chunks are apart.
LEMMA ApartFollows == MemoryInv => ChunksAreApart
  <1> SUFFICES ASSUME MemoryInv PROVE ChunksAreApart
    OBVIOUS
  <1>1. \A c \in live \cup free \cup old : c.start + c.size <= heap[c.block]
    BY DEF MemoryInv, Placed, Within
  <1>2. ASSUME NEW c \in live \cup free \cup old, NEW d \in live \cup free \cup old, c # d
        PROVE  Apart(c, d)
    BY <1>2 DEF MemoryInv, Separate, Apart
  <1> QED
    BY <1>1, <1>2 DEF ChunksAreApart

\* Whatever is requested and freed, and however collections change the size of
\* the heap and exchange the two managers, no two chunks share memory, and each
\* lies in memory that the system has given (memmanager.hh; vm.hh, doGC).
THEOREM MemoryIsApart == MemorySpec => []ChunksAreApart
  <1>1. MemoryInv /\ [MemoryNext]_memoryVars => MemoryInv'
    BY MemoryStepHolds
  <1> QED
    BY MemoryAtFirst, <1>1, ApartFollows, PTL DEF MemorySpec

-----------------------------------------------------------------------------
(* AtomTable: the tree *)

\* Strings s and t have the same first n bits.
Agree(s, t, n) == \A p \in 0..(n - 1) : BitAt(s, p) = BitAt(t, p)

\* Of a tree with atoms A and root r, the link at side b of atom i, or the one
\* to the root when i = 0: where it leads to, the first bit that is not passed
\* there, and whether a walk for string s takes it.
Link(A, r, i, b) == IF i = 0 THEN r ELSE A[i].side[b]

Depth(A, i) == IF i = 0 THEN 0 ELSE A[i].critBit + 1

Takes(A, s, i, b) ==
    IF i = 0 THEN b = 0
    ELSE Agree(s, A[i].data, A[i].critBit) /\ BitAt(s, A[i].critBit) = b

AtomRecords == [data : Strings, critBit : 0..(LastBit - 1), side : [{0, 1} -> Nat]]

\* Every link leads to an atom that has the bits of the link, except side 0 of
\* the first atom, which no walk takes: the bits of its string end before it.
Linked(A, r) ==
    /\ r \in 0..Len(A) /\ (r = 0 <=> Len(A) = 0)
    /\ \A i \in 1..Len(A), b \in {0, 1} :
          LET j == A[i].side[b]
          IN \/ j \in 1..Len(A) /\ Takes(A, A[j].data, i, b)
             \/ j = 0 /\ b = 0 /\ A[i].critBit = Size(A[i].data) + CharBits

\* An atom whose walk takes a link is the candidate it leads to, or has the bits
\* that the atom below has before its crit bit.
Led(A, r) ==
    \A i \in 0..Len(A), b \in {0, 1}, k \in 1..Len(A) :
        Takes(A, A[k].data, i, b) =>
            LET j == Link(A, r, i, b)
            IN /\ j \in 1..Len(A)
               /\ IF A[j].critBit < Depth(A, i) THEN k = j
                  ELSE Agree(A[k].data, A[j].data, A[j].critBit)

\* No atom belongs between the two ends of a link.
Dense(A, r) ==
    \A i \in 0..Len(A), b \in {0, 1}, k \in 1..Len(A) :
        Takes(A, A[k].data, i, b) /\ A[k].critBit >= Depth(A, i) =>
            LET j == Link(A, r, i, b)
            IN A[j].critBit <= A[k].critBit /\ (A[j].critBit = A[k].critBit => k = j)

\* No two atoms belong at the same place.
Single(A) ==
    \A i, k \in 1..Len(A) :
        A[i].critBit = A[k].critBit /\ Agree(A[i].data, A[k].data, A[i].critBit) => i = k

CritBit(A, r) ==
    /\ A \in Seq(AtomRecords)
    /\ Linked(A, r) /\ Led(A, r) /\ Dense(A, r) /\ Single(A)

\* Each string that was asked for has one atom.
Interned ==
    /\ asked = {atoms[i].data : i \in 1..Len(atoms)}
    /\ \A i, k \in 1..Len(atoms) : atoms[i].data = atoms[k].data => i = k
    /\ IsFiniteSet(asked) /\ Cardinality(asked) = Len(atoms)

TableInv == CritBit(atoms, root) /\ Interned

\* Bit r of character i of a string.
LEMMA Places ==
    ASSUME NEW i \in Nat, NEW r \in Bits
    PROVE  /\ i * CharBits + r \in Nat
           /\ (i * CharBits + r) \div CharBits = i
           /\ (i * CharBits + r) % CharBits = r
<1>1. CharBits \in Nat \ {0} /\ r \in 0..(CharBits - 1)
  BY AtomTableAssumption DEF Bits
<1>2. PICK C \in Nat \ {0} : C = CharBits
  BY <1>1
<1>3. i * C \in Nat
  OBVIOUS
<1>4. i * C + r \in Nat
  BY <1>1, <1>3
<1>5. (i * C + r) % C = r
  BY <1>1, <1>2, <1>3
<1>6. (i * C + r) \div C = i
  BY <1>1, <1>2, <1>3
<1> QED BY <1>2, <1>4, <1>5, <1>6

\* Where a bit is: in a character, at one of its places.
LEMMA PlaceOf ==
    ASSUME NEW p \in Nat
    PROVE  p \div CharBits \in Nat /\ p % CharBits \in Bits
<1>1. PICK C \in Nat \ {0} : C = CharBits
  BY AtomTableAssumption
<1>2. p \div C \in Nat /\ p % C \in 0..(C - 1)
  OBVIOUS
<1> QED BY <1>1, <1>2 DEF Bits

\* The characters of a string.
LEMMA StringFacts ==
    ASSUME NEW s \in Strings
    PROVE  /\ Len(s) \in 0..MaxLength /\ s = [i \in 1..Len(s) |-> s[i]]
           /\ \A i \in 1..Len(s) : s[i] \in Characters
           /\ Size(s) \in Nat
<1>1. PICK n \in 0..MaxLength : s \in [1..n -> Characters]
  BY DEF Strings
<1>2. n \in Nat /\ Len(s) = n
  BY <1>1, AtomTableAssumption
<1>3. Size(s) \in Nat
  BY <1>2, AtomTableAssumption DEF Size
<1> QED BY <1>1, <1>2, <1>3

\* charAt: the characters of a string, and then all ones for ever.
LEMMA CharFacts ==
    ASSUME NEW s \in Strings, NEW i \in Nat
    PROVE  /\ CharAt(s, i) \in [Bits -> {0, 1}]
           /\ i < Len(s) => CharAt(s, i) = s[i + 1] /\ CharAt(s, i) # AllOnes
           /\ i >= Len(s) => CharAt(s, i) = AllOnes
<1>1. AllOnes \in [Bits -> {0, 1}]
  BY DEF AllOnes
<1>2. Len(s) \in Nat /\ \A j \in 1..Len(s) : s[j] \in Characters
  BY StringFacts, AtomTableAssumption
<1>3. CASE i < Len(s)
  <2>1. i + 1 \in 1..Len(s) /\ ~(i >= Len(s))
    BY <1>2, <1>3
  <2>2. CharAt(s, i) = s[i + 1]
    BY <2>1 DEF CharAt
  <2> QED BY <1>2, <2>1, <2>2 DEF Characters
<1>4. CASE ~(i < Len(s))
  BY <1>1, <1>2, <1>4 DEF CharAt
<1> QED BY <1>3, <1>4

\* bitAt is a bit.
LEMMA BitFacts ==
    ASSUME NEW s \in Strings, NEW p \in Nat
    PROVE  BitAt(s, p) \in {0, 1}
<1>1. CharAt(s, p \div CharBits) \in [Bits -> {0, 1}] /\ p % CharBits \in Bits
  BY PlaceOf, CharFacts
<1> QED BY <1>1 DEF BitAt

\* After the end of a string, all bits are one.
LEMMA BitsPastEnd ==
    ASSUME NEW s \in Strings
    PROVE  BitAt(s, Size(s) + CharBits) = 1
<1>1. Len(s) \in Nat /\ CharBits \in Nat \ {0}
  BY StringFacts, AtomTableAssumption
<1>2. 0 \in Bits
  BY <1>1 DEF Bits
<1>3. PICK i \in Nat : i = Len(s) + 1
  BY <1>1
<1>4. Size(s) + CharBits = i * CharBits + 0
  BY <1>1, <1>3 DEF Size
<1>5. BitAt(s, Size(s) + CharBits) = CharAt(s, i)[0]
  BY <1>2, <1>4, Places DEF BitAt
<1> QED BY <1>1, <1>2, <1>3, <1>5, CharFacts DEF AllOnes

\* Strings that have the same bits up to the end of the character that follows
\* one of them are the same: here the bits that mark the end differ otherwise.
LEMMA SameBits ==
    ASSUME NEW s \in Strings, NEW t \in Strings, Agree(s, t, Size(t) + CharBits)
    PROVE  s = t
<1>1. Len(s) \in Nat /\ Len(t) \in Nat /\ CharBits \in Nat \ {0}
  BY StringFacts, AtomTableAssumption
<1>2. ASSUME NEW i \in 0..Len(t) PROVE CharAt(s, i) = CharAt(t, i)
  <2>1. i \in Nat
    BY <1>1
  <2>2. ASSUME NEW r \in Bits PROVE CharAt(s, i)[r] = CharAt(t, i)[r]
    <3>1. i * CharBits <= Len(t) * CharBits
      BY <1>1, <2>1
    <3>2. r \in Nat /\ r < CharBits
      BY <1>1 DEF Bits
    <3>3. i * CharBits + r \in 0..((Size(t) + CharBits) - 1)
      <4>1. PICK x \in Nat, y \in Nat : x = i * CharBits /\ y = Len(t) * CharBits
        BY <1>1, <2>1
      <4>2. x <= y
        BY <3>1, <4>1
      <4>3. x + r \in 0..((y + CharBits) - 1)
        BY <1>1, <3>2, <4>2
      <4> QED BY <4>1, <4>3 DEF Size
    <3>4. BitAt(s, i * CharBits + r) = BitAt(t, i * CharBits + r)
      <4>1. \A p \in 0..((Size(t) + CharBits) - 1) : BitAt(s, p) = BitAt(t, p)
        BY DEF Agree
      <4> QED BY <3>3, <4>1
    <3> QED BY <2>1, <3>4, Places DEF BitAt
  <2>3. CharAt(s, i) \in [Bits -> {0, 1}] /\ CharAt(t, i) \in [Bits -> {0, 1}]
    BY <2>1, CharFacts
  <2> QED BY <2>2, <2>3
<1>3. Len(s) <= Len(t)
  <2> SUFFICES ASSUME Len(t) < Len(s) PROVE FALSE
    BY <1>1
  <2>1. CharAt(s, Len(t)) # AllOnes /\ CharAt(t, Len(t)) = AllOnes
    BY <1>1, CharFacts
  <2> QED BY <1>1, <1>2, <2>1
<1>4. ASSUME NEW i \in 0..(Len(t) - 1) PROVE i < Len(s) /\ s[i + 1] = t[i + 1]
  <2>1. i \in Nat /\ i \in 0..Len(t) /\ i < Len(t)
    BY <1>1
  <2>2. CharAt(t, i) = t[i + 1] /\ CharAt(t, i) # AllOnes
    BY <2>1, CharFacts
  <2>3. CharAt(s, i) # AllOnes
    BY <1>2, <2>1, <2>2
  <2>4. i < Len(s)
    BY <1>1, <2>1, <2>3, CharFacts
  <2> QED BY <1>2, <2>1, <2>2, <2>4, CharFacts
<1>5. Len(s) = Len(t)
  <2> SUFFICES ASSUME Len(s) < Len(t) PROVE FALSE
    BY <1>1, <1>3
  <2>1. Len(s) \in 0..(Len(t) - 1)
    BY <1>1
  <2> QED BY <1>1, <1>4, <2>1
<1>6. ASSUME NEW i \in 1..Len(t) PROVE s[i] = t[i]
  <2>1. i - 1 \in 0..(Len(t) - 1) /\ i - 1 + 1 = i
    BY <1>1
  <2> QED BY <1>4, <2>1
<1> QED BY <1>5, <1>6, StringFacts

\* What strings with the same first bits have in common.
LEMMA AgreeFacts ==
    ASSUME NEW s \in Strings, NEW t \in Strings, NEW n \in Nat, Agree(s, t, n)
    PROVE  /\ Agree(t, s, n)
           /\ \A m \in Nat : m <= n => Agree(s, t, m) /\ Agree(t, s, m)
           /\ \A u \in Strings : Agree(u, s, n) => Agree(u, t, n)
           /\ \A p \in Nat : p < n => BitAt(s, p) = BitAt(t, p)
           /\ BitAt(s, n) = BitAt(t, n) => Agree(s, t, n + 1)
<1>1. \A p \in Nat : p < n => BitAt(s, p) = BitAt(t, p)
  <2>1. \A p \in Nat : p < n => p \in 0..(n - 1)
    OBVIOUS
  <2> QED BY <2>1 DEF Agree
<1>2. \A m \in Nat : m <= n => Agree(s, t, m) /\ Agree(t, s, m)
  <2> SUFFICES ASSUME NEW m \in Nat, m <= n PROVE Agree(s, t, m) /\ Agree(t, s, m)
    OBVIOUS
  <2>1. \A p \in 0..(m - 1) : p \in Nat /\ p < n
    OBVIOUS
  <2> QED BY <1>1, <2>1 DEF Agree
<1>3. Agree(t, s, n)
  BY <1>2
<1>4. \A u \in Strings : Agree(u, s, n) => Agree(u, t, n)
  BY DEF Agree
<1>5. BitAt(s, n) = BitAt(t, n) => Agree(s, t, n + 1)
  <2>1. \A p \in 0..(n + 1 - 1) : p = n \/ (p \in Nat /\ p < n)
    OBVIOUS
  <2> QED BY <1>1, <2>1 DEF Agree
<1> QED BY <1>1, <1>2, <1>3, <1>4, <1>5

\* A string has its own bits.
LEMMA AgreeWithItself ==
    ASSUME NEW s, NEW n PROVE Agree(s, s, n)
BY DEF Agree

\* firstMismatch finds the first bit that differs, or none.
LEMMA MismatchFacts ==
    ASSUME NEW s \in Strings, NEW t \in Strings, NEW start \in Nat, NEW stop \in Nat,
           Agree(s, t, start)
    PROVE  LET f == FirstMismatch(s, t, start, stop)
           IN /\ f < stop => /\ f \in Nat /\ f >= start
                             /\ Agree(s, t, f) /\ BitAt(s, f) # BitAt(t, f)
              /\ ~(f < stop) => Agree(s, t, stop)
<1>1. PICK D : D = {g \in start..(stop - 1) : BitAt(s, g) # BitAt(t, g)}
  OBVIOUS
<1>2. PICK f : f = FirstMismatch(s, t, start, stop)
  OBVIOUS
<1>3. CASE start >= stop
  <2>1. f = stop
    BY <1>2, <1>3 DEF FirstMismatch
  <2>2. Agree(s, t, stop)
    BY <1>3, AgreeFacts
  <2> QED BY <1>2, <2>1, <2>2
<1>4. CASE start < stop /\ D = {}
  <2>1. f = stop
    BY <1>1, <1>2, <1>4 DEF FirstMismatch
  <2>2. ASSUME NEW p \in 0..(stop - 1) PROVE BitAt(s, p) = BitAt(t, p)
    <3>1. CASE p < start
      BY <3>1, AgreeFacts
    <3>2. CASE ~(p < start)
      <4>1. p \in start..(stop - 1)
        BY <3>2
      <4> QED BY <1>1, <1>4, <4>1
    <3> QED BY <3>1, <3>2
  <2>3. Agree(s, t, stop)
    BY <2>2 DEF Agree
  <2> QED BY <1>2, <2>1, <2>3
<1>5. CASE start < stop /\ D # {}
  <2>1. D \in SUBSET Nat
    BY <1>1
  <2>2. \E g \in D : \A h \in D : g <= h
    BY <1>5, <2>1, LeastNatural
  <2>3. f = CHOOSE g \in D : \A h \in D : g <= h
    BY <1>1, <1>2, <1>5 DEF FirstMismatch
  <2>4. f \in D /\ \A h \in D : f <= h
    BY <2>2, <2>3
  <2>5. f \in Nat /\ f >= start /\ f < stop /\ BitAt(s, f) # BitAt(t, f)
    BY <1>1, <2>4
  <2>6. ASSUME NEW p \in 0..(f - 1) PROVE BitAt(s, p) = BitAt(t, p)
    <3>1. CASE p < start
      BY <2>5, <3>1, AgreeFacts
    <3>2. CASE ~(p < start)
      <4>1. p \in start..(stop - 1) /\ ~(f <= p)
        BY <2>5, <3>2
      <4> QED BY <1>1, <2>4, <4>1
    <3> QED BY <3>1, <3>2
  <2>7. Agree(s, t, f)
    BY <2>6 DEF Agree
  <2> QED BY <1>2, <2>5, <2>7
<1> QED BY <1>3, <1>4, <1>5

-----------------------------------------------------------------------------
(* AtomTable: the walk *)

\* What the atoms of a table are.
LEMMA AtomFacts ==
    ASSUME NEW A \in Seq(AtomRecords), NEW i \in 1..Len(A)
    PROVE  /\ A[i].data \in Strings /\ A[i].critBit \in Nat /\ A[i].critBit < LastBit
           /\ \A b \in {0, 1} : A[i].side[b] \in Nat
           /\ Depth(A, i) = A[i].critBit + 1
           /\ LastBit \in Nat
<1>1. A[i] \in AtomRecords
  OBVIOUS
<1>2. LastBit \in Nat
  BY AtomTableAssumption DEF LastBit
<1>3. i # 0
  OBVIOUS
<1> QED BY <1>1, <1>2, <1>3 DEF AtomRecords, Depth

\* The bit after the crit bit of an atom, or the first one at the root.
LEMMA DepthFacts ==
    ASSUME NEW A \in Seq(AtomRecords), NEW i \in 0..Len(A)
    PROVE  Depth(A, i) \in Nat /\ (i = 0 \/ i \in 1..Len(A))
<1>1. CASE i = 0
  BY <1>1 DEF Depth
<1>2. CASE i # 0
  <2>1. i \in 1..Len(A)
    BY <1>2
  <2> QED BY <2>1, AtomFacts
<1> QED BY <1>1, <1>2

\* The candidate's string ends before the last bit.
LEMMA SizeFacts ==
    ASSUME NEW s \in Strings
    PROVE  Size(s) + 2 * CharBits \in Nat /\ Size(s) + 2 * CharBits <= LastBit
<1>1. Len(s) \in Nat /\ Len(s) <= MaxLength /\ MaxLength \in Nat /\ CharBits \in Nat
  BY StringFacts, AtomTableAssumption
<1>2. (Len(s) + 2) * CharBits <= (MaxLength + 2) * CharBits
  BY <1>1
<1>3. (Len(s) + 2) * CharBits = Len(s) * CharBits + 2 * CharBits
  BY <1>1
<1>4. Len(s) * CharBits \in Nat
  BY <1>1
<1> QED BY <1>1, <1>2, <1>3, <1>4 DEF Size, LastBit

\* Where a walk for string s can be.
On(s, w) ==
    /\ w.from \in 0..Len(atoms) /\ w.b \in {0, 1} /\ w.cur \in 1..Len(atoms)
    /\ w.cur = Link(atoms, root, w.from, w.b)
    /\ w.nextToCheck = Depth(atoms, w.from)
    /\ Takes(atoms, s, w.from, w.b)
    /\ Agree(s, atoms[w.cur].data, w.nextToCheck)

\* Where a walk is: a link, the atom it leads to, the next bit to compare.
Turns == [from : Nat, b : {0, 1}, cur : Nat, nextToCheck : Nat]

\* What the comparison at such a place says.
LEMMA CompareFacts ==
    ASSUME CritBit(atoms, root), NEW s \in Strings, NEW w, On(s, w)
    PROVE  LET t == atoms[w.cur].data
               f == Mismatch(s, w)
           IN /\ w.nextToCheck \in 0..LastBit /\ CheckEnd(w) \in 0..LastBit
              /\ Differs(s, w) =>
                    /\ f \in 0..(LastBit - 1) /\ f >= w.nextToCheck /\ f < CheckEnd(w)
                    /\ Agree(s, t, f) /\ BitAt(s, f) # BitAt(t, f)
              /\ ~Differs(s, w) => Agree(s, t, CheckEnd(w))
              /\ ~Differs(s, w) /\ IsCandidate(w) => s = t
<1>1. atoms \in Seq(AtomRecords)
  BY DEF CritBit
<1>2. PICK t \in Strings : t = atoms[w.cur].data
  BY <1>1, AtomFacts DEF On
<1>3. w.nextToCheck \in 0..LastBit
  <2>1. CASE w.from = 0
    BY <1>1, <2>1, AtomFacts DEF On, Depth
  <2>2. CASE w.from # 0
    <3>1. PICK i \in 1..Len(atoms) : i = w.from
      BY <1>1, <2>2 DEF On
    <3>2. w.nextToCheck = Depth(atoms, i)
      BY <3>1 DEF On
    <3>3. Depth(atoms, i) \in 0..LastBit
      BY <1>1, AtomFacts
    <3> QED BY <3>2, <3>3
  <2> QED BY <2>1, <2>2
<1>4. atoms[w.cur].critBit \in Nat /\ atoms[w.cur].critBit < LastBit /\ LastBit \in Nat
  BY <1>1, AtomFacts DEF On
<1>5. CheckEnd(w) \in 0..LastBit
  BY <1>2, <1>4, SizeFacts DEF CheckEnd
<1>6. PICK m \in Nat, n \in Nat : m = w.nextToCheck /\ n = CheckEnd(w)
  BY <1>3, <1>4, <1>5
<1>7. Agree(s, t, m)
  BY <1>2, <1>6 DEF On
<1>8. PICK f : f = Mismatch(s, w)
  OBVIOUS
<1>9. f = FirstMismatch(s, t, m, n)
  BY <1>2, <1>6, <1>8 DEF Mismatch
<1>10. /\ f < n => f \in Nat /\ f >= m /\ Agree(s, t, f) /\ BitAt(s, f) # BitAt(t, f)
       /\ ~(f < n) => Agree(s, t, n)
  BY <1>7, <1>9, MismatchFacts
<1>11. Differs(s, w) <=> f < n
  BY <1>6, <1>8 DEF Differs
<1>12. ASSUME ~Differs(s, w), IsCandidate(w) PROVE s = t
  <2>1. n = Size(t) + 2 * CharBits
    BY <1>2, <1>6, <1>12 DEF CheckEnd
  <2>2. Size(t) + CharBits \in Nat /\ Size(t) + CharBits <= n
    BY <2>1, StringFacts, AtomTableAssumption
  <2>3. Agree(s, t, Size(t) + CharBits)
    BY <1>10, <1>11, <1>12, <2>2, AgreeFacts
  <2> QED BY <2>3, SameBits
<1>13. Differs(s, w) => f \in 0..(LastBit - 1)
  BY <1>4, <1>5, <1>6, <1>10, <1>11
<1> QED BY <1>2, <1>3, <1>5, <1>6, <1>8, <1>10, <1>11, <1>12, <1>13

\* A turn of the loop, when it does not return.
LEMMA TurnFacts ==
    ASSUME CritBit(atoms, root), NEW s \in Strings, NEW w, On(s, w),
           ~(Differs(s, w) \/ IsCandidate(w))
    PROVE  /\ On(s, Turn(s, w)) /\ Turn(s, w) \in Turns
           /\ Turn(s, w).nextToCheck > w.nextToCheck
<1>1. atoms \in Seq(AtomRecords) /\ Linked(atoms, root)
  BY DEF CritBit
<1>2. PICK i \in 1..Len(atoms) : i = w.cur
  BY DEF On
<1>3. PICK c \in Nat : c = atoms[i].critBit
  BY <1>1, AtomFacts
<1>4. PICK d : d = BitAt(s, c)
  OBVIOUS
<1>5. d \in {0, 1}
  BY <1>3, <1>4, BitFacts
<1>6. CheckEnd(w) = c /\ w.nextToCheck <= c /\ w.nextToCheck \in Nat
  BY <1>2, <1>3, CompareFacts, AtomTableAssumption DEF CheckEnd, IsCandidate, LastBit
<1>7. Agree(s, atoms[i].data, c)
  BY <1>2, <1>6, CompareFacts
<1>8. Takes(atoms, s, i, d)
  BY <1>3, <1>4, <1>7 DEF Takes
<1>9. PICK j : j = atoms[i].side[d]
  OBVIOUS
<1>10. j \in 1..Len(atoms) /\ Takes(atoms, atoms[j].data, i, d)
  <2> SUFFICES ASSUME d = 0, c = Size(atoms[i].data) + CharBits PROVE FALSE
    BY <1>1, <1>3, <1>5, <1>9 DEF Linked
  <2>1. atoms[i].data \in Strings
    BY <1>1, AtomFacts
  <2>2. s = atoms[i].data
    BY <1>7, <2>1, SameBits
  <2> QED BY <1>4, <2>2, BitsPastEnd
<1>11. Turn(s, w) = [from |-> i, b |-> d, cur |-> j, nextToCheck |-> c + 1]
  BY <1>2, <1>3, <1>4, <1>9 DEF Turn
<1>12. PICK t \in Strings : t = atoms[i].data
  BY <1>1, AtomFacts
<1>13. PICK u \in Strings : u = atoms[j].data
  BY <1>1, <1>10, AtomFacts
<1>14. Agree(u, t, c) /\ BitAt(u, c) = d
  BY <1>3, <1>10, <1>12, <1>13 DEF Takes
<1>15. Agree(s, u, c)
  <2>1. Agree(t, u, c)
    BY <1>14, AgreeFacts
  <2> QED BY <1>7, <1>12, <2>1, AgreeFacts
<1>16. Agree(s, u, c + 1)
  BY <1>4, <1>14, <1>15, AgreeFacts
<1>17. On(s, Turn(s, w))
  <2>1. Depth(atoms, i) = c + 1 /\ Link(atoms, root, i, d) = j
    BY <1>3, <1>9 DEF Depth, Link
  <2> QED BY <1>5, <1>8, <1>10, <1>11, <1>13, <1>16, <2>1 DEF On
<1>18. c + 1 \in Nat
  OBVIOUS
<1>19. Turn(s, w) \in Turns
  BY <1>5, <1>10, <1>11, <1>18 DEF Turns
<1> QED BY <1>6, <1>11, <1>17, <1>19

\* The walk ends, at a place where the atom of s is or belongs.
LEMMA WalkEnds ==
    ASSUME CritBit(atoms, root), root # 0, NEW s \in Strings
    PROVE  LET w == WalkFromRoot(s)
           IN On(s, w) /\ (Differs(s, w) \/ IsCandidate(w))
<1>1. LastBit \in Nat /\ atoms \in Seq(AtomRecords)
  BY AtomTableAssumption DEF LastBit, CritBit
<1>2. PICK v : v = [from |-> 0, b |-> 0, cur |-> root, nextToCheck |-> 0]
  OBVIOUS
<1>3. On(s, v) /\ v \in Turns
  <2>1. root \in 1..Len(atoms)
    BY <1>1 DEF CritBit, Linked
  <2>2. Agree(s, atoms[root].data, 0)
    BY DEF Agree
  <2> QED BY <1>1, <1>2, <2>1, <2>2 DEF On, Turns, Link, Depth, Takes
<1>4. PICK X : X = {w \in Turns : On(s, w)}
  OBVIOUS
<1>5. PICK E : E = {w \in X : Differs(s, w) \/ IsCandidate(w)}
  OBVIOUS
<1>6. ASSUME NEW w \in X
      PROVE  /\ Turn(s, w) \in X /\ (w \in E => Turn(s, w) = w)
             /\ w \notin E => Turn(s, w).nextToCheck >= w.nextToCheck + 1
  <2>1. w \in Turns /\ On(s, w)
    BY <1>4
  <2>2. CASE w \in E
    BY <1>5, <2>2 DEF Turn
  <2>3. CASE w \notin E
    <3>1. /\ On(s, Turn(s, w)) /\ Turn(s, w) \in Turns
          /\ Turn(s, w).nextToCheck > w.nextToCheck
      BY <1>5, <2>1, <2>3, TurnFacts
    <3>2. w.nextToCheck \in Nat /\ Turn(s, w).nextToCheck \in Nat
      BY <2>1, <3>1 DEF Turns
    <3> QED BY <1>4, <2>3, <3>1, <3>2
  <2> QED BY <2>2, <2>3
<1>7. PICK S : S = {k \in Nat : \E f \in [0..k -> X] :
                      /\ f[0] = v /\ \A i \in 1..k : f[i] = Turn(s, f[i - 1])
                      /\ f[k] \in E \/ f[k].nextToCheck >= k}
  OBVIOUS
<1>8. 0 \in S
  <2>1. PICK f : f = [i \in 0..0 |-> v]
    OBVIOUS
  <2>2. f \in [0..0 -> X] /\ f[0] = v /\ f[0].nextToCheck >= 0
    BY <1>2, <1>3, <1>4, <2>1
  <2>3. \A i \in 1..0 : f[i] = Turn(s, f[i - 1])
    OBVIOUS
  <2> QED BY <1>7, <2>2, <2>3
<1>9. ASSUME NEW k \in Nat, k \in S PROVE k + 1 \in S
  <2>1. PICK f \in [0..k -> X] : /\ f[0] = v
                                 /\ \A i \in 1..k : f[i] = Turn(s, f[i - 1])
                                 /\ f[k] \in E \/ f[k].nextToCheck >= k
    BY <1>7, <1>9
  <2>2. PICK x : x = Turn(s, f[k])
    OBVIOUS
  <2>3. PICK y \in X : y = f[k]
    OBVIOUS
  <2>4. x \in X /\ (x \in E \/ x.nextToCheck >= k + 1)
    <3>1. x = Turn(s, y) /\ (y \in E \/ y.nextToCheck >= k)
      BY <2>1, <2>2, <2>3
    <3>2. /\ x \in X /\ (y \in E => x = y)
          /\ y \notin E => x.nextToCheck >= y.nextToCheck + 1
      BY <1>6, <3>1
    <3>3. y.nextToCheck \in Nat /\ x.nextToCheck \in Nat
      BY <1>4, <3>2 DEF Turns
    <3> QED BY <3>1, <3>2, <3>3
  <2>5. PICK g : g = [i \in 0..(k + 1) |-> IF i = k + 1 THEN x ELSE f[i]]
    OBVIOUS
  <2>6. g[k + 1] = x /\ \A i \in 0..k : g[i] = f[i]
    BY <2>5
  <2>7. g \in [0..(k + 1) -> X]
    BY <2>4, <2>5
  <2>8. ASSUME NEW i \in 1..(k + 1) PROVE g[i] = Turn(s, g[i - 1])
    <3>1. CASE i = k + 1
      BY <2>2, <2>6, <3>1
    <3>2. CASE i # k + 1
      <4>1. i \in 1..k /\ i \in 0..k /\ i - 1 \in 0..k
        BY <3>2
      <4>2. g[i] = f[i] /\ g[i - 1] = f[i - 1]
        BY <2>6, <4>1
      <4>3. f[i] = Turn(s, f[i - 1])
        BY <2>1, <4>1
      <4> QED BY <4>2, <4>3
    <3> QED BY <3>1, <3>2
  <2>9. g[0] = v
    BY <2>1, <2>6
  <2>10. g[k + 1] \in E \/ g[k + 1].nextToCheck >= k + 1
    BY <2>4, <2>6
  <2>11. k + 1 \in Nat
    OBVIOUS
  <2> QED BY <1>7, <2>7, <2>8, <2>9, <2>10, <2>11
<1>10. LastBit \in S
  BY <1>1, <1>7, <1>8, <1>9, SetInduction
<1>11. PICK f \in [0..LastBit -> X] :
          /\ f[0] = v /\ \A i \in 1..LastBit : f[i] = Turn(s, f[i - 1])
          /\ f[LastBit] \in E \/ f[LastBit].nextToCheck >= LastBit
  BY <1>7, <1>10
<1>12. f = [n \in 0..LastBit |-> IF n = 0 THEN v ELSE Turn(s, f[n - 1])]
  <2>1. ASSUME NEW n \in 0..LastBit PROVE f[n] = IF n = 0 THEN v ELSE Turn(s, f[n - 1])
    <3>1. CASE n = 0
      BY <1>11, <3>1
    <3>2. CASE n # 0
      <4>1. n \in 1..LastBit
        BY <1>1, <3>2
      <4> QED BY <1>11, <3>2, <4>1
    <3> QED BY <3>1, <3>2
  <2>2. f = [n \in 0..LastBit |-> f[n]]
    OBVIOUS
  <2>3. [n \in 0..LastBit |-> f[n]]
        = [n \in 0..LastBit |-> IF n = 0 THEN v ELSE Turn(s, f[n - 1])]
    BY <2>1
  <2> QED BY <2>2, <2>3
<1>13. PICK h : h = CHOOSE e : e = [n \in 0..LastBit |-> IF n = 0 THEN v
                                                     ELSE Turn(s, e[n - 1])]
  OBVIOUS
<1>14. h = [n \in 0..LastBit |-> IF n = 0 THEN v ELSE Turn(s, h[n - 1])]
  BY <1>12, <1>13
<1>15. WalkFromRoot(s) = h[LastBit]
  BY <1>2, <1>13 DEF WalkFromRoot
<1>16. PICK T : T = {k \in Nat : k \in 0..LastBit => h[k] = f[k]}
  OBVIOUS
<1>17. 0 \in T
  BY <1>1, <1>11, <1>14, <1>16
<1>18. ASSUME NEW k \in Nat, k \in T PROVE k + 1 \in T
  <2> SUFFICES ASSUME k + 1 \in 0..LastBit PROVE h[k + 1] = f[k + 1]
    BY <1>16
  <2>1. k \in 0..LastBit /\ k + 1 \in 1..LastBit /\ k + 1 # 0 /\ (k + 1) - 1 = k
    BY <1>1
  <2>2. h[k] = f[k]
    BY <1>16, <1>18, <2>1
  <2>3. h[k + 1] = Turn(s, h[k])
    BY <1>14, <2>1
  <2>4. f[k + 1] = Turn(s, f[k])
    BY <1>11, <2>1
  <2> QED BY <2>2, <2>3, <2>4
<1>19. h[LastBit] = f[LastBit]
  <2>1. LastBit \in T
    BY <1>1, <1>16, <1>17, <1>18, SetInduction
  <2> QED BY <1>1, <1>16, <2>1
<1>20. PICK w : w = f[LastBit]
  OBVIOUS
<1>21. On(s, w) /\ (w \in E \/ w.nextToCheck >= LastBit)
  BY <1>1, <1>4, <1>11, <1>20
<1>22. Differs(s, w) \/ IsCandidate(w)
  <2>1. CASE w \in E
    BY <1>5, <2>1
  <2>2. CASE w.nextToCheck >= LastBit
    <3>1. w.cur \in 1..Len(atoms) /\ w.nextToCheck \in 0..LastBit
      BY <1>21, CompareFacts DEF On
    <3>2. PICK i \in 1..Len(atoms) : i = w.cur
      BY <3>1
    <3>3. atoms[i].critBit \in Nat /\ atoms[i].critBit < LastBit
      BY <1>1, AtomFacts
    <3> QED BY <1>1, <2>2, <3>1, <3>2, <3>3 DEF IsCandidate
  <2> QED BY <1>21, <2>1, <2>2
<1> QED BY <1>15, <1>19, <1>20, <1>21, <1>22

-----------------------------------------------------------------------------
(* AtomTable: a new atom *)

\* A string that has the bits that have been passed at a link, and the one that
\* chooses it, takes it too.
LEMMA TakesToo ==
    ASSUME NEW A \in Seq(AtomRecords), NEW i \in 0..Len(A), NEW b \in {0, 1},
           NEW s \in Strings, NEW t \in Strings, NEW n \in Nat,
           Takes(A, s, i, b), Agree(t, s, n), Depth(A, i) <= n
    PROVE  Takes(A, t, i, b)
<1>1. CASE i = 0
  BY <1>1 DEF Takes
<1>2. CASE i # 0
  <2>1. i \in 1..Len(A)
    BY <1>2
  <2>2. PICK c \in Nat, u \in Strings : c = A[i].critBit /\ u = A[i].data
    BY <2>1, AtomFacts
  <2>3. c < n
    BY <2>1, <2>2, AtomFacts
  <2>4. Agree(s, u, c) /\ BitAt(s, c) = b
    BY <1>2, <2>2 DEF Takes
  <2>5. Agree(t, s, c) /\ BitAt(t, c) = BitAt(s, c)
    BY <2>3, AgreeFacts
  <2>6. Agree(t, u, c)
    BY <2>4, <2>5, AgreeFacts
  <2> QED BY <1>2, <2>2, <2>4, <2>5, <2>6 DEF Takes
<1> QED BY <1>1, <1>2

\* The place of a new string s in the tree A with root r: on link b of atom i,
\* which leads to atom j, at bit f.
Place(A, r, s, i, b, j, f) ==
    /\ i \in 0..Len(A) /\ b \in {0, 1} /\ j \in 1..Len(A) /\ f \in 0..(LastBit - 1)
    /\ j = Link(A, r, i, b) /\ Takes(A, s, i, b) /\ f >= Depth(A, i)
    /\ Agree(s, A[j].data, f) /\ BitAt(s, f) # BitAt(A[j].data, f)
    /\ A[j].critBit < Depth(A, i) \/ f < A[j].critBit

\* No atom has the bits of s beyond bit f, and none with those before it belongs
\* at bit f.
LEMMA PlaceIsFree ==
    ASSUME NEW A, NEW r, CritBit(A, r), NEW s \in Strings,
           NEW i, NEW b, NEW j, NEW f, Place(A, r, s, i, b, j, f),
           NEW k \in 1..Len(A), Agree(A[k].data, s, f)
    PROVE  /\ Takes(A, A[k].data, i, b)
           /\ A[j].critBit < Depth(A, i) => k = j
           /\ ~(A[j].critBit < Depth(A, i)) => /\ f < A[j].critBit
                                              /\ Agree(A[k].data, A[j].data, A[j].critBit)
           /\ BitAt(A[k].data, f) # BitAt(s, f)
           /\ A[k].critBit >= f => A[j].critBit <= A[k].critBit /\ A[k].critBit > f
<1>1. A \in Seq(AtomRecords) /\ Led(A, r) /\ Dense(A, r)
  BY DEF CritBit
<1>2. /\ i \in 0..Len(A) /\ b \in {0, 1} /\ j \in 1..Len(A) /\ f \in Nat
      /\ j = Link(A, r, i, b) /\ Takes(A, s, i, b) /\ f >= Depth(A, i)
      /\ Agree(s, A[j].data, f) /\ BitAt(s, f) # BitAt(A[j].data, f)
      /\ A[j].critBit < Depth(A, i) \/ f < A[j].critBit
  BY AtomTableAssumption DEF Place, LastBit
<1>3. PICK u \in Strings, c \in Nat : u = A[k].data /\ c = A[k].critBit
  BY <1>1, AtomFacts
<1>4. PICK t \in Strings, x \in Nat : t = A[j].data /\ x = A[j].critBit
  BY <1>1, <1>2, AtomFacts
<1>5. PICK m \in Nat : m = Depth(A, i)
  BY <1>1, <1>2, DepthFacts
<1>6. Takes(A, u, i, b)
  BY <1>1, <1>2, <1>3, <1>5, TakesToo
<1>7. IF x < m THEN k = j ELSE Agree(u, t, x)
  BY <1>1, <1>2, <1>3, <1>4, <1>5, <1>6 DEF Led
<1>8. BitAt(u, f) # BitAt(s, f)
  <2>1. CASE x < m
    BY <1>2, <1>3, <1>4, <1>7, <2>1
  <2>2. CASE ~(x < m)
    <3>1. f < x
      BY <1>2, <1>4, <1>5, <2>2
    <3>2. BitAt(u, f) = BitAt(t, f)
      BY <1>2, <1>7, <2>2, <3>1, AgreeFacts
    <3> QED BY <1>2, <1>4, <3>2
  <2> QED BY <2>1, <2>2
<1>9. ASSUME c >= f PROVE x <= c /\ c > f
  <2>1. c >= m
    BY <1>2, <1>5, <1>9
  <2>2. x <= c
    BY <1>1, <1>2, <1>3, <1>4, <1>5, <1>6, <2>1 DEF Dense
  <2>3. CASE x < m
    <3>1. k = j
      BY <1>7, <2>3
    <3>2. c = x
      BY <1>3, <1>4, <3>1
    <3> QED BY <2>1, <2>3, <3>2
  <2>4. CASE ~(x < m)
    BY <1>2, <1>4, <1>5, <2>2, <2>4
  <2> QED BY <2>2, <2>3, <2>4
<1> QED BY <1>2, <1>3, <1>4, <1>5, <1>6, <1>7, <1>8, <1>9

\* The links that s takes before its place: they end at atoms that s has passed.
LEMMA OtherLinks ==
    ASSUME NEW A, NEW r, CritBit(A, r), NEW s \in Strings,
           NEW i, NEW b, NEW j, NEW f, Place(A, r, s, i, b, j, f),
           NEW g \in 0..Len(A), NEW d \in {0, 1}, Takes(A, s, g, d), ~(g = i /\ d = b)
    PROVE  LET k == Link(A, r, g, d)
           IN /\ Depth(A, g) <= f /\ k \in 1..Len(A)
              /\ A[k].critBit >= Depth(A, g) /\ A[k].critBit < f
              /\ Agree(s, A[k].data, A[k].critBit)
<1>1. A \in Seq(AtomRecords) /\ Led(A, r) /\ Dense(A, r) /\ Single(A)
  BY DEF CritBit
<1>2. /\ i \in 0..Len(A) /\ b \in {0, 1} /\ j \in 1..Len(A) /\ f \in Nat
      /\ j = Link(A, r, i, b) /\ Takes(A, s, i, b) /\ f >= Depth(A, i)
      /\ Agree(s, A[j].data, f) /\ BitAt(s, f) # BitAt(A[j].data, f)
      /\ A[j].critBit < Depth(A, i) \/ f < A[j].critBit
  BY AtomTableAssumption DEF Place, LastBit
<1>3. PICK k : k = Link(A, r, g, d)
  OBVIOUS
<1>4. PICK t \in Strings, x \in Nat : t = A[j].data /\ x = A[j].critBit
  BY <1>1, <1>2, AtomFacts
<1>5. \A h \in 0..Len(A) :
         /\ Depth(A, h) \in Nat /\ (Depth(A, h) = 0 <=> h = 0)
         /\ h # 0 => /\ h \in 1..Len(A) /\ A[h].data \in Strings /\ A[h].critBit \in Nat
                     /\ Depth(A, h) = A[h].critBit + 1
  <2> SUFFICES ASSUME NEW h \in 0..Len(A)
      PROVE  /\ Depth(A, h) \in Nat /\ (Depth(A, h) = 0 <=> h = 0)
             /\ h # 0 => /\ h \in 1..Len(A) /\ A[h].data \in Strings
                         /\ A[h].critBit \in Nat /\ Depth(A, h) = A[h].critBit + 1
    OBVIOUS
  <2>1. CASE h = 0
    BY <2>1 DEF Depth
  <2>2. CASE h # 0
    <3>1. h \in 1..Len(A)
      BY <1>1, <2>2
    <3> QED BY <1>1, <2>2, <3>1, AtomFacts
  <2> QED BY <2>1, <2>2
<1>6. PICK m \in Nat, n \in Nat : m = Depth(A, i) /\ n = Depth(A, g)
  BY <1>2, <1>5
<1>7. n <= f
  <2> SUFFICES ASSUME n > f PROVE FALSE
    BY <1>2, <1>6
  <2>1. g # 0
    BY <1>2, <1>5, <1>6
  <2>2. PICK u \in Strings, c \in Nat :
           g \in 1..Len(A) /\ u = A[g].data /\ c = A[g].critBit /\ n = c + 1
    BY <1>5, <1>6, <2>1
  <2>3. Agree(s, u, c)
    BY <2>1, <2>2 DEF Takes
  <2>4. c >= f
    BY <1>2, <2>2
  <2>5. Agree(u, s, f)
    BY <1>2, <2>3, <2>4, AgreeFacts
  <2>6. c > f
    BY <2>2, <2>4, <2>5, PlaceIsFree
  <2>7. BitAt(s, f) = BitAt(u, f)
    BY <1>2, <2>3, <2>6, AgreeFacts
  <2> QED BY <2>2, <2>5, <2>7, PlaceIsFree
<1>8. Takes(A, t, g, d)
  <2>1. Agree(t, s, f)
    BY <1>2, <1>4, AgreeFacts
  <2> QED BY <1>1, <1>2, <1>6, <1>7, <2>1, TakesToo
<1>9. k \in 1..Len(A) /\ (IF A[k].critBit < n THEN j = k ELSE Agree(t, A[k].data, A[k].critBit))
  BY <1>1, <1>2, <1>3, <1>4, <1>6, <1>8 DEF Led
<1>10. PICK u \in Strings, c \in Nat : u = A[k].data /\ c = A[k].critBit
  BY <1>1, <1>9, AtomFacts
<1>11. c >= n /\ c <= f
  <2> SUFFICES ASSUME c < n \/ c > f PROVE FALSE
    BY <1>2, <1>6
  <2>1. n # m
    <3> SUFFICES ASSUME n = m PROVE FALSE
      OBVIOUS
    <3>1. CASE i = 0
      BY <1>2, <1>5, <1>6, <3>1 DEF Takes
    <3>2. CASE i # 0
      <4>1. g # 0
        BY <1>2, <1>5, <1>6, <3>2
      <4>2. PICK e \in Nat : e = A[i].critBit /\ m = e + 1
        BY <1>2, <1>5, <1>6, <3>2
      <4>3. e = A[g].critBit
        BY <1>5, <1>6, <4>1, <4>2
      <4>4. Agree(s, A[i].data, e) /\ BitAt(s, e) = b
        BY <1>2, <3>2, <4>2 DEF Takes
      <4>5. Agree(s, A[g].data, e) /\ BitAt(s, e) = d
        BY <4>1, <4>3 DEF Takes
      <4>6. PICK v \in Strings, w \in Strings : v = A[i].data /\ w = A[g].data
        BY <1>2, <1>5, <3>2, <4>1
      <4>7. Agree(v, w, e)
        <5>1. Agree(v, s, e)
          BY <4>4, <4>6, AgreeFacts
        <5> QED BY <4>5, <4>6, <5>1, AgreeFacts
      <4>8. i \in 1..Len(A) /\ g \in 1..Len(A)
        BY <1>2, <1>5, <3>2, <4>1
      <4>9. i = g
        BY <1>1, <4>2, <4>3, <4>6, <4>7, <4>8 DEF Single
      <4> QED BY <4>4, <4>5, <4>9
    <3> QED BY <3>1, <3>2
  <2>2. CASE n < m
    <3>1. i # 0
      BY <1>2, <1>5, <1>6, <2>2
    <3>2. PICK e \in Nat, v \in Strings :
             i \in 1..Len(A) /\ e = A[i].critBit /\ m = e + 1 /\ v = A[i].data
      BY <1>2, <1>5, <1>6, <3>1
    <3>3. e >= n /\ e < f
      BY <1>2, <1>6, <2>2, <3>2
    <3>4. Agree(s, v, e)
      BY <1>2, <3>1, <3>2 DEF Takes
    <3>5. Agree(v, s, e)
      BY <3>4, AgreeFacts
    <3>6. Takes(A, v, g, d)
      BY <1>1, <1>6, <3>3, <3>5, TakesToo
    <3>7. c <= e
      BY <1>1, <1>3, <1>6, <1>10, <3>2, <3>3, <3>6 DEF Dense
    <3>8. c < n
      BY <1>2, <3>3, <3>7
    <3>9. i = k
      BY <1>1, <1>3, <1>6, <1>10, <3>2, <3>6, <3>8 DEF Led
    <3> QED BY <1>10, <3>2, <3>3, <3>8, <3>9
  <2>3. CASE m < n
    <3>1. g # 0
      BY <1>5, <1>6, <2>3
    <3>2. PICK e \in Nat, v \in Strings :
             g \in 1..Len(A) /\ e = A[g].critBit /\ n = e + 1 /\ v = A[g].data
      BY <1>5, <1>6, <3>1
    <3>3. e >= m /\ e < f
      BY <1>2, <1>7, <2>3, <3>2
    <3>4. Agree(v, s, e)
      <4>1. Agree(s, v, e)
        BY <3>1, <3>2 DEF Takes
      <4> QED BY <4>1, AgreeFacts
    <3>5. Takes(A, v, i, b)
      BY <1>1, <1>2, <1>6, <3>3, <3>4, TakesToo
    <3>6. x <= e
      BY <1>1, <1>2, <1>4, <1>6, <3>2, <3>3, <3>5 DEF Dense
    <3>7. x < m
      BY <1>2, <1>4, <1>6, <3>3, <3>6
    <3>8. g = j
      BY <1>1, <1>2, <1>4, <1>6, <3>2, <3>5, <3>7 DEF Led
    <3> QED BY <1>4, <3>2, <3>3, <3>7, <3>8
  <2> QED BY <1>6, <2>1, <2>2, <2>3
<1>12. Agree(t, u, c)
  BY <1>9, <1>10, <1>11
<1>13. Agree(s, u, c)
  <2>1. Agree(s, t, c)
    BY <1>2, <1>4, <1>11, AgreeFacts
  <2>2. Agree(u, t, c)
    BY <1>12, AgreeFacts
  <2> QED BY <1>12, <2>1, AgreeFacts
<1>14. c # f
  <2> SUFFICES ASSUME c = f PROVE FALSE
    OBVIOUS
  <2>1. Agree(u, s, f)
    BY <1>13, AgreeFacts
  <2>2. c > f
    BY <1>9, <1>10, <2>1, PlaceIsFree
  <2> QED BY <2>2
<1>15. c < f
  BY <1>2, <1>11, <1>14
<1> QED BY <1>3, <1>6, <1>7, <1>9, <1>10, <1>11, <1>13, <1>15

\* The tree B with root q has one atom more, s at that place.
Extends(A, r, B, q, s, i, b, j, f) ==
    LET n == Len(A) + 1
    IN /\ B \in Seq(AtomRecords) /\ Len(B) = n
       /\ \A k \in 1..Len(A) :
             /\ B[k].data = A[k].data /\ B[k].critBit = A[k].critBit
             /\ \A e \in {0, 1} : B[k].side[e] = IF k = i /\ e = b THEN n ELSE A[k].side[e]
       /\ q = IF i = 0 THEN n ELSE r
       /\ B[n].data = s /\ B[n].critBit = f
       /\ \A e \in {0, 1} : B[n].side[e] = IF e = BitAt(s, f) THEN n ELSE j

\* What its links are.
LEMMA LinksAfter ==
    ASSUME NEW A, NEW r, CritBit(A, r), NEW s \in Strings,
           NEW i, NEW b, NEW j, NEW f, Place(A, r, s, i, b, j, f),
           NEW B, NEW q, Extends(A, r, B, q, s, i, b, j, f)
    PROVE  LET n == Len(A) + 1
           IN /\ \A k \in 0..Len(A), e \in {0, 1}, t \in Strings :
                    /\ Depth(B, k) = Depth(A, k)
                    /\ Takes(B, t, k, e) <=> Takes(A, t, k, e)
                    /\ Takes(A, t, k, e) =>
                          Link(B, q, k, e) = IF k = i /\ e = b THEN n ELSE Link(A, r, k, e)
              /\ \A e \in {0, 1}, t \in Strings :
                    /\ Depth(B, n) = f + 1
                    /\ Takes(B, t, n, e) <=> Agree(t, s, f) /\ BitAt(t, f) = e
                    /\ Link(B, q, n, e) = IF e = BitAt(s, f) THEN n ELSE j
              /\ n \in Nat /\ n # 0 /\ Len(A) \in Nat
<1>1. PICK n : n = Len(A) + 1
  OBVIOUS
<1>2. Len(A) \in Nat /\ n \in Nat /\ n # 0
  BY <1>1 DEF CritBit
<1>3. i = 0 => b = 0
  BY DEF Place, Takes
<1>4. ASSUME NEW k \in 0..Len(A), NEW e \in {0, 1}, NEW t \in Strings
      PROVE  /\ Depth(B, k) = Depth(A, k)
             /\ Takes(B, t, k, e) <=> Takes(A, t, k, e)
             /\ Takes(A, t, k, e) =>
                   Link(B, q, k, e) = IF k = i /\ e = b THEN n ELSE Link(A, r, k, e)
  <2>1. CASE k = 0
    BY <1>1, <1>3, <2>1 DEF Extends, Depth, Takes, Link
  <2>2. CASE k # 0
    <3>1. k \in 1..Len(A)
      BY <1>2, <2>2
    <3>2. /\ B[k].data = A[k].data /\ B[k].critBit = A[k].critBit
          /\ B[k].side[e] = IF k = i /\ e = b THEN n ELSE A[k].side[e]
      BY <1>1, <3>1 DEF Extends
    <3> QED BY <2>2, <3>2 DEF Depth, Takes, Link
  <2> QED BY <2>1, <2>2
<1>5. ASSUME NEW e \in {0, 1}, NEW t \in Strings
      PROVE  /\ Depth(B, n) = f + 1
             /\ Takes(B, t, n, e) <=> Agree(t, s, f) /\ BitAt(t, f) = e
             /\ Link(B, q, n, e) = IF e = BitAt(s, f) THEN n ELSE j
  <2>1. /\ B[n].data = s /\ B[n].critBit = f
        /\ B[n].side[e] = IF e = BitAt(s, f) THEN n ELSE j
    BY <1>1 DEF Extends
  <2> QED BY <1>2, <2>1 DEF Depth, Takes, Link
<1> QED BY <1>1, <1>2, <1>4, <1>5

\* With the new atom, links still lead where they must,
LEMMA LinkedAfter ==
    ASSUME NEW A, NEW r, CritBit(A, r), NEW s \in Strings,
           NEW i, NEW b, NEW j, NEW f, Place(A, r, s, i, b, j, f),
           NEW B, NEW q, Extends(A, r, B, q, s, i, b, j, f)
    PROVE  Linked(B, q)
<1>1. A \in Seq(AtomRecords) /\ Linked(A, r)
  BY DEF CritBit
<1>2. PICK n : n = Len(A) + 1
  OBVIOUS
<1>3. /\ n \in Nat /\ n # 0 /\ Len(A) \in Nat /\ Len(B) = n /\ f \in Nat
      /\ i \in 0..Len(A) /\ b \in {0, 1} /\ j \in 1..Len(A)
  BY <1>2, LinksAfter, AtomTableAssumption DEF Extends, Place, LastBit
<1>4. q \in 0..Len(B) /\ (q = 0 <=> Len(B) = 0)
  <2>1. q = IF i = 0 THEN n ELSE r
    BY <1>2 DEF Extends
  <2>2. r \in 0..Len(A) /\ (r = 0 <=> Len(A) = 0)
    BY <1>1 DEF Linked
  <2> QED BY <1>2, <1>3, <2>1, <2>2
<1>5. ASSUME NEW k \in 1..Len(A), NEW e \in {0, 1}
      PROVE  LET h == B[k].side[e]
             IN \/ h \in 1..Len(B) /\ Takes(B, B[h].data, k, e)
                \/ h = 0 /\ e = 0 /\ B[k].critBit = Size(B[k].data) + CharBits
  <2>1. /\ B[k].data = A[k].data /\ B[k].critBit = A[k].critBit
        /\ B[k].side[e] = IF k = i /\ e = b THEN n ELSE A[k].side[e]
    BY <1>2 DEF Extends
  <2>2. CASE k = i /\ e = b
    <3>1. B[n].data = s
      BY <1>2 DEF Extends
    <3>2. Takes(A, s, k, e)
      BY <2>2 DEF Place
    <3>3. k \in 0..Len(A)
      OBVIOUS
    <3>4. Takes(B, s, k, e)
      BY <3>2, <3>3, LinksAfter
    <3> QED BY <1>3, <2>1, <2>2, <3>1, <3>4
  <2>3. CASE ~(k = i /\ e = b)
    <3>1. PICK h : h = A[k].side[e]
      OBVIOUS
    <3>2. \/ h \in 1..Len(A) /\ Takes(A, A[h].data, k, e)
          \/ h = 0 /\ e = 0 /\ A[k].critBit = Size(A[k].data) + CharBits
      BY <1>1, <3>1 DEF Linked
    <3>3. ASSUME h \in 1..Len(A), Takes(A, A[h].data, k, e)
          PROVE  h \in 1..Len(B) /\ Takes(B, B[h].data, k, e)
      <4>1. B[h].data = A[h].data /\ A[h].data \in Strings
        BY <1>1, <1>2, <3>3, AtomFacts DEF Extends
      <4>2. k \in 0..Len(A)
        OBVIOUS
      <4>3. Takes(B, A[h].data, k, e)
        BY <3>3, <4>1, <4>2, LinksAfter
      <4> QED BY <1>2, <1>3, <3>3, <4>1, <4>3
    <3> QED BY <2>1, <2>3, <3>1, <3>2, <3>3
  <2> QED BY <2>2, <2>3
<1>6. ASSUME NEW e \in {0, 1}
      PROVE  B[n].side[e] \in 1..Len(B) /\ Takes(B, B[B[n].side[e]].data, n, e)
  <2>1. B[n].side[e] = (IF e = BitAt(s, f) THEN n ELSE j) /\ B[n].data = s
    BY <1>2 DEF Extends
  <2>2. CASE e = BitAt(s, f)
    <3>1. Takes(B, s, n, e)
      BY <1>2, <2>2, LinksAfter, AgreeWithItself
    <3> QED BY <1>3, <2>1, <2>2, <3>1
  <2>3. CASE e # BitAt(s, f)
    <3>1. PICK t \in Strings : t = A[j].data /\ t = B[j].data
      BY <1>1, <1>2, <1>3, AtomFacts DEF Extends
    <3>2. Agree(s, t, f) /\ BitAt(s, f) # BitAt(t, f)
      BY <3>1 DEF Place
    <3>3. Agree(t, s, f)
      BY <1>3, <3>2, AgreeFacts
    <3>4. BitAt(t, f) = e
      BY <1>3, <2>3, <3>2, BitFacts
    <3>5. Takes(B, t, n, e)
      BY <1>2, <3>3, <3>4, LinksAfter
    <3> QED BY <1>2, <1>3, <2>1, <2>3, <3>1, <3>5
  <2> QED BY <2>2, <2>3
<1>7. \A k \in 1..Len(B) : k \in 1..Len(A) \/ k = n
  BY <1>2, <1>3
<1> QED BY <1>4, <1>5, <1>6, <1>7 DEF Linked

\* and every atom is still found, and in its order.
LEMMA LedAfter ==
    ASSUME NEW A, NEW r, CritBit(A, r), NEW s \in Strings,
           NEW i, NEW b, NEW j, NEW f, Place(A, r, s, i, b, j, f),
           NEW B, NEW q, Extends(A, r, B, q, s, i, b, j, f)
    PROVE  Led(B, q) /\ Dense(B, q)
<1>1. A \in Seq(AtomRecords) /\ Led(A, r) /\ Dense(A, r)
  BY DEF CritBit
<1>2. PICK n : n = Len(A) + 1
  OBVIOUS
<1>3. /\ n \in Nat /\ n # 0 /\ Len(A) \in Nat /\ Len(B) = n /\ f \in Nat
      /\ i \in 0..Len(A) /\ b \in {0, 1} /\ j \in 1..Len(A)
      /\ Depth(A, i) <= f /\ j = Link(A, r, i, b) /\ Takes(A, s, i, b)
  BY <1>2, LinksAfter, AtomTableAssumption DEF Extends, Place, LastBit
<1>4. B[n].data = s /\ B[n].critBit = f
  BY <1>2 DEF Extends
<1>5. \A k \in 1..Len(A) : B[k].data = A[k].data /\ B[k].critBit = A[k].critBit
  BY <1>2 DEF Extends
<1>6. ASSUME NEW g \in 0..Len(B), NEW d \in {0, 1}, NEW k \in 1..Len(B),
             Takes(B, B[k].data, g, d)
      PROVE  LET h == Link(B, q, g, d)
             IN /\ h \in 1..Len(B)
                /\ IF B[h].critBit < Depth(B, g) THEN k = h
                   ELSE Agree(B[k].data, B[h].data, B[h].critBit)
                /\ B[k].critBit >= Depth(B, g) =>
                      /\ B[h].critBit <= B[k].critBit
                      /\ B[h].critBit = B[k].critBit => k = h
  <2>1. CASE g = n /\ k = n
    <3>1. d = BitAt(s, f)
      BY <1>2, <1>4, <1>6, <2>1, LinksAfter
    <3>2. Link(B, q, g, d) = n /\ Depth(B, g) = f + 1
      BY <1>2, <2>1, <3>1, LinksAfter
    <3> QED BY <1>3, <1>4, <2>1, <3>2
  <2>2. CASE g = n /\ k # n
    <3>1. k \in 1..Len(A)
      BY <1>2, <1>3, <2>2
    <3>2. PICK u \in Strings, c \in Nat :
             u = A[k].data /\ c = A[k].critBit /\ u = B[k].data /\ c = B[k].critBit
      BY <1>1, <1>5, <3>1, AtomFacts
    <3>3. Agree(u, s, f) /\ BitAt(u, f) = d
      BY <1>2, <1>6, <2>2, <3>2, LinksAfter
    <3>4. PICK x \in Nat, t \in Strings :
             x = A[j].critBit /\ t = A[j].data /\ x = B[j].critBit /\ t = B[j].data
      BY <1>1, <1>3, <1>5, AtomFacts
    <3>5. PICK m \in Nat : m = Depth(A, i) /\ m <= f
      BY <1>1, <1>3, DepthFacts
    <3>6. Agree(A[k].data, s, f)
      BY <3>2, <3>3
    <3>7. /\ Takes(A, A[k].data, i, b)
          /\ A[j].critBit < Depth(A, i) => k = j
          /\ ~(A[j].critBit < Depth(A, i)) => /\ f < A[j].critBit
                                             /\ Agree(A[k].data, A[j].data, A[j].critBit)
          /\ BitAt(A[k].data, f) # BitAt(s, f)
          /\ A[k].critBit >= f => A[j].critBit <= A[k].critBit /\ A[k].critBit > f
      BY <3>1, <3>6, PlaceIsFree
    <3>8. /\ x < m => k = j
          /\ ~(x < m) => f < x /\ Agree(u, t, x)
          /\ BitAt(u, f) # BitAt(s, f)
          /\ c >= f => x <= c /\ c > f
      BY <3>2, <3>4, <3>5, <3>7
    <3>9. Takes(A, u, i, b)
      BY <3>2, <3>7
    <3>10. Link(B, q, g, d) = j /\ Depth(B, g) = f + 1
      BY <1>2, <2>2, <3>3, <3>8, LinksAfter
    <3>11. c >= f + 1 => x <= c /\ (x = c => k = j)
      <4> SUFFICES ASSUME c >= f + 1 PROVE x <= c /\ (x = c => k = j)
        OBVIOUS
      <4>1. c >= m
        BY <1>3, <3>5
      <4> QED BY <1>1, <1>3, <3>1, <3>2, <3>4, <3>5, <3>9, <4>1 DEF Dense
    <3>12. j \in 1..Len(B)
      BY <1>2, <1>3
    <3>13. IF x < f + 1 THEN k = j ELSE Agree(u, t, x)
      BY <1>3, <3>5, <3>8
    <3> QED BY <3>2, <3>4, <3>10, <3>11, <3>12, <3>13
  <2>3. CASE g # n
    <3>1. g \in 0..Len(A)
      BY <1>2, <1>3, <2>3
    <3>2. B[k].data \in Strings
      <4>1. B \in Seq(AtomRecords)
        BY DEF Extends
      <4> QED BY <4>1, AtomFacts
    <3>3. Takes(A, B[k].data, g, d) /\ Depth(B, g) = Depth(A, g)
      BY <1>6, <3>1, <3>2, LinksAfter
    <3>4. Link(B, q, g, d) = IF g = i /\ d = b THEN n ELSE Link(A, r, g, d)
      BY <1>2, <3>1, <3>2, <3>3, LinksAfter
    <3>5. CASE k = n /\ g = i /\ d = b
      <4>1. Link(B, q, g, d) = n /\ ~(f < Depth(B, g))
        BY <1>1, <1>3, <3>1, <3>3, <3>4, <3>5, DepthFacts
      <4> QED BY <1>3, <1>4, <3>5, <4>1, AgreeWithItself
    <3>6. CASE k = n /\ ~(g = i /\ d = b)
      <4>1. PICK h : h = Link(A, r, g, d) /\ h = Link(B, q, g, d)
        BY <3>4, <3>6
      <4>2. /\ Depth(A, g) <= f /\ h \in 1..Len(A)
            /\ A[h].critBit >= Depth(A, g) /\ A[h].critBit < f
            /\ Agree(s, A[h].data, A[h].critBit)
        <5>1. Takes(A, s, g, d) /\ ~(g = i /\ d = b)
          BY <1>4, <3>3, <3>6
        <5>2. LET x == Link(A, r, g, d)
              IN /\ Depth(A, g) <= f /\ x \in 1..Len(A)
                 /\ A[x].critBit >= Depth(A, g) /\ A[x].critBit < f
                 /\ Agree(s, A[x].data, A[x].critBit)
          BY <3>1, <5>1, OtherLinks
        <5> QED BY <4>1, <5>2
      <4>3. PICK y \in Nat, m \in Nat : y = A[h].critBit /\ m = Depth(A, g)
        BY <1>1, <3>1, <4>2, AtomFacts, DepthFacts
      <4>4. y = B[h].critBit /\ B[h].data = A[h].data /\ m = Depth(B, g) /\ h \in 1..Len(B)
        BY <1>2, <1>3, <1>5, <3>3, <4>2, <4>3
      <4>5. y >= m /\ y < f
        BY <4>2, <4>3
      <4>6. ~(y < m) /\ y <= f /\ y # f
        BY <1>3, <4>5
      <4>7. Agree(s, B[h].data, y) /\ B[k].data = s /\ B[k].critBit = f
        BY <1>4, <3>6, <4>2, <4>3, <4>4
      <4> QED BY <4>1, <4>4, <4>6, <4>7
    <3>7. CASE k # n /\ ~(g = i /\ d = b)
      <4>1. k \in 1..Len(A)
        BY <1>2, <1>3, <3>7
      <4>2. PICK h : h = Link(A, r, g, d) /\ h = Link(B, q, g, d)
        BY <3>4, <3>7
      <4>3. B[k].data = A[k].data /\ B[k].critBit = A[k].critBit
        BY <1>5, <4>1
      <4>4. /\ h \in 1..Len(A)
            /\ IF A[h].critBit < Depth(A, g) THEN k = h
               ELSE Agree(A[k].data, A[h].data, A[h].critBit)
        BY <1>1, <3>1, <3>3, <4>1, <4>2, <4>3 DEF Led
      <4>5. A[k].critBit >= Depth(A, g) =>
               /\ A[h].critBit <= A[k].critBit
               /\ A[h].critBit = A[k].critBit => k = h
        BY <1>1, <3>1, <3>3, <4>1, <4>2, <4>3 DEF Dense
      <4>6. h \in 1..Len(B) /\ B[h].data = A[h].data /\ B[h].critBit = A[h].critBit
        BY <1>2, <1>3, <1>5, <4>4
      <4> QED BY <3>3, <4>2, <4>3, <4>4, <4>5, <4>6
    <3>8. CASE k # n /\ g = i /\ d = b
      <4>1. k \in 1..Len(A)
        BY <1>2, <1>3, <3>8
      <4>2. PICK u \in Strings, c \in Nat :
               u = A[k].data /\ c = A[k].critBit /\ u = B[k].data /\ c = B[k].critBit
        BY <1>1, <1>5, <4>1, AtomFacts
      <4>3. PICK x \in Nat, t \in Strings : x = A[j].critBit /\ t = A[j].data
        BY <1>1, <1>3, AtomFacts
      <4>4. PICK m \in Nat : m = Depth(A, i) /\ m <= f
        BY <1>1, <1>3, DepthFacts
      <4>5. Takes(A, u, i, b)
        BY <3>3, <3>8, <4>2
      <4>6. IF x < m THEN k = j ELSE Agree(u, t, x)
        BY <1>1, <1>3, <4>1, <4>2, <4>3, <4>4, <4>5 DEF Led
      <4>7. c >= m => x <= c
        <5> SUFFICES ASSUME c >= m PROVE x <= c
          OBVIOUS
        <5>1. Takes(A, A[k].data, i, b) /\ A[k].critBit >= Depth(A, i)
          BY <4>2, <4>4, <4>5
        <5>2. A[j].critBit <= A[k].critBit
          BY <1>1, <1>3, <4>1, <5>1 DEF Dense
        <5> QED BY <4>2, <4>3, <5>2
      <4>8. (x < m \/ f < x) /\ Agree(s, t, f)
        BY <4>3, <4>4 DEF Place
      <4>9. Agree(u, s, f)
        <5>1. Agree(t, s, f)
          BY <1>3, <4>8, AgreeFacts
        <5>2. CASE x < m
          <6>1. u = t
            BY <4>2, <4>3, <4>6, <5>2
          <6> QED BY <5>1, <6>1
        <5>3. CASE ~(x < m)
          <6>1. f < x /\ Agree(u, t, x)
            BY <4>6, <4>8, <5>3
          <6>2. Agree(u, t, f)
            BY <1>3, <6>1, AgreeFacts
          <6> QED BY <1>3, <5>1, <6>2, AgreeFacts
        <5> QED BY <5>2, <5>3
      <4>10. c >= m => c > f
        <5> SUFFICES ASSUME c >= m PROVE c > f
          OBVIOUS
        <5>1. CASE x < m
          <6>1. k = j
            BY <4>6, <5>1
          <6>2. c = x
            BY <4>2, <4>3, <6>1
          <6> QED BY <5>1, <6>2
        <5>2. CASE ~(x < m)
          BY <1>3, <4>7, <4>8, <5>2
        <5> QED BY <5>1, <5>2
      <4>11. Link(B, q, g, d) = n /\ Depth(B, g) = m /\ n \in 1..Len(B)
        BY <1>3, <3>3, <3>4, <3>8, <4>4
      <4>12. ~(f < m) /\ (c >= m => f <= c /\ f # c)
        BY <1>3, <4>4, <4>10
      <4> QED BY <1>4, <4>2, <4>9, <4>11, <4>12
    <3> QED BY <3>5, <3>6, <3>7, <3>8
  <2> QED BY <2>1, <2>2, <2>3
<1> QED BY <1>6 DEF Led, Dense

\* A new atom at the place of its string keeps the tree as it must be.
LEMMA ExtendsHolds ==
    ASSUME NEW A, NEW r, CritBit(A, r), NEW s \in Strings,
           NEW i, NEW b, NEW j, NEW f, Place(A, r, s, i, b, j, f),
           NEW B, NEW q, Extends(A, r, B, q, s, i, b, j, f)
    PROVE  CritBit(B, q)
<1>1. A \in Seq(AtomRecords) /\ Single(A)
  BY DEF CritBit
<1>2. PICK n \in Nat : n = Len(A) + 1 /\ Len(B) = n /\ B \in Seq(AtomRecords)
  BY <1>1 DEF Extends
<1>3. B[n].data = s /\ B[n].critBit = f /\ f \in Nat
  BY <1>2, AtomTableAssumption DEF Extends, Place, LastBit
<1>4. \A k \in 1..Len(A) : B[k].data = A[k].data /\ B[k].critBit = A[k].critBit
  BY DEF Extends
<1>5. ASSUME NEW k \in 1..Len(A), B[k].critBit = f PROVE ~Agree(B[k].data, s, f)
  <2> SUFFICES ASSUME Agree(A[k].data, s, f) PROVE FALSE
    BY <1>4
  <2>1. A[k].critBit = f
    BY <1>4, <1>5
  <2>2. A[k].critBit >= f => A[k].critBit > f
    BY PlaceIsFree
  <2> QED BY <1>3, <2>1, <2>2
<1>6. ASSUME NEW g \in 1..Len(B), NEW k \in 1..Len(B), B[g].critBit = B[k].critBit,
             Agree(B[g].data, B[k].data, B[g].critBit)
      PROVE  g = k
  <2>1. B[g].data \in Strings /\ B[k].data \in Strings /\ B[g].critBit \in Nat
    BY <1>2, AtomFacts
  <2>2. Agree(B[k].data, B[g].data, B[k].critBit)
    BY <1>6, <2>1, AgreeFacts
  <2>3. CASE g \in 1..Len(A) /\ k \in 1..Len(A)
    BY <1>1, <1>4, <1>6, <2>3 DEF Single
  <2>4. CASE g = n /\ k \in 1..Len(A)
    BY <1>3, <1>5, <1>6, <2>2, <2>4
  <2>5. CASE k = n /\ g \in 1..Len(A)
    BY <1>3, <1>5, <1>6, <2>5
  <2> QED BY <1>1, <1>2, <2>3, <2>4, <2>5
<1>7. Single(B)
  BY <1>6 DEF Single
<1> QED BY <1>2, <1>7, LinkedAfter, LedAfter DEF CritBit

\* Where a walk ends that finds no atom, there is the place of its string.
LEMMA WalkFindsPlace ==
    ASSUME CritBit(atoms, root), NEW s \in Strings, NEW w, On(s, w), Differs(s, w)
    PROVE  Place(atoms, root, s, w.from, w.b, w.cur, Mismatch(s, w))
<1>1. PICK f : f = Mismatch(s, w)
  OBVIOUS
<1>2. /\ f \in 0..(LastBit - 1) /\ f >= w.nextToCheck /\ f < CheckEnd(w)
      /\ Agree(s, atoms[w.cur].data, f) /\ BitAt(s, f) # BitAt(atoms[w.cur].data, f)
  BY <1>1, CompareFacts
<1>3. /\ w.from \in 0..Len(atoms) /\ w.b \in {0, 1} /\ w.cur \in 1..Len(atoms)
      /\ w.cur = Link(atoms, root, w.from, w.b)
      /\ w.nextToCheck = Depth(atoms, w.from)
      /\ Takes(atoms, s, w.from, w.b)
  BY DEF On
<1>4. atoms[w.cur].critBit < Depth(atoms, w.from) \/ f < atoms[w.cur].critBit
  <2>1. CASE IsCandidate(w)
    BY <1>3, <2>1 DEF IsCandidate
  <2>2. CASE ~IsCandidate(w)
    BY <1>2, <2>2 DEF CheckEnd
  <2> QED BY <2>1, <2>2
<1> QED BY <1>1, <1>2, <1>3, <1>4 DEF Place

\* The walk for the string of an atom finds that atom.
LEMMA WalkFindsAtom ==
    ASSUME CritBit(atoms, root), NEW k \in 1..Len(atoms)
    PROVE  LET w == WalkFromRoot(atoms[k].data)
           IN ~Differs(atoms[k].data, w) /\ w.cur = k
<1>1. atoms \in Seq(AtomRecords) /\ Linked(atoms, root) /\ Led(atoms, root)
  BY DEF CritBit
<1>2. PICK s \in Strings : s = atoms[k].data
  BY <1>1, AtomFacts
<1>3. root # 0
  BY <1>1 DEF Linked
<1>4. PICK w : w = WalkFromRoot(s)
  OBVIOUS
<1>5. On(s, w) /\ (Differs(s, w) \/ IsCandidate(w))
  BY <1>3, <1>4, WalkEnds
<1>6. ~Differs(s, w)
  <2> SUFFICES ASSUME Differs(s, w) PROVE FALSE
    OBVIOUS
  <2>1. PICK i, b, j, f : i = w.from /\ b = w.b /\ j = w.cur /\ f = Mismatch(s, w)
    OBVIOUS
  <2>2. Place(atoms, root, s, i, b, j, f)
    BY <1>5, <2>1, WalkFindsPlace
  <2>3. Agree(atoms[k].data, s, f)
    BY <1>2, AgreeWithItself
  <2>4. BitAt(atoms[k].data, f) # BitAt(s, f)
    BY <2>2, <2>3, PlaceIsFree
  <2> QED BY <1>2, <2>4
<1>7. w.cur = k
  <2>1. /\ w.from \in 0..Len(atoms) /\ w.b \in {0, 1}
        /\ w.cur = Link(atoms, root, w.from, w.b)
        /\ w.nextToCheck = Depth(atoms, w.from)
        /\ Takes(atoms, s, w.from, w.b)
    BY <1>5 DEF On
  <2>2. atoms[w.cur].critBit < Depth(atoms, w.from)
    BY <1>5, <1>6, <2>1 DEF IsCandidate
  <2> QED BY <1>1, <1>2, <2>1, <2>2 DEF Led
<1> QED BY <1>2, <1>4, <1>6, <1>7

\* The first atom: no string differs from it at its crit bit.
LEMMA FirstHolds ==
    ASSUME NEW s \in Strings, NEW c \in Nat, c = Size(s) + CharBits,
           NEW B, B = <<[data |-> s, critBit |-> c,
                         side |-> [b \in {0, 1} |-> IF b = 1 THEN 1 ELSE 0]]>>
    PROVE  CritBit(B, 1)
<1>1. c \in 0..(LastBit - 1) /\ LastBit \in Nat
  BY SizeFacts, StringFacts, AtomTableAssumption DEF LastBit
<1>2. B[1] \in AtomRecords /\ Len(B) = 1
  <2>1. [b \in {0, 1} |-> IF b = 1 THEN 1 ELSE 0] \in [{0, 1} -> Nat]
    OBVIOUS
  <2> QED BY <1>1, <2>1 DEF AtomRecords
<1>3. B \in Seq(AtomRecords)
  BY <1>2
<1>4. /\ B[1].data = s /\ B[1].critBit = c /\ B[1].side[0] = 0 /\ B[1].side[1] = 1
  OBVIOUS
<1>5. BitAt(s, c) = 1
  BY BitsPastEnd
<1>6. Takes(B, s, 1, 1) /\ ~Takes(B, s, 1, 0)
  BY <1>4, <1>5, AgreeWithItself DEF Takes
<1>7. Linked(B, 1)
  <2>1. \A i \in 1..Len(B) : i = 1
    BY <1>2
  <2>2. 1 \in 1..Len(B) /\ 1 \in 0..Len(B) /\ Len(B) # 0
    BY <1>2
  <2> QED BY <1>4, <1>6, <2>1, <2>2 DEF Linked
<1>8. ASSUME NEW i \in 0..Len(B), NEW b \in {0, 1}, NEW k \in 1..Len(B),
             Takes(B, B[k].data, i, b)
      PROVE  LET j == Link(B, 1, i, b)
             IN /\ j \in 1..Len(B)
                /\ IF B[j].critBit < Depth(B, i) THEN k = j
                   ELSE Agree(B[k].data, B[j].data, B[j].critBit)
                /\ B[k].critBit >= Depth(B, i) =>
                      B[j].critBit <= B[k].critBit /\ (B[j].critBit = B[k].critBit => k = j)
  <2>1. k = 1 /\ (i = 0 \/ i = 1) /\ 1 \in 1..Len(B)
    BY <1>2
  <2>2. CASE i = 0
    <3>1. Link(B, 1, i, b) = 1 /\ Depth(B, i) = 0
      BY <2>2 DEF Link, Depth
    <3> QED BY <1>4, <2>1, <3>1, AgreeWithItself
  <2>3. CASE i = 1
    <3>1. b = 1
      BY <1>4, <1>6, <1>8, <2>1, <2>3
    <3>2. Link(B, 1, i, b) = 1 /\ Depth(B, i) = c + 1
      BY <1>4, <2>3, <3>1 DEF Link, Depth
    <3> QED BY <1>4, <2>1, <3>2
  <2> QED BY <2>1, <2>2, <2>3
<1>9. Led(B, 1) /\ Dense(B, 1)
  BY <1>8 DEF Led, Dense
<1>10. Single(B)
  BY <1>2 DEF Single
<1> QED BY <1>3, <1>7, <1>9, <1>10 DEF CritBit

\* There is no atom at first.
LEMMA TableAtFirst == AtomTableInit => TableInv
<1> SUFFICES ASSUME AtomTableInit PROVE TableInv
  OBVIOUS
<1>1. atoms = << >> /\ root = 0 /\ asked = {}
  BY DEF AtomTableInit
<1>2. Len(atoms) = 0 /\ atoms \in Seq(AtomRecords)
  BY <1>1
<1>3. Linked(atoms, root) /\ Led(atoms, root) /\ Dense(atoms, root) /\ Single(atoms)
  BY <1>1, <1>2 DEF Linked, Led, Dense, Single
<1>4. Interned
  BY <1>1, <1>2, FS_EmptySet DEF Interned
<1> QED BY <1>2, <1>3, <1>4 DEF TableInv, CritBit

\* A string gets its atom: one more, if it has none.
LEMMA AtomAdded ==
    ASSUME Interned, atoms \in Seq(AtomRecords), NEW s, s \notin asked,
           asked' = asked \cup {s},
           Len(atoms') = Len(atoms) + 1, atoms'[Len(atoms) + 1].data = s,
           \A k \in 1..Len(atoms) : atoms'[k].data = atoms[k].data
    PROVE  Interned'
<1>1. PICK n \in Nat : n = Len(atoms)
  OBVIOUS
<1>2. \A k : k \in 1..(n + 1) <=> k \in 1..n \/ k = n + 1
  BY <1>1
<1>3. asked' = {atoms'[i].data : i \in 1..Len(atoms')}
  <2>1. asked = {atoms[i].data : i \in 1..n}
    BY <1>1 DEF Interned
  <2>2. {atoms'[i].data : i \in 1..(n + 1)} = {atoms[i].data : i \in 1..n} \cup {s}
    BY <1>1, <1>2
  <2> QED BY <1>1, <2>1, <2>2
<1>4. ASSUME NEW i \in 1..Len(atoms'), NEW k \in 1..Len(atoms'), atoms'[i].data = atoms'[k].data
      PROVE  i = k
  <2>1. \A j \in 1..n : atoms[j].data \in asked
    BY <1>1 DEF Interned
  <2>2. (i \in 1..n \/ i = n + 1) /\ (k \in 1..n \/ k = n + 1)
    BY <1>1, <1>2
  <2>3. CASE i \in 1..n /\ k \in 1..n
    BY <1>1, <1>4, <2>3 DEF Interned
  <2> QED BY <1>1, <1>4, <2>1, <2>2, <2>3
<1>5. IsFiniteSet(asked') /\ Cardinality(asked') = Len(atoms')
  <2>1. IsFiniteSet(asked) /\ Cardinality(asked) = Len(atoms)
    BY DEF Interned
  <2>2. /\ IsFiniteSet(asked \cup {s})
        /\ Cardinality(asked \cup {s}) = Cardinality(asked) + 1
    BY <2>1, FS_AddElement
  <2> QED BY <2>1, <2>2
<1> QED BY <1>3, <1>4, <1>5 DEF Interned

\* getInternal makes an atom just when there is none.
LEMMA GetInternalHolds ==
    ASSUME TableInv, NEW s \in Strings, GetInternal(s) PROVE TableInv'
<1>1. /\ CritBit(atoms, root) /\ Interned /\ asked' = asked \cup {s}
      /\ atoms \in Seq(AtomRecords) /\ Linked(atoms, root)
  BY DEF TableInv, CritBit, GetInternal
<1>2. PICK n \in Nat : n = Len(atoms) + 1
  BY <1>1
<1>3. CASE root = 0
  <2>1. Len(atoms) = 0
    BY <1>1, <1>3 DEF Linked
  <2>2. PICK c \in Nat : c = Size(s) + CharBits
    BY StringFacts, AtomTableAssumption
  <2>3. atoms' = <<[data |-> s, critBit |-> c,
                    side |-> [b \in {0, 1} |-> IF b = 1 THEN 1 ELSE 0]]>> /\ root' = 1
    BY <1>3, <2>1, <2>2 DEF GetInternal, NewAtom
  <2>4. CritBit(atoms', root')
    BY <2>2, <2>3, FirstHolds
  <2>5. s \notin asked
    BY <1>1, <2>1 DEF Interned
  <2>6. Len(atoms') = Len(atoms) + 1 /\ atoms'[Len(atoms) + 1].data = s
    BY <2>1, <2>3
  <2>7. Interned'
    BY <1>1, <2>1, <2>5, <2>6, AtomAdded
  <2> QED BY <2>4, <2>7 DEF TableInv
<1>4. CASE root # 0
  <2>1. PICK w : w = WalkFromRoot(s)
    OBVIOUS
  <2>2. On(s, w) /\ (Differs(s, w) \/ IsCandidate(w))
    BY <1>1, <1>4, <2>1, WalkEnds
  <2>3. PICK i, b, j, f : i = w.from /\ b = w.b /\ j = w.cur /\ f = Mismatch(s, w)
    OBVIOUS
  <2>4. PICK new : new = NewAtom(s, f, BitAt(s, f), j)
    OBVIOUS
  <2>5. \/ ~Differs(s, w) /\ UNCHANGED <<atoms, root>>
        \/ Differs(s, w) /\ i = 0 /\ atoms' = Append(atoms, new) /\ root' = n
        \/ /\ Differs(s, w) /\ i # 0
           /\ atoms' = Append([atoms EXCEPT ![i].side[b] = n], new) /\ UNCHANGED root
    BY <1>2, <1>4, <2>1, <2>3, <2>4 DEF GetInternal
  <2>6. CASE ~Differs(s, w)
    <3>1. w.cur \in 1..Len(atoms) /\ s = atoms[w.cur].data
      BY <1>1, <2>2, <2>6, CompareFacts DEF On
    <3>2. asked' = asked
      BY <1>1, <3>1 DEF Interned
    <3> QED BY <1>1, <2>5, <2>6, <3>2 DEF TableInv, Interned
  <2>7. CASE Differs(s, w)
    <3>1. Place(atoms, root, s, i, b, j, f)
      BY <1>1, <2>2, <2>3, <2>7, WalkFindsPlace
    <3>2. /\ i \in 0..Len(atoms) /\ b \in {0, 1} /\ j \in 1..Len(atoms)
          /\ f \in 0..(LastBit - 1) /\ f \in Nat /\ j \in Nat
      BY <1>1, <3>1, AtomTableAssumption DEF Place, LastBit
    <3>3. new = [data |-> s, critBit |-> f,
                 side |-> [e \in {0, 1} |-> IF e = BitAt(s, f) THEN n ELSE j]]
      BY <1>2, <2>4 DEF NewAtom
    <3>4. new \in AtomRecords
      <4>1. [e \in {0, 1} |-> IF e = BitAt(s, f) THEN n ELSE j] \in [{0, 1} -> Nat]
        BY <3>2
      <4> QED BY <3>2, <3>3, <4>1 DEF AtomRecords
    <3>5. PICK C : C = IF i = 0 THEN atoms ELSE [atoms EXCEPT ![i].side[b] = n]
      OBVIOUS
    <3>6. atoms' = Append(C, new) /\ root' = IF i = 0 THEN n ELSE root
      BY <2>5, <2>7, <3>5
    <3>7. /\ C \in Seq(AtomRecords) /\ Len(C) = Len(atoms)
          /\ \A k \in 1..Len(atoms) :
                /\ C[k].data = atoms[k].data /\ C[k].critBit = atoms[k].critBit
                /\ \A e \in {0, 1} :
                      C[k].side[e] = IF k = i /\ e = b THEN n ELSE atoms[k].side[e]
      <4>1. CASE i = 0
        BY <1>1, <3>5, <4>1
      <4>2. CASE i # 0
        <5>1. i \in 1..Len(atoms) /\ atoms[i] \in AtomRecords
          BY <1>1, <3>2, <4>2
        <5>2. PICK z : z = [atoms[i] EXCEPT !.side[b] = n]
          OBVIOUS
        <5>3. /\ z \in AtomRecords
              /\ z.data = atoms[i].data /\ z.critBit = atoms[i].critBit
              /\ \A e \in {0, 1} : z.side[e] = IF e = b THEN n ELSE atoms[i].side[e]
          BY <5>1, <5>2 DEF AtomRecords
        <5>4. C = [atoms EXCEPT ![i] = z]
          BY <3>5, <4>2, <5>2
        <5> QED BY <1>1, <5>1, <5>3, <5>4
      <4> QED BY <4>1, <4>2
    <3>8. /\ atoms' \in Seq(AtomRecords) /\ Len(atoms') = n /\ atoms'[n] = new
          /\ \A k \in 1..Len(atoms) : atoms'[k] = C[k]
      BY <1>1, <1>2, <3>4, <3>6, <3>7
    <3>9. Extends(atoms, root, atoms', root', s, i, b, j, f)
      BY <1>2, <3>3, <3>6, <3>7, <3>8 DEF Extends
    <3>10. CritBit(atoms', root')
      BY <1>1, <3>1, <3>9, ExtendsHolds
    <3>11. s \notin asked
      <4> SUFFICES ASSUME NEW k \in 1..Len(atoms), s = atoms[k].data PROVE FALSE
        BY <1>1 DEF Interned
      <4>1. Agree(atoms[k].data, s, f)
        BY AgreeWithItself
      <4>2. BitAt(atoms[k].data, f) # BitAt(s, f)
        BY <1>1, <3>1, <4>1, PlaceIsFree
      <4> QED BY <4>2
    <3>12. Interned'
      <4>1. /\ Len(atoms') = Len(atoms) + 1 /\ atoms'[Len(atoms) + 1].data = s
            /\ \A k \in 1..Len(atoms) : atoms'[k].data = atoms[k].data
        BY <1>2, <3>3, <3>7, <3>8
      <4> QED BY <1>1, <3>11, <4>1, AtomAdded
    <3> QED BY <3>10, <3>12 DEF TableInv
  <2> QED BY <2>6, <2>7
<1> QED BY <1>3, <1>4

\* Whatever strings are asked for, however long and in whatever order, each has
\* one atom, which the walk of getInternal finds again (atomtable.hh).
THEOREM AtomsStayInterned == AtomTableSpec => []AtomsAreInterned
<1>1. TableInv /\ [AtomTableNext]_atomTableVars => TableInv'
  <2>1. TableInv /\ AtomTableNext => TableInv'
    BY GetInternalHolds DEF AtomTableNext
  <2>2. TableInv /\ UNCHANGED atomTableVars => TableInv'
    BY DEF TableInv, Interned, atomTableVars
  <2> QED BY <2>1, <2>2
<1>2. TableInv => AtomsAreInterned
  <2> SUFFICES ASSUME TableInv PROVE AtomsAreInterned
    OBVIOUS
  <2>1. CritBit(atoms, root) /\ Interned
    BY DEF TableInv
  <2>2. ASSUME NEW s \in asked
        PROVE  LET w == WalkFromRoot(s) IN ~Differs(s, w) /\ atoms[w.cur].data = s
    <3>1. PICK k \in 1..Len(atoms) : s = atoms[k].data
      BY <2>1 DEF Interned
    <3>2. ~Differs(s, WalkFromRoot(s)) /\ WalkFromRoot(s).cur = k
      BY <2>1, <3>1, WalkFindsAtom
    <3> QED BY <3>1, <3>2
  <2> QED BY <2>1, <2>2 DEF AtomsAreInterned, Interned
<1> QED BY TableAtFirst, <1>1, <1>2, PTL DEF AtomTableSpec

=============================================================================
