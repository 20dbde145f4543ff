------------------------------- MODULE MemPool -------------------------------
(* The memory pool (RocketCoAlloctor) of one thread: free lists of blocks,  *)
(* threaded through the blocks themselves, fed from chunks of the system's  *)
(* malloc.  A header is what the pool has written at the start and at the   *)
(* end of a block nobody uses; the program's data replaces it while the     *)
(* block is handed out.  The slot field is written and never read, so it is *)
(* left out, and the two copies of item_length are one.                     *)
EXTENDS SizeClasses, FiniteSets, Functions

CONSTANTS
    Requests,      \* the lengths the program asks for
    RefillNumber,  \* blocks fetched at once: 20 in the code
    Bases,         \* the addresses the system's malloc can return
    MaxLive        \* bound: blocks the program holds at once

ASSUME RequestsAssumption == Requests \subseteq Nat \ {0}
ASSUME RefillAssumption == RefillNumber \in Nat \ {0, 1}
ASSUME BasesAssumption == Bases \subseteq Nat \ {0}
ASSUME MaxLiveAssumption == MaxLive \in Nat

VARIABLES
    pool,       \* startfree, endfree, free_list and the headers (node)
    intervals,  \* pointer_effective_interval, without its sentinel
    marks,      \* the bytes in mark_allocated_block
    live        \* the program's blocks |-> the lengths it asked for

vars == <<pool, intervals, marks, live>>

NULL == 0

Init ==
    /\ pool = [startfree |-> NULL, endfree |-> NULL,
               free_list |-> [i \in Lists |-> NULL], node |-> << >>]
    /\ intervals = {}
    /\ marks = {}
    /\ live = << >>

-----------------------------------------------------------------------------
(* The free lists.                                                          *)

Header(prev, next, length) == [prev |-> prev, next |-> next, length |-> length]
Forget(node, a) == Restrict(node, DOMAIN node \ {a})
(* The values of f in the place of g's.  (TLC's :> and @@ are primitives    *)
(* about which nothing can be proved.)                                      *)
At(a, value) == [b \in {a} |-> value]
Over(f, g) == [a \in DOMAIN f \cup DOMAIN g |-> IF a \in DOMAIN f THEN f[a] ELSE g[a]]
SetPrev(node, a, prev) ==
    IF a = NULL THEN node ELSE [node EXCEPT ![a].prev = prev]

(* The block a in front of list i.                                          *)
(* Mutant of Push: the old head does not learn its predecessor.             *)
PushOneWay(p, i, a, length) ==
    [p EXCEPT !.free_list[i] = a,
              !.node = Over(At(a, Header(NULL, p.free_list[i], length)), @)]
Push(p, i, a, length) ==
    LET head == p.free_list[i]
    IN [p EXCEPT !.free_list[i] = a,
                 !.node = Over(At(a, Header(NULL, head, length)), SetPrev(@, head, a))]

SetBlock2FreeList(p, a, length) == Push(p, FindFreeListIndex(length), a, length)

UseRemainingSpace(p, i, remaining) == Push(p, i, p.startfree, remaining)

(* A block that names no predecessor is taken for the head of its list.     *)
MoveToFreeList(p, a) ==
    LET n == p.node[a]
    IN IF n.prev = NULL
       THEN [p EXCEPT !.free_list[FindFreeListIndex(n.length)] = n.next,
                      !.node = Forget(SetPrev(@, n.next, NULL), a)]
       ELSE [p EXCEPT !.node =
                Forget([SetPrev(@, n.next, n.prev) EXCEPT ![n.prev].next = n.next], a)]

-----------------------------------------------------------------------------
(* RocketCoMalloc.                                                          *)

Mark(a, n) == {a, a + DataAlignment(n) - 1}
HandOut(a, n) == live' = Over(At(a, n), live)
Remaining(p) == p.endfree - p.startfree
ListOf(n) == FindFreeListIndex(DataAlignment(n))
Bytes_to_get(n) == 2 * DataAlignment(n) * RefillNumber
MayHold == Cardinality(DOMAIN live) < MaxLive

(* ChunkAlloc and Refill when the space in hand is longer than one block:   *)
(* its first block is the program's, the others are list i from now on,     *)
(* whatever list i was.                                                     *)
(* Mutant of Refill: the blocks are not limited to the space there is.      *)
RefillPast(p, n) ==
    [p EXCEPT !.startfree = @ + DataAlignment(n) * RefillNumber,
              !.free_list[ListOf(n)] = p.startfree + DataAlignment(n),
              !.node = Over(At(p.startfree + DataAlignment(n),
                               Header(NULL, NULL, DataAlignment(n))), @)]
Refill(p, n) ==
    LET length == DataAlignment(n)
        number == IF Remaining(p) > length * RefillNumber THEN RefillNumber
                  ELSE Remaining(p) \div length
        first  == p.startfree + length
        last   == p.startfree + length * (number - 1)
        chain  == [a \in {p.startfree + length * k : k \in 1 .. number - 1} |->
                      Header(IF a = first THEN NULL ELSE a - length,
                             IF a = last THEN NULL ELSE a + length, length)]
    IN [p EXCEPT !.startfree = @ + length * number,
                 !.free_list[ListOf(n)] = IF number = 1 THEN @ ELSE first,
                 !.node = Over(chain, @)]

(* What is left of the last chunk goes into the free lists, in one block or *)
(* two, before the next chunk takes its place.                              *)
(* Mutant of UseRemaining: the leftover's length is rounded up.             *)
UseRemainingRoundedUp(p) ==
    IF Remaining(p) = 0 THEN p
    ELSE [UseRemainingSpace(p, FindFreeListIndex(DataAlignment(Remaining(p))),
                            DataAlignment(Remaining(p)))
              EXCEPT !.startfree = @ + DataAlignment(Remaining(p))]
UseRemaining(p) ==
    LET interval == DataAlignment(Remaining(p)) - Remaining(p)
        length   == Remaining(p) - interval
        one == [UseRemainingSpace(p, FindFreeListIndex(length), length)
                    EXCEPT !.startfree = @ + length]
    IN IF Remaining(p) = 0 THEN p
       ELSE IF interval \in {512, 1024}
       THEN UseRemainingSpace(one, IF interval = 512 THEN 0 ELSE 1, interval)
       ELSE one

MallocFromList(n) ==
    LET a == pool.free_list[ListOf(n)]
        rest == pool.node[a].next
    IN /\ a # NULL
       /\ pool' = [pool EXCEPT !.free_list[ListOf(n)] = rest,
                               !.node = Forget(SetPrev(@, rest, NULL), a)]
       /\ marks' = marks \cup Mark(a, n)
       /\ HandOut(a, n)
       /\ UNCHANGED intervals

MallocFromSpace(n) ==
    /\ pool.free_list[ListOf(n)] = NULL
    /\ Remaining(pool) > DataAlignment(n)
    /\ pool' = Refill(pool, n)
    /\ HandOut(pool.startfree, n)
    /\ UNCHANGED <<intervals, marks>>

NeedsSystem(n) ==
    /\ pool.free_list[ListOf(n)] = NULL
    /\ Remaining(pool) <= DataAlignment(n)

(* The system's malloc returns memory that nobody has.  It may adjoin what  *)
(* it has returned before: the pool is linked with tcmalloc, which keeps no *)
(* header in between.  Neither chunks nor large blocks are ever given back. *)
Taken == {i \in intervals : i[1] # NULL}
         \cup {<<a, a + live[a]>> : a \in {b \in DOMAIN live : ~Served(live[b])}}
Unused(length) ==
    {a \in Bases : \A r \in Taken : a + length <= r[1] \/ r[2] <= a}

MallocFromSystem(n) ==
    /\ NeedsSystem(n)
    /\ \E base \in Unused(Bytes_to_get(n)) :
        /\ pool' = Refill([UseRemaining(pool) EXCEPT
                              !.startfree = base,
                              !.endfree = base + Bytes_to_get(n)], n)
        /\ intervals' = intervals \cup {<<base, base + Bytes_to_get(n)>>}
        /\ HandOut(base, n)
    /\ UNCHANGED marks

LargerLists(p, n) == {i \in Lists : i > ListOf(n) /\ p.free_list[i] # NULL}

(* The system's malloc fails: the first block of the next larger class is   *)
(* the space in hand.  Its list's new head keeps its prev.                  *)
MallocFromLarger(n) ==
    LET p == UseRemaining(pool)
    IN /\ NeedsSystem(n)
       /\ \E i \in LargerLists(p, n) :
            /\ \A j \in LargerLists(p, n) : i <= j
            /\ LET a == p.free_list[i]
               IN /\ pool' = Refill([p EXCEPT !.free_list[i] = p.node[a].next,
                                              !.node = Forget(@, a),
                                              !.startfree = a,
                                              !.endfree = a + Index2SlotLength(i)], n)
                  /\ HandOut(a, n)
       /\ intervals' = intervals \cup {<<NULL, Bytes_to_get(n)>>}
       /\ UNCHANGED marks

(* The system's malloc fails and there is no larger block: bad_alloc.       *)
MallocThrows(n) ==
    /\ NeedsSystem(n)
    /\ LargerLists(UseRemaining(pool), n) = {}
    /\ pool' = [UseRemaining(pool) EXCEPT !.startfree = NULL, !.endfree = NULL]
    /\ intervals' = intervals \cup {<<NULL, Bytes_to_get(n)>>}
    /\ UNCHANGED <<marks, live>>

MallocLarge(n) ==
    /\ \E base \in Unused(n) : HandOut(base, n)
    /\ UNCHANGED <<pool, intervals, marks>>

RocketCoMalloc(n) ==
    /\ MayHold
    /\ IF n > ThirdSlot THEN MallocLarge(n)
       ELSE \/ MallocFromList(n)
            \/ MallocFromSpace(n)
            \/ MallocFromSystem(n)
            \/ MallocFromLarger(n)
            \/ MallocThrows(n)

-----------------------------------------------------------------------------
(* RocketCoFree.                                                            *)

(* The chunk the code takes a block for a part of: the last interval that   *)
(* starts at or below it, or the first one there is.                        *)
IntervalOf(a) ==
    LET below == {i \in intervals : i[1] <= a}
        Latest(i, j) == i[1] < j[1] \/ (i[1] = j[1] /\ i[2] <= j[2])
    IN IF below # {} THEN CHOOSE i \in below : \A j \in below : Latest(j, i)
       ELSE CHOOSE i \in intervals : \A j \in intervals : Latest(i, j)

LengthOf(a) == DataAlignment(live[a])
EndOf(a) == a + LengthOf(a)
(* Mutant of Unmark: only the mark at the block's start is erased.          *)
UnmarkStart(a) == marks \ {a}
Unmark(a) == marks \ Mark(a, live[a])

(* Whether the code reads the header before the block, or behind it.        *)
LooksLeft(a)  == a # IntervalOf(a)[1] /\ a - 1 \notin Unmark(a)
LooksRight(a) == EndOf(a) - 1 # IntervalOf(a)[2] /\ EndOf(a) \notin Unmark(a)

EndsAt(a) == {b \in DOMAIN pool.node : b + pool.node[b].length = a}
LeftOf(a) == CHOOSE b \in EndsAt(a) : TRUE
MergesLeft(a)  == LooksLeft(a) /\ IsMerge(pool.node[LeftOf(a)].length + LengthOf(a))
MergesRight(a) ==
    ~MergesLeft(a) /\ LooksRight(a) /\ IsMerge(LengthOf(a) + pool.node[EndOf(a)].length)

(* Mutant of MergeData: the neighbour stays in its list.                    *)
MergeDataKeepsBoth(lhs, taken, total) == pool' = SetBlock2FreeList(pool, lhs, total)
(* Mutant of MergeData: the merged block gets the neighbour's length.       *)
MergeDataShort(lhs, taken, total) ==
    pool' = SetBlock2FreeList(MoveToFreeList(pool, taken), lhs, pool.node[taken].length)
MergeData(lhs, taken, total) ==
    pool' = SetBlock2FreeList(MoveToFreeList(pool, taken), lhs, total)

RocketCoFree(a) ==
    /\ \/ MergesLeft(a) /\ MergeData(LeftOf(a), LeftOf(a),
                                     pool.node[LeftOf(a)].length + LengthOf(a))
       \/ MergesRight(a) /\ MergeData(a, EndOf(a),
                                      LengthOf(a) + pool.node[EndOf(a)].length)
       \/ /\ ~MergesLeft(a) /\ ~MergesRight(a)
          /\ pool' = SetBlock2FreeList(pool, a, LengthOf(a))
    /\ marks' = Unmark(a)
    /\ live' = Restrict(live, DOMAIN live \ {a})
    /\ UNCHANGED intervals

-----------------------------------------------------------------------------
(* The free lists as the code walks them, for the contract and properties.  *)

NextOf(p, b) == IF b \in DOMAIN p.node THEN p.node[b].next ELSE NULL
Walk(p, i) ==
    LET step[k \in 0 .. Cardinality(DOMAIN p.node)] ==
            IF k = 0 THEN p.free_list[i] ELSE NextOf(p, step[k - 1])
    IN step
UsedLists(p) == {i \in Lists : p.free_list[i] # NULL}
BlocksIn(p, i) == LET walk == Walk(p, i) IN {walk[k] : k \in DOMAIN walk} \ {NULL}
FreeBlocks(p) == UNION {BlocksIn(p, i) : i \in UsedLists(p)}

(* A block MoveToFreeList can take out: the head with no predecessor, or    *)
(* one with a block on either side.                                         *)
Detachable(p, b) ==
    LET i == FindFreeListIndex(p.node[b].length)
    IN /\ b \in BlocksIn(p, i)
       /\ IF p.node[b].prev = NULL THEN p.free_list[i] = b
          ELSE p.free_list[i] # b /\ p.node[b].next # NULL

(* The contract the pool needs and does not check: a block is given back    *)
(* only when every header that RocketCoFree reads has been written, and     *)
(* every block that it merges with can be taken out of its list.  Without   *)
(* it the code reads the program's data, or memory past the chunk.          *)
CarefulFree(a) ==
    /\ Served(live[a])
    /\ LooksLeft(a) => EndsAt(a) # {} /\ (MergesLeft(a) => Detachable(pool, LeftOf(a)))
    /\ ~MergesLeft(a) /\ LooksRight(a) =>
           EndOf(a) \in DOMAIN pool.node /\ (MergesRight(a) => Detachable(pool, EndOf(a)))

Next ==
    \/ \E n \in Requests : RocketCoMalloc(n)
    \/ \E a \in DOMAIN live : CarefulFree(a) /\ RocketCoFree(a)

CarefulSpec == Init /\ [][Next]_vars
-----------------------------------------------------------------------------
(* Properties.                                                              *)

Blocks == INSTANCE Heap WITH held <- [a \in DOMAIN live |-> LengthOf(a)]

TypeOK ==
    /\ pool.startfree \in Nat /\ pool.endfree \in Nat
    /\ Remaining(pool) \in Nat /\ Remaining(pool) % 512 = 0
    /\ pool.free_list \in [Lists -> DOMAIN pool.node \cup {NULL}]
    /\ \A a \in DOMAIN pool.node :
           /\ {pool.node[a].prev, pool.node[a].next} \subseteq Nat
           /\ Served(pool.node[a].length)
    /\ intervals \subseteq Nat \X Nat
    /\ marks \subseteq Nat
    /\ \A a \in DOMAIN live : live[a] \in Requests

(* Each free list ends, links every block but its head back to the one      *)
(* before it, and holds blocks that are at least as long as RocketCoMalloc  *)
(* takes them for: what Refill, the merges, the leftovers of a chunk and a  *)
(* failed malloc make of the same links.                                    *)
FreeListsSound ==
    \A i \in UsedLists(pool) :
        /\ Walk(pool, i)[Cardinality(DOMAIN pool.node)] = NULL
        /\ \A b \in BlocksIn(pool, i) :
             LET n == pool.node[b]
             IN /\ Index2SlotLength(i) <= n.length
                /\ FindFreeListIndex(n.length) = i
                /\ n.next # NULL => pool.node[n.next].prev = b

(* The bytes from lo up to hi are bytes of chunks.  It is enough to look at *)
(* lo and at every chunk's end on the way.                                  *)
InChunks(lo, hi) ==
    \A p \in {lo} \cup {i[2] : i \in {j \in intervals : lo < j[2] /\ j[2] < hi}} :
        \E i \in intervals : i[1] # NULL /\ i[1] <= p /\ p < i[2]

(* Nobody's block, nobody's header: a free block, a block of the program    *)
(* and the space not yet carved never overlap, and each consists of memory  *)
(* of the chunks, also when a merge has joined blocks of two chunks.        *)
BlocksApart ==
    LET area == {<<a, a + pool.node[a].length>> : a \in DOMAIN pool.node}
                \cup (IF Remaining(pool) = 0 THEN {}
                      ELSE {<<pool.startfree, pool.endfree>>})
        mine == {<<a, EndOf(a)>> : a \in {b \in DOMAIN live : Served(live[b])}}
        Meet(x, y) == x[1] < y[2] /\ y[1] < x[2]
    IN /\ \A x \in area \cup mine : InChunks(x[1], x[2])
       /\ \A x, y \in area : x # y => ~Meet(x, y)
       /\ \A x \in area, y \in mine : ~Meet(x, y)

(* A byte in mark_allocated_block is an end of a block the program has: no  *)
(* mark outlives its block, which would keep its neighbours from merging.   *)
MarksSound == \A b \in marks : \E a \in DOMAIN live : b \in Mark(a, live[a])

Covered(lo, hi, blocks, node) ==
    \E b \in blocks : b <= lo /\ hi <= b + node[b].length

(* A free loses nothing: what could be allocated before still can, and the  *)
(* bytes given back are added to it, whether they merge with the left or    *)
(* the right neighbour or with none.                                        *)
FreeLosesNothing ==
    [][\A a \in DOMAIN live \ DOMAIN live' :
        /\ Covered(a, EndOf(a), FreeBlocks(pool'), pool'.node)
        /\ \A b \in FreeBlocks(pool) :
               Covered(b, b + pool.node[b].length, FreeBlocks(pool'), pool'.node)]_vars

(* Whatever is left of a chunk, up to the largest block: what goes into the  *)
(* free lists stays inside it, and no block is shorter than the class that  *)
(* it is filed under.  It is about UseRemaining alone, so that it is        *)
(* evaluated where no chunk has been fetched yet and not in every state.    *)
LeftoversFit ==
    intervals = {} => \A k \in 1 .. ThirdSlot \div 512 :
        LET p == UseRemaining([startfree |-> 512, endfree |-> 512 * (k + 1),
                               free_list |-> [i \in Lists |-> NULL], node |-> << >>])
        IN \A i \in Lists : p.free_list[i] # NULL =>
               LET a == p.free_list[i]
               IN /\ Index2SlotLength(i) <= p.node[a].length
                  /\ a + p.node[a].length <= 512 * (k + 1)

(* The program's view: see Heap.                                            *)
ImplementsHeap == Blocks!HeapSpec

(* The comment above the merges says that the table of marks makes them     *)
(* "absolutely safe": a block whose neighbour belongs to the program finds  *)
(* the neighbour marked.                                                    *)
NeighboursAreMarked ==
    \A a, b \in DOMAIN live : EndOf(a) = b => EndOf(a) - 1 \in marks /\ b \in marks
=============================================================================
