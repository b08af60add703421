----------------------------- MODULE CachingPool -----------------------------
(***************************************************************************)
(* Memory pools (pool.c, pool_i.h) and the caching pool factory             *)
(* (pool_caching.c).                                                        *)
(*                                                                         *)
(* A pool is a list of blocks, the newest in front and the one that also    *)
(* holds the pool structure at the back; an allocation bumps a pointer in   *)
(* one of them or adds a block.  The factory keeps released pools, by size  *)
(* class, up to a total capacity.  The factory's operations hold its lock,  *)
(* and a pool belongs to one thread at a time, so each call is one step.    *)
(* Sizes and addresses are small numbers; a block may lie at any residue.   *)
(***************************************************************************)
EXTENDS Integers, Sequences, FiniteSets, FiniteSetsExt

CONSTANTS PoolIds,        \* the pool structures that can exist at once
          pool_sizes,     \* the size classes, a function on 0 .. N - 1
          START_SIZE,
          POOL, BLOCK,    \* sizeof(pj_pool_t), sizeof(pj_pool_block)
          MAX_SEARCH,     \* PJ_POOL_MAX_SEARCH_BLOCK_COUNT
          max_capacity,
          InitialSizes, Increments, Alignments, ChunkSizes,  \* callers' arguments
          Residues,       \* where the allocator may place a block
          MaxBlocks, MaxChunks   \* bounds on one pool

VARIABLES pool,           \* the pools
          free_list,      \* of each size class, first pool first
          used_count, cp_capacity,
          heap,           \* bytes taken from the allocator and not given back
          destroyed       \* the factory is gone

poolvars == <<pool, free_list, used_count, cp_capacity, heap, destroyed>>

Classes == DOMAIN pool_sizes
ARRAY_SIZE == Cardinality(Classes)

(* A block: its address, the length of its header, its size, and cur. *)
Block(base, head, size) == [base |-> base, head |-> head, size |-> size, cur |-> base + head]
EndOf(b) == b.base + b.size

NoPool == [status |-> "none", blocks |-> <<>>, increment |-> 0, class |-> 0, capacity |-> 0,
           wanted |-> 0, chunks |-> {}, refused |-> FALSE]

PoolInit == /\ pool = [p \in PoolIds |-> NoPool]
            /\ free_list = [c \in Classes |-> <<>>]
            /\ used_count = 0 /\ cp_capacity = 0 /\ heap = 0
            /\ destroyed = FALSE

BytesOf(p) == MapThenSumSet(LAMBDA i : pool[p].blocks[i].size, DOMAIN pool[p].blocks)
-----------------------------------------------------------------------------
PJ_POOL_ALIGN_PTR(ptr, alignment) == ptr + ((-ptr) % alignment)

(* Mutant: the space lost to alignment is not counted. *)
FitsUnaligned(b, alignment, size) == EndOf(b) - b.cur >= size

(* pj_pool_alloc_from_block: the aligned pointer and what is left after it. *)
Fits(b, alignment, size) ==
  LET ptr == PJ_POOL_ALIGN_PTR(b.cur, alignment)
  IN  ptr <= EndOf(b) /\ EndOf(b) - ptr >= size

(* Blocks are numbered from the back, so a chunk keeps its block's number. *)
Chunk(blocks, i, alignment, size) ==
  LET ptr == PJ_POOL_ALIGN_PTR(blocks[i].cur, alignment)
  IN  [block |-> Len(blocks) - i + 1, from |-> ptr, to |-> ptr + size, aligned |-> alignment]

(* Hands out a chunk of the i-th block of blocks. *)
Take(p, blocks, capacity, i, alignment, size) ==
  LET ch == Chunk(blocks, i, alignment, size)
  IN  pool' = [pool EXCEPT ![p].blocks = [blocks EXCEPT ![i].cur = ch.to],
                           ![p].capacity = capacity,
                           ![p].chunks = @ \cup {ch}]

(* The blocks the search looks at: the first MAX_SEARCH + 1. *)
Searched(p) == {i \in DOMAIN pool[p].blocks : i <= MAX_SEARCH + 1}

Fitting(p, alignment, size) ==
  {i \in Searched(p) : Fits(pool[p].blocks[i], alignment, size)}

(* The size of a new block: a multiple of the increment. *)
Growth(increment, alignment, size) ==
  LET need == BLOCK + alignment - 1 + size
  IN  IF increment < need
      THEN ((increment + need) \div increment) * increment
      ELSE increment

(* pj_pool_aligned_alloc from the blocks the pool has. *)
AllocFromBlocks(p, alignment, size) ==
  /\ pool[p].status = "used"
  /\ Cardinality(pool[p].chunks) < MaxChunks
  /\ Fitting(p, alignment, size) # {}
  /\ Take(p, pool[p].blocks, pool[p].capacity, Min(Fitting(p, alignment, size)), alignment, size)
  /\ UNCHANGED <<free_list, used_count, cp_capacity, heap, destroyed>>

(* pj_pool_allocate_find adds a block in front.  The cases that change      *)
(* nothing and return NULL (no increment, no memory) need no step.          *)
AllocFromNewBlock(p, alignment, size) ==
  /\ pool[p].status = "used"
  /\ Cardinality(pool[p].chunks) < MaxChunks /\ Len(pool[p].blocks) < MaxBlocks
  /\ Fitting(p, alignment, size) = {}
  /\ pool[p].increment > 0
  /\ LET block_size == Growth(pool[p].increment, alignment, size)
         capacity   == pool[p].capacity + block_size
     IN /\ \E r \in Residues :
             LET blocks == <<Block(r, BLOCK, block_size)>> \o pool[p].blocks
             IN  IF Fits(blocks[1], alignment, size)
                 THEN Take(p, blocks, capacity, 1, alignment, size)
                 ELSE pool' = [pool EXCEPT ![p].blocks = blocks, ![p].capacity = capacity,
                                           ![p].refused = TRUE]
        /\ heap' = heap + block_size
  /\ UNCHANGED <<free_list, used_count, cp_capacity, destroyed>>

(* reset_pool: every block but the one at the back is given back. *)
FirstBlock(p) == pool[p].blocks[Len(pool[p].blocks)]
ResetRec(p) ==
  [pool[p] EXCEPT !.blocks = <<[FirstBlock(p) EXCEPT !.cur = FirstBlock(p).base
                                                               + FirstBlock(p).head]>>,
                  !.capacity = FirstBlock(p).size,
                  !.chunks = {}]
ResetBytes(p) == BytesOf(p) - FirstBlock(p).size

pj_pool_reset(p) == /\ pool[p].status = "used"
                    /\ pool' = [pool EXCEPT ![p] = ResetRec(p)]
                    /\ heap' = heap - ResetBytes(p)
                    /\ UNCHANGED <<free_list, used_count, cp_capacity, destroyed>>
-----------------------------------------------------------------------------
(* The size class of a request, searched down or up from START_SIZE;        *)
(* ARRAY_SIZE for one above the largest.                                    *)
ClassOf(initial_size) ==
  LET smaller == {c \in Classes : c < START_SIZE /\ pool_sizes[c] < initial_size}
      larger  == {c \in Classes : c > START_SIZE /\ pool_sizes[c] >= initial_size}
  IN  IF initial_size <= pool_sizes[START_SIZE]
      THEN IF smaller = {} THEN 0 ELSE Max(smaller) + 1
      ELSE IF larger = {} THEN ARRAY_SIZE ELSE Min(larger)

(* pj_pool_create_int *)
NewPool(size, r) == [NoPool EXCEPT !.blocks = <<Block(r, POOL + BLOCK, size)>>, !.capacity = size]

(* pj_pool_init_int and the factory's marks on a pool handed out. *)
HandOut(rec, initial_size, increment_size, idx) ==
  [rec EXCEPT !.status = "used", !.increment = increment_size, !.class = idx,
              !.wanted = initial_size]

(* cpool_create_pool with no pool of the class at hand; it may also fail    *)
(* for lack of memory, without a trace.                                     *)
CreateNewPool(p, initial_size, increment_size) ==
  LET idx  == ClassOf(initial_size)
      size == IF idx < ARRAY_SIZE THEN pool_sizes[idx] ELSE initial_size
  IN /\ pool[p].status = "none"
     /\ idx \in Classes => free_list[idx] = <<>>
     /\ \E r \in Residues :
          pool' = [pool EXCEPT ![p] = HandOut(NewPool(size, r), initial_size, increment_size, idx)]
     /\ heap' = heap + size
     /\ used_count' = used_count + 1
     /\ UNCHANGED <<free_list, cp_capacity, destroyed>>

(* Mutant: the free capacity is not reduced. *)
CapacityKept(capacity) == cp_capacity

CapacityLess(capacity) == IF cp_capacity > capacity THEN cp_capacity - capacity ELSE 0

(* cpool_create_pool with a recycled one. *)
ReusePool(initial_size, increment_size) ==
  LET idx == ClassOf(initial_size)
  IN /\ idx # ARRAY_SIZE /\ free_list[idx] # <<>>
     /\ LET p == Head(free_list[idx])
        IN /\ free_list' = [free_list EXCEPT ![idx] = Tail(@)]
           /\ pool' = [pool EXCEPT ![p] = HandOut(@, initial_size, increment_size, idx)]
           /\ cp_capacity' = CapacityLess(pool[p].capacity)
     /\ used_count' = used_count + 1
     /\ UNCHANGED <<heap, destroyed>>

(* The pool is too large to keep, or the factory is full. *)
NotKept(p) == \/ pool[p].capacity > pool_sizes[ARRAY_SIZE - 1]
              \/ cp_capacity + pool[p].capacity > max_capacity

(* cpool_release_pool, first case: pj_pool_destroy_int. *)
ReleaseDestroys(p) == /\ pool[p].status = "used"
                      /\ NotKept(p)
                      /\ pool' = [pool EXCEPT ![p] = NoPool]
                      /\ heap' = heap - BytesOf(p)
                      /\ used_count' = used_count - 1
                      /\ UNCHANGED <<free_list, cp_capacity, destroyed>>

(* Mutant: the pool is put in its list as it is. *)
RecycleUnreset(p) ==
  /\ pool[p].status = "used"
  /\ ~NotKept(p)
  /\ pool' = [pool EXCEPT ![p].status = "free"]
  /\ free_list' = [free_list EXCEPT ![pool[p].class] = <<p>> \o @]
  /\ cp_capacity' = cp_capacity + pool[p].capacity
  /\ used_count' = used_count - 1
  /\ UNCHANGED <<heap, destroyed>>

(* Otherwise it is reset and put first in the list of its class, and counts *)
(* with the capacity it has after the reset.                                *)
ReleaseRecycles(p) ==
  /\ pool[p].status = "used"
  /\ ~NotKept(p)
  /\ pool' = [pool EXCEPT ![p] = [ResetRec(p) EXCEPT !.status = "free"]]
  /\ free_list' = [free_list EXCEPT ![pool[p].class] = <<p>> \o @]
  /\ cp_capacity' = cp_capacity + FirstBlock(p).size
  /\ heap' = heap - ResetBytes(p)
  /\ used_count' = used_count - 1
  /\ UNCHANGED destroyed

(* Gives back the recycled pools and those the application forgot; the      *)
(* counters are left as they are, and the factory is not used again.        *)
pj_caching_pool_destroy ==
  /\ pool' = [p \in PoolIds |-> NoPool]
  /\ free_list' = [c \in Classes |-> <<>>]
  /\ heap' = heap - MapThenSumSet(BytesOf, {p \in PoolIds : pool[p].status # "none"})
  /\ destroyed' = TRUE
  /\ UNCHANGED <<used_count, cp_capacity>>

PoolNext ==
  /\ ~destroyed
  /\ \/ \E p \in PoolIds :
          \/ \E a \in Alignments, s \in ChunkSizes :
                AllocFromBlocks(p, a, s) \/ AllocFromNewBlock(p, a, s)
          \/ \E s \in InitialSizes, i \in Increments : CreateNewPool(p, s, i)
          \/ pj_pool_reset(p) \/ ReleaseDestroys(p) \/ ReleaseRecycles(p)
     \/ \E s \in InitialSizes, i \in Increments : ReusePool(s, i)
     \/ pj_caching_pool_destroy
-----------------------------------------------------------------------------
(* What pj_pool_alloc returned and was not yet taken back by a reset or a   *)
(* release is memory of the caller's own: chunks of one block never         *)
(* overlap, lie between the block's header and its end, and start at the    *)
(* requested alignment wherever the allocator placed the block.  A block    *)
(* that pj_pool_allocate_find adds always has room for the request it was   *)
(* added for, which the code asserts, whatever increment and alignment.     *)
ChunksApart ==
  \A p \in PoolIds : ~pool[p].refused /\ \A c \in pool[p].chunks :
    LET blocks == pool[p].blocks
        b      == blocks[Len(blocks) - c.block + 1]
    IN /\ b.base + b.head <= c.from /\ c.to <= EndOf(b)
       /\ c.from % c.aligned = 0
       /\ \A d \in pool[p].chunks \ {c} :
             d.block = c.block => d.to <= c.from \/ c.to <= d.from

(* The factory's books are right after any sequence of creations, growth,   *)
(* resets and releases: capacity is the sum over the recycled pools and     *)
(* stays within max_capacity, used_count the number of pools handed out,    *)
(* each pool's capacity the sum of its blocks, and no byte taken from the   *)
(* allocator is forgotten.                                                  *)
BooksBalanced ==
  LET with(s) == {p \in PoolIds : pool[p].status = s}
  IN /\ ~destroyed =>
           /\ cp_capacity = MapThenSumSet(LAMBDA p : pool[p].capacity, with("free"))
           /\ cp_capacity <= max_capacity
           /\ used_count = Cardinality(with("used"))
     /\ \A p \in PoolIds : pool[p].capacity = BytesOf(p)
     /\ heap = MapThenSumSet(BytesOf, PoolIds)

(* A recycled pool is as good as a new one: it is in the one list of its    *)
(* class, with one block of exactly that class's size and nothing taken, so *)
(* that a pool handed out always has at least the size asked for.           *)
RecycledLikeNew ==
  /\ \A p \in PoolIds :
       pool[p].status = "free" <=>
         \E c \in Classes : \E i \in DOMAIN free_list[c] : free_list[c][i] = p
  /\ \A c \in Classes : \A i \in DOMAIN free_list[c] :
       LET q == pool[free_list[c][i]]
       IN /\ q.class = c /\ q.capacity = pool_sizes[c] /\ q.chunks = {}
          /\ Len(q.blocks) = 1 /\ q.blocks[1].cur = q.blocks[1].base + q.blocks[1].head
  /\ \A p \in PoolIds : pool[p].status = "used" => pool[p].capacity >= pool[p].wanted
=============================================================================
