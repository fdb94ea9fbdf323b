------------------------------- MODULE Memory -------------------------------
(***************************************************************************)
(* The arena (arena.c) and the slab allocator carved from it (slab.c).     *)
(* Addresses and sizes are in words of 8 bytes, offset 0 is the arena's    *)
(* base.  A block is named by the address of its first word, which holds   *)
(* the link of the pool's free list; its data starts one word later.       *)
(***************************************************************************)
EXTENDS Integers, Sequences, FiniteSets

CONSTANT SizeBits  \* width of a size in words

ASSUME MemoryAssumption == SizeBits \in Nat \ {0}

Nil == -1    \* the null pointer
Junk == -2   \* a link overwritten by somebody's data
Align == 8   \* 64 bytes
Class == <<8, 32, 64, 512>>  \* the pools' block sizes: 64, 256, 512, 4096 bytes
-----------------------------------------------------------------------------
(* Arena: a region is [start, size] *)

Wrap(n) == n % 2^SizeBits

\* Mutant: the next region starts where the last one ended.
align_up_None(value, align) == value

align_up(value, align) ==
  LET up == Wrap(value + align - 1) IN up - (up % align)

\* The region's start, or Nil.
zedis_arena_alloc(arena, size, align) ==
  LET start == align_up(arena.offset, align)
  IN IF size = 0 \/ Wrap(start + size) > arena.size THEN Nil ELSE start

zedis_arena_calloc(arena, count, size, align) == zedis_arena_alloc(arena, Wrap(count * size), align)
-----------------------------------------------------------------------------
(* Slab: head[p] is the first free block of pool p, link[b] the word at b *)

\* The blocks a pool is cut into.
BlocksOf(storage, class, count) == {storage + i * class : i \in 0..(count - 1)}

\* The links init_pool writes: every block to the one below it.
init_links(storage, class, count) ==
  [b \in BlocksOf(storage, class, count) |-> IF b = storage THEN Nil ELSE b - class]

\* The smallest class that takes the size, 0 if none does.
pool_for_size(size) ==
  LET fit == {p \in 1..Len(Class) : size <= Class[p]}
  IN IF fit = {} THEN 0 ELSE CHOOSE p \in fit : \A q \in fit : p <= q

\* The data pointer of a free block and the slab without it, or Nil.
zedis_slab_alloc(slab, size) ==
  LET p == pool_for_size(size)
      b == IF p = 0 THEN Nil ELSE slab.head[p]
  IN IF b = Nil THEN [ptr |-> Nil, slab |-> slab]
     ELSE [ptr |-> b + 1,
           slab |-> [slab EXCEPT !.head[p] = slab.link[b], !.link[b] = Nil]]

zedis_slab_free(slab, ptr, size) ==
  LET p == pool_for_size(size)
      b == ptr - 1
  IN IF ptr = Nil \/ p = 0 THEN slab
     ELSE [slab EXCEPT !.link[b] = slab.head[p], !.head[p] = b]

\* An owner stores n words at ptr: links in the way are lost, and so is the
\* first word of the hash table, the region after the pools.
store(slab, ptr, n) ==
  [slab EXCEPT !.link = [b \in DOMAIN slab.link |-> IF b \in ptr..(ptr + n - 1) THEN Junk ELSE @[b]],
               !.kv = IF @ \in ptr..(ptr + n - 1) THEN Junk ELSE @]

\* The blocks reached from a pool's head, and whether the list ends.
Chain(slab, p) ==
  LET n == Cardinality(DOMAIN slab.link)
      follow(b) == IF b \in DOMAIN slab.link THEN slab.link[b] ELSE b
      at[i \in 0..n] == IF i = 0 THEN slab.head[p] ELSE follow(at[i - 1])
  IN [blocks |-> {at[i] : i \in 0..n} \ {Nil}, ends |-> at[n] = Nil]
=============================================================================
