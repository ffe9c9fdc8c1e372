----------------------------- MODULE Allocator -----------------------------
(***************************************************************************)
(* The heap of libc/src/malloc.c.  Every function holds heap_lock while it *)
(* works on the heap (module ProcessFork is about the lock), so that a     *)
(* call is one step; posix_memalign fills in its aligned_header after the  *)
(* lock, in the block that is by then the caller's own.                    *)
(*                                                                         *)
(* Memory is counted in units of CRT_MALLOC_ALIGNMENT, 16 bytes: a block's *)
(* header takes three, the last of which holds its magic number, and the   *)
(* aligned_header before an over-aligned pointer takes two.  A call that   *)
(* fails changes nothing and is left out.                                  *)
(***************************************************************************)
EXTENDS Integers, FiniteSets, SequencesExt

CONSTANTS Chunk,        (* units of a mapping, CRT_HEAP_CHUNK_SIZE         *)
          Places,       (* where mmap may put one, in chunks               *)
          MaxRegions,   (* CRT_MALLOC_MAX_OS_REGIONS                       *)
          Requests,     (* sizes asked for; a mapping has room for each    *)
          Alignment,    (* of the over-aligned requests                    *)
          MaxLive       (* bound on the allocations held at a time         *)

Header == 3
AlignedHeader == 2

(* Room for the aligned_header and the way to the next aligned address.    *)
Padded(n) == n + Alignment + AlignedHeader

ASSUME AllocatorAssumption ==
  /\ Chunk \in Nat /\ Places \in Nat /\ MaxRegions \in Nat /\ MaxLive \in Nat
  /\ Alignment \in Nat \ {0}
  /\ \A n \in Requests : n \in Nat \ {0} /\ Padded(n) + Header <= Chunk

VARIABLES heap,         (* the blocks, their chain, the bins, the mappings *)
          memory,       (* the words that free looks at                    *)
          live          (* history: what the callers hold                  *)

heapVars == <<heap, memory, live>>

Nil == -1

(* A unit's word: a block's magic number, the aligned_header of an         *)
(* allocation, told by its address, or anything else.                      *)
BlockMagic == -2
Other == -1
Units == 0 .. Chunk * Places - 1

(* free_bin: how often n can be halved, the number of powers of two up to  *)
(* n without the first.                                                    *)
Bin(n) == Cardinality({k \in 1 .. n : 2 ^ k <= n})

HeapInit ==
  /\ heap = [block |-> <<>>, tail |-> Nil, regions |-> {},
             bins |-> [k \in 0 .. Bin(Chunk * Places) |-> <<>>]]
  /\ memory = [u \in Units |-> Other]
  /\ live = <<>>

-----------------------------------------------------------------------------
(* What the functions do to a heap h                                       *)

Payload(b) == b + Header
End(h, b) == Payload(b) + h.block[b].size

(* The function f with v at x, and without x.                             *)
Adding(f, x, v) == [y \in DOMAIN f \union {x} |-> IF y = x THEN v ELSE f[y]]
Dropping(f, x) == [y \in DOMAIN f \ {x} |-> f[y]]

Unlinked(s, b) == RemoveAt(s, CHOOSE i \in DOMAIN s : s[i] = b)

Index(h, b) == [h EXCEPT !.bins[Bin(h.block[b].size)] = <<b>> \o @]
Unindex(h, b) == [h EXCEPT !.bins[Bin(h.block[b].size)] = Unlinked(@, b)]

(* Fault: the end of the chain is left where it was.                       *)
LinkBackNoTail(h, b) ==
  IF h.block[b].next = Nil THEN h
  ELSE [h EXCEPT !.block[h.block[b].next].previous = b]

(* The block that follows b points back to it, or b is the last one.       *)
LinkBack(h, b) ==
  IF h.block[b].next = Nil THEN [h EXCEPT !.tail = b]
  ELSE [h EXCEPT !.block[h.block[b].next].previous = b]

(* One round of coalesce_free_blocks: b takes in the block n after it.     *)
Absorb(h, b) ==
  LET n == h.block[b].next
      grown == [Unindex(h, n) EXCEPT !.block[b].size = @ + Header + h.block[n].size,
                                     !.block[b].next = h.block[n].next]
  IN  [LinkBack(grown, b) EXCEPT !.block = Dropping(@, n)]

(* coalesce_free_blocks: round after round while a free block follows.     *)
Coalesce(h, b) ==
  LET blocks == Cardinality(DOMAIN h.block)
      round[k \in 0 .. blocks] ==
        IF k = 0 THEN h
        ELSE LET g == round[k - 1]
                 n == g.block[b].next
             IN  IF n # Nil /\ g.block[n].free /\ End(g, b) = n THEN Absorb(g, b) ELSE g
  IN  round[blocks]

(* split_block: what b has beyond n units becomes a free block.            *)
Split(h, b, n) ==
  IF h.block[b].size < n + 2 * Header THEN h
  ELSE LET c == Payload(b) + n
           rest == [size |-> h.block[b].size - n - Header, free |-> TRUE,
                    next |-> h.block[b].next, previous |-> b]
           cut == [h EXCEPT !.block = Adding([@ EXCEPT ![b].size = n, ![b].next = c], c, rest)]
       IN  Index(Coalesce(LinkBack(cut, c), c), c)

Taken(h, b, n) == [Split(h, b, n) EXCEPT !.block[b].free = FALSE]

(* append_chunk                                                            *)
Appended(h, b) ==
  LET new == [size |-> Chunk - Header, free |-> TRUE, next |-> Nil, previous |-> h.tail]
      linked == IF h.tail = Nil THEN h.block ELSE [h.block EXCEPT ![h.tail].next = b]
  IN  [h EXCEPT !.block = Adding(linked, b, new), !.tail = b, !.regions = @ \union {b}]

(* The free blocks that malloc_unlocked may meet first, bin by bin.        *)
Fits(h, n) ==
  UNION {{<<k, i>> : i \in {j \in DOMAIN h.bins[k] : h.block[h.bins[k][j]].size >= n}} :
           k \in {l \in DOMAIN h.bins : l >= Bin(n)}}

(* What malloc_unlocked makes of h: the block and the heap with it taken.  *)
Allocations(h, n) ==
  LET fits == Fits(h, n)
  IN  IF fits # {}
      THEN LET best == CHOOSE f \in fits :
                         \A g \in fits : f[1] < g[1] \/ (f[1] = g[1] /\ f[2] <= g[2])
               b == h.bins[best[1]][best[2]]
           IN  {<<b, Taken(Unindex(h, b), b, n)>>}
      ELSE {<<b, Taken(Appended(h, b), b, n)>> :
              b \in {Chunk * k : k \in IF Cardinality(h.regions) < MaxRegions
                                       THEN 0 .. Places - 1 ELSE {}} \ h.regions}

(* free_unlocked, of a block                                               *)
Freed(h, b) ==
  LET merged == Coalesce([h EXCEPT !.block[b].free = TRUE], b)
      indexed == Index(merged, b)
      p == indexed.block[b].previous
  IN  IF p # Nil /\ indexed.block[p].free /\ End(indexed, p) = b
      THEN Index(Coalesce(Unindex(indexed, p), p), p) ELSE indexed

-----------------------------------------------------------------------------
(* The words after a call that leads to heap h with the callers holding l: *)
(* new headers have their magic, free blocks start with their free_links,  *)
(* callers fill what they asked for, and the rest is as it was.            *)
Words(h, l) ==
  LET headed == {b + 2 : b \in DOMAIN h.block \ DOMAIN heap.block}
      linked == {Payload(b) : b \in {c \in DOMAIN h.block : h.block[c].free}}
      filled == UNION {p .. p + l[p] - 1 : p \in DOMAIN l}
  IN  [u \in Units |-> CASE u \in headed -> BlockMagic
                         [] u \in linked \union filled -> Other
                         [] OTHER -> memory[u]]

(* Fault: the word before the pointer stays as it was.                     *)
WithAlignedLast(m, p, b) == [m EXCEPT ![p - 2] = Payload(b)]

(* ... and the aligned_header before pointer p into block b, in the last   *)
(* word of which its `alignment' takes the place of a block's magic.       *)
WithAligned(m, p, b) == [m EXCEPT ![p - 2] = Payload(b), ![p - 1] = Other]

(* The first aligned address with room for the aligned_header before it.   *)
AlignedIn(b) == ((Payload(b) + AlignedHeader + Alignment - 1) \div Alignment) * Alignment

(* What free and realloc take pointer p for.                               *)
IsBlock(p) == memory[p - 1] = BlockMagic
BlockOf(p) == IF IsBlock(p) THEN p - Header ELSE memory[p - 2] - Header

Malloc(n) ==
  /\ Cardinality(DOMAIN live) < MaxLive
  /\ \E a \in Allocations(heap, n) :
       /\ heap' = a[2] /\ live' = Adding(live, Payload(a[1]), n)
       /\ memory' = Words(heap', live')

(* posix_memalign, for an alignment beyond that of every block             *)
Memalign(n) ==
  /\ Cardinality(DOMAIN live) < MaxLive
  /\ \E a \in Allocations(heap, Padded(n)) :
       /\ heap' = a[2] /\ live' = Adding(live, AlignedIn(a[1]), n)
       /\ memory' = WithAligned(Words(heap', live'), AlignedIn(a[1]), a[1])

(* A pointer without either mark is left alone.                            *)
Free(p) ==
  /\ live' = Dropping(live, p)
  /\ heap' = IF IsBlock(p) \/ memory[p - 2] >= 0 THEN Freed(heap, BlockOf(p)) ELSE heap
  /\ memory' = Words(heap', live')

ReallocInPlace(p, n) ==
  /\ IsBlock(p) /\ heap.block[BlockOf(p)].size >= n
  /\ heap' = Split(heap, BlockOf(p), n) /\ live' = [live EXCEPT ![p] = n]
  /\ memory' = Words(heap', live')

(* The old block is freed when the new one has been taken and filled.      *)
ReallocMoves(p, n) ==
  /\ IsBlock(p) /\ heap.block[BlockOf(p)].size < n
  /\ \E a \in Allocations(heap, n) :
       /\ heap' = Freed(a[2], BlockOf(p)) /\ live' = Adding(Dropping(live, p), Payload(a[1]), n)
       /\ memory' = Words(heap', live')

ReallocMovesAligned(p, n) ==
  /\ ~ IsBlock(p) /\ memory[p - 2] >= 0
  /\ \E a \in Allocations(heap, Padded(n)) :
       /\ heap' = Freed(a[2], BlockOf(p)) /\ live' = Adding(Dropping(live, p), AlignedIn(a[1]), n)
       /\ memory' = WithAligned(Words(heap', live'), AlignedIn(a[1]), a[1])

HeapNext ==
  \/ \E n \in Requests : Malloc(n) \/ Memalign(n)
  \/ \E p \in DOMAIN live : Free(p)
  \/ \E p \in DOMAIN live, n \in Requests :
       ReallocInPlace(p, n) \/ ReallocMoves(p, n) \/ ReallocMovesAligned(p, n)

HeapSpec == HeapInit /\ [][HeapNext]_heapVars

-----------------------------------------------------------------------------
Blocks == DOMAIN heap.block
Follower(b) == heap.block[b].next

(* One block has no predecessor, one, the tail, no successor, and the two  *)
(* directions of the chain agree.                                          *)
ChainIsExact ==
  /\ \A b \in Blocks : Follower(b) # Nil => Follower(b) \in Blocks /\ heap.block[Follower(b)].previous = b
  /\ {b \in Blocks : Follower(b) = Nil} = {heap.tail} \ {Nil}
  /\ Cardinality({b \in Blocks : heap.block[b].previous = Nil}) = Cardinality({heap.tail} \ {Nil})

(* The blocks fill the mappings without gaps: every mapping starts with a  *)
(* block or lies in one that began before it, and every block ends where   *)
(* the next one begins or at the end of a mapping.                         *)
BlocksFillRegions ==
  \A r \in heap.regions : \A u \in r .. r + Chunk - 1 :
    Cardinality({b \in Blocks : b <= u /\ u < End(heap, b)}) = 1

(* Each free block is in the list for its size, once, and no other is.     *)
BinsAreExact ==
  \A k \in DOMAIN heap.bins :
    /\ ToSet(heap.bins[k]) = {b \in Blocks : heap.block[b].free /\ Bin(heap.block[b].size) = k}
    /\ IsInjective(heap.bins[k])

(* No two free blocks that lie side by side in the chain and in memory.    *)
FreeBlocksAreMerged ==
  \A b \in Blocks : ~ (/\ heap.block[b].free /\ Follower(b) # Nil
                       /\ heap.block[Follower(b)].free /\ End(heap, b) = Follower(b))

(* malloc.c: over any sequence of calls the chain, the lists and the       *)
(* mappings describe the same blocks.                                      *)
HeapIsWhole ==
  ChainIsExact /\ BlocksFillRegions /\ BinsAreExact /\ FreeBlocksAreMerged

(* Every pointer that a caller holds lies with what was asked for in a     *)
(* block in use of its own, which free finds again from the pointer; and   *)
(* every block in use is held by somebody.                                 *)
CallersHaveTheirOwn ==
  /\ \A p \in DOMAIN live :
       /\ BlockOf(p) \in Blocks /\ ~ heap.block[BlockOf(p)].free
       /\ Payload(BlockOf(p)) <= p /\ p + live[p] <= End(heap, BlockOf(p))
  /\ \A p, q \in DOMAIN live : BlockOf(p) = BlockOf(q) => p = q
  /\ Cardinality({b \in Blocks : ~ heap.block[b].free}) = Cardinality(DOMAIN live)
=============================================================================
