-------------------------- MODULE AllocatorProofs --------------------------
(***************************************************************************)
(* Proofs about the heap of module Allocator, for any size and number of   *)
(* mappings, any sizes of requests and any alignment.                      *)
(***************************************************************************)
EXTENDS Allocator, FiniteSetTheorems, WellFoundedInduction, TLAPS

-----------------------------------------------------------------------------
(* The inductive invariant                                                 *)

Top == Chunk * Places
Lists == 0 .. Bin(Top)

BlockRecords == [size : Nat \ {0}, free : BOOLEAN, next : Int, previous : Int]

(* The types of a heap.                                                    *)
Typed(h) ==
  /\ DOMAIN h.block \subseteq Units
  /\ h \in [block : [DOMAIN h.block -> BlockRecords], tail : Int,
            regions : SUBSET Int, bins : [Lists -> Seq(Int)]]

(* The chain runs through all the blocks, and back.                        *)
Chained(h) ==
  /\ \A b \in DOMAIN h.block :
       /\ \/ h.block[b].next = Nil
          \/ /\ h.block[b].next \in DOMAIN h.block
             /\ h.block[h.block[b].next].previous = b
       /\ \/ h.block[b].previous = Nil
          \/ /\ h.block[b].previous \in DOMAIN h.block
             /\ h.block[h.block[b].previous].next = b
       /\ h.block[b].next = Nil <=> b = h.tail
  /\ h.tail \in DOMAIN h.block \union {Nil}
  /\ h.tail # Nil => \E b \in DOMAIN h.block : h.block[b].previous = Nil
  /\ h.tail = Nil => DOMAIN h.block = {}
  /\ \A b, c \in DOMAIN h.block :
       h.block[b].previous = Nil /\ h.block[c].previous = Nil => b = c

(* The blocks lie side by side and fill the mappings.                      *)
Tiled(h) ==
  /\ \A b \in DOMAIN h.block : End(h, b) <= Top
  /\ \A b, c \in DOMAIN h.block : b < c => End(h, b) <= c
  /\ \A b \in DOMAIN h.block : \A u \in b .. End(h, b) - 1 :
       \E r \in h.regions : r <= u /\ u < r + Chunk
  /\ \A r \in h.regions : \A u \in r .. r + Chunk - 1 :
       \E b \in DOMAIN h.block : b <= u /\ u < End(h, b)
  /\ \A r \in h.regions : \E k \in 0 .. Places - 1 : r = Chunk * k

Among(b, s) == \E i \in DOMAIN s : s[i] = b

(* The free blocks are in the lists for their sizes, but for those of U.   *)
Listed(h, U) ==
  \A k \in Lists :
    /\ IsInjective(h.bins[k])
    /\ \A b \in Int : Among(b, h.bins[k]) <=>
         b \in DOMAIN h.block \ U /\ h.block[b].free /\ Bin(h.block[b].size) = k

Sound(h, U) == Typed(h) /\ Chained(h) /\ Tiled(h) /\ Listed(h, U)

(* A free block with a free block right behind it.                         *)
Mergeable(h, b) ==
  /\ b \in DOMAIN h.block /\ h.block[b].free
  /\ h.block[b].next # Nil /\ h.block[h.block[b].next].free
  /\ End(h, b) = h.block[b].next

Whole(h) == Sound(h, {}) /\ \A b : ~ Mergeable(h, b)

InUse(h) == {b \in DOMAIN h.block : ~ h.block[b].free}

(* In memory m, the magic numbers of the blocks are where they belong.     *)
MagicAt(m, h) ==
  m \in [Units -> Int] /\ \A b \in DOMAIN h.block : m[b + 2] = BlockMagic

(* What free finds for pointer p; BlockOf, for memory m.                   *)
BlockAt(m, p) == IF m[p - 1] = BlockMagic THEN p - Header ELSE m[p - 2] - Header

(* Pointer p is that of block b, or lies behind an aligned_header in it.   *)
Labelled(m, p, b) ==
  \/ p = Payload(b)
  \/ Payload(b) + AlignedHeader <= p /\ m[p - 2] = Payload(b) /\ m[p - 1] # BlockMagic

(* The pointers of l are shared out among the blocks in use, each of which *)
(* has one and has room for it: own tells a pointer's block.               *)
Assigned(h, l, own) ==
  /\ l \in [DOMAIN l -> Nat \ {0}] /\ DOMAIN l \subseteq Int
  /\ own \in [DOMAIN l -> InUse(h)]
  /\ \A p \in DOMAIN l : Payload(own[p]) <= p /\ p + l[p] <= End(h, own[p])
  /\ \A p, q \in DOMAIN l : own[p] = own[q] => p = q
  /\ \A b \in InUse(h) : \E p \in DOMAIN l : own[p] = b

(* A heap, a memory and what the callers hold.                             *)
Fine(h, m, l) ==
  /\ Whole(h) /\ MagicAt(m, h)
  /\ Assigned(h, l, [p \in DOMAIN l |-> BlockAt(m, p)])
  /\ \A p \in DOMAIN l : Labelled(m, p, BlockAt(m, p))

(* The inductive invariant.                                                *)
AllocatorInv == Fine(heap, memory, live)

-----------------------------------------------------------------------------
(* Numbers                                                                 *)

(* A set of numbers has a least one.                                       *)
LEMMA LeastNumber ==
  ASSUME NEW T, T \subseteq Nat, T # {}
  PROVE  \E m \in T : \A n \in T : m <= n
<1>1. PICK t \in T : TRUE
  OBVIOUS
<1> DEFINE Below(n) == 0 .. n
           R == {Below(n) : n \in {k \in T : k <= t}}
<1>2. IsFiniteSet(0 .. t)
  BY FS_Interval
<1>3. IsWellFoundedOn(StrictSubsetOrdering(0 .. t), SUBSET (0 .. t))
  BY <1>2, FS_StrictSubsetOrderingWellFounded, FS_FiniteSubsetsOfFinite
<1>4. R \subseteq SUBSET (0 .. t) /\ R # {}
  BY <1>1
<1> HIDE DEF R
<1>5. PICK x \in R : \A y \in R : <<y, x>> \notin StrictSubsetOrdering(0 .. t)
  BY <1>3, <1>4, WFMin
<1>6. PICK m \in T : m <= t /\ x = Below(m)
  BY <1>5 DEF R
<1>7. ASSUME NEW n \in T, n < m PROVE FALSE
  <2>1. Below(n) \in R
    BY <1>1, <1>6, <1>7 DEF R
  <2>2. Below(n) \subseteq Below(m) /\ Below(n) # Below(m)
    <3>1. m \in Below(m) /\ m \notin Below(n)
      BY <1>7
    <3>2. Below(n) \subseteq Below(m)
      BY <1>7
    <3> QED
      BY <3>1, <3>2
  <2> QED
    BY <1>4, <1>5, <1>6, <2>1, <2>2 DEF StrictSubsetOrdering
<1>8. \A n \in T : m <= n
  BY <1>7
<1> QED
  BY <1>8

(* free_bin has a list for every size there can be.                        *)
LEMMA BinsSuffice ==
  ASSUME NEW n \in Nat, n <= Top
  PROVE  Bin(n) \in Lists
<1> DEFINE P(m) == {k \in 1 .. m : 2 ^ k <= m}
<1>1. Top \in Nat
  BY AllocatorAssumption DEF Top
<1>2. IsFiniteSet(P(Top)) /\ P(n) \subseteq P(Top)
  <2>1. IsFiniteSet(1 .. Top)
    BY <1>1, FS_Interval
  <2>2. IsFiniteSet(P(Top))
    BY <2>1, FS_Subset
  <2>3. \A k \in Nat : 2 ^ k \in Int
    OBVIOUS
  <2>4. P(n) \subseteq P(Top)
    BY <1>1, <2>3
  <2> QED
    BY <2>2, <2>4
<1> HIDE DEF P
<1>3. Cardinality(P(n)) <= Cardinality(P(Top)) /\ Cardinality(P(n)) \in Nat
      /\ Cardinality(P(Top)) \in Nat
  BY <1>2, FS_Subset, FS_CardinalityType
<1> QED
  BY <1>3 DEF Lists, Bin, P

(* Two mappings do not overlap.                                            *)
LEMMA Multiples ==
  ASSUME NEW i \in Nat, NEW j \in Nat, i < j
  PROVE  Chunk * i + Chunk <= Chunk * j
<1>1. Chunk \in Nat
  BY AllocatorAssumption
<1>2. j = i + 1 + (j - i - 1) /\ j - i - 1 \in Nat
  OBVIOUS
<1>3. ASSUME NEW d \in Nat PROVE Chunk * (i + 1 + d) = Chunk * i + Chunk + Chunk * d /\ Chunk * d >= 0
  BY <1>1, SMTT(30)
<1> QED
  BY <1>1, <1>2, <1>3

-----------------------------------------------------------------------------
(* Lists                                                                   *)

Before(s, i) == SubSeq(s, 1, i - 1)
Behind(s, i) == SubSeq(s, i + 1, Len(s))

(* What lies before and behind the place i of a list.                      *)
LEMMA BeforeAndBehind ==
  ASSUME NEW s \in Seq(Int), NEW i \in 1 .. Len(s)
  PROVE  /\ Before(s, i) \in Seq(Int) /\ Len(Before(s, i)) = i - 1
         /\ \A j \in 1 .. i - 1 : Before(s, i)[j] = s[j]
         /\ Behind(s, i) \in Seq(Int) /\ Len(Behind(s, i)) = Len(s) - i
         /\ \A j \in 1 .. Len(s) - i : Behind(s, i)[j] = s[i + j]
<1>1. Len(s) \in Nat /\ i \in Nat
  OBVIOUS
<1>2. /\ Before(s, i) \in Seq(Int) /\ Len(Before(s, i)) = i - 1
      /\ \A j \in 1 .. i - 1 : Before(s, i)[j] = s[j]
  BY <1>1 DEF Before
<1>3. Behind(s, i) \in Seq(Int) /\ Len(Behind(s, i)) = Len(s) - i
  BY <1>1 DEF Behind
<1>4. \A j \in 1 .. Len(s) - i : Behind(s, i)[j] = s[i + j]
  BY <1>1, <1>3 DEF Behind
<1> QED
  BY <1>2, <1>3, <1>4

Chains(both, f, r) ==
  /\ both \in Seq(Int) /\ Len(both) = Len(f) + Len(r)
  /\ \A j \in 1 .. Len(f) : both[j] = f[j]
  /\ \A j \in 1 .. Len(r) : both[Len(f) + j] = r[j]

(* Two lists after one another.                                            *)
LEMMA Chaining ==
  ASSUME NEW f \in Seq(Int), NEW r \in Seq(Int), NEW both, both = f \o r
  PROVE  Chains(both, f, r)
<1>1. both \in Seq(Int) /\ Len(both) = Len(f) + Len(r) /\ Len(f) \in Nat /\ Len(r) \in Nat
  OBVIOUS
<1>2. \A j \in 1 .. Len(f) : both[j] = f[j]
  BY <1>1
<1>3. \A j \in 1 .. Len(r) : both[Len(f) + j] = r[j]
  BY <1>1
<1> QED
  BY <1>1, <1>2, <1>3 DEF Chains

(* index_free_block puts a block in that was not in the list.              *)
LEMMA PutInFront ==
  ASSUME NEW s \in Seq(Int), NEW b \in Int, IsInjective(s), ~ Among(b, s), NEW t, t = <<b>> \o s
  PROVE  /\ t \in Seq(Int) /\ IsInjective(t)
         /\ \A c : Among(c, t) <=> Among(c, s) \/ c = b
<1>1. /\ t \in Seq(Int) /\ DOMAIN t = 1 .. Len(s) + 1 /\ Len(s) \in Nat
      /\ t[1] = b /\ \A j \in 1 .. Len(s) : t[1 + j] = s[j]
  <2>1. PICK f : f = <<b>> /\ f \in Seq(Int) /\ Len(f) = 1 /\ f[1] = b
    <3>1. <<b>> \in Seq(Int) /\ Len(<<b>>) = 1 /\ <<b>>[1] = b
      OBVIOUS
    <3> QED
      BY <3>1, Zenon
  <2>2. Chains(t, f, s)
    BY <2>1, Chaining
  <2> QED
    BY <2>1, <2>2 DEF Chains
<1>2. \A j \in DOMAIN t : (j = 1 /\ t[j] = b) \/ (j - 1 \in DOMAIN s /\ t[j] = s[j - 1])
  <2> SUFFICES ASSUME NEW j \in DOMAIN t, j # 1
               PROVE  j - 1 \in DOMAIN s /\ t[j] = s[j - 1]
    BY <1>1
  <2>1. j - 1 \in 1 .. Len(s) /\ 1 + (j - 1) = j
    BY <1>1
  <2> QED
    BY <1>1, <2>1
<1>3. IsInjective(t)
  <2> SUFFICES ASSUME NEW i \in DOMAIN t, NEW j \in DOMAIN t, t[i] = t[j] PROVE i = j
    BY DEF IsInjective
  <2>1. i \in Int /\ j \in Int
    BY <1>1
  <2> QED
    BY <1>2, <2>1 DEF IsInjective, Among
<1>4. ASSUME NEW c, Among(c, t) PROVE Among(c, s) \/ c = b
  BY <1>2, <1>4 DEF Among
<1>5. ASSUME NEW c, Among(c, s) PROVE Among(c, t)
  <2>1. PICK j \in 1 .. Len(s) : s[j] = c
    BY <1>5 DEF Among
  <2>2. 1 + j \in DOMAIN t /\ t[1 + j] = c
    BY <1>1, <2>1
  <2> QED
    BY <2>2 DEF Among
<1>6. Among(b, t)
  <2>1. 1 \in DOMAIN t
    BY <1>1
  <2> QED
    BY <1>1, <2>1 DEF Among
<1> QED
  BY <1>1, <1>3, <1>4, <1>5, <1>6

(* unindex_free_block takes a block out that was in the list.              *)
LEMMA TakenOut ==
  ASSUME NEW s \in Seq(Int), NEW b \in Int, IsInjective(s), Among(b, s), NEW t, t = Unlinked(s, b)
  PROVE  /\ t \in Seq(Int) /\ IsInjective(t)
         /\ \A c : Among(c, t) <=> Among(c, s) /\ c # b
<1>1. PICK n \in DOMAIN s : s[n] = b /\ t = Before(s, n) \o Behind(s, n)
  BY DEF Among, Unlinked, RemoveAt, Before, Behind
<1>2. Len(s) \in Nat /\ n \in 1 .. Len(s) /\ DOMAIN s = 1 .. Len(s) /\ n \in Nat
  OBVIOUS
<1>3. PICK f, r : /\ f \in Seq(Int) /\ r \in Seq(Int) /\ f = Before(s, n) /\ r = Behind(s, n)
                  /\ Len(f) = n - 1 /\ \A j \in 1 .. n - 1 : f[j] = s[j]
                  /\ Len(r) = Len(s) - n /\ \A j \in 1 .. Len(s) - n : r[j] = s[n + j]
  <2>1. /\ Before(s, n) \in Seq(Int) /\ Len(Before(s, n)) = n - 1
        /\ \A j \in 1 .. n - 1 : Before(s, n)[j] = s[j]
        /\ Behind(s, n) \in Seq(Int) /\ Len(Behind(s, n)) = Len(s) - n
        /\ \A j \in 1 .. Len(s) - n : Behind(s, n)[j] = s[n + j]
    BY <1>2, BeforeAndBehind
  <2> QED
    BY <2>1, Zenon
<1>4. Chains(t, f, r)
  BY <1>1, <1>3, Chaining
<1>5. t \in Seq(Int) /\ DOMAIN t = 1 .. Len(s) - 1
  BY <1>2, <1>3, <1>4 DEF Chains
<1>6. ASSUME NEW j \in 1 .. n - 1 PROVE t[j] = s[j]
  BY <1>3, <1>4 DEF Chains
<1>7. ASSUME NEW i \in n .. Len(s) - 1 PROVE t[i] = s[i + 1]
  <2>1. PICK j \in 1 .. Len(s) - n : n + j = i + 1 /\ (n - 1) + j = i
    <3>1. /\ i - (n - 1) \in 1 .. Len(s) - n /\ n + (i - (n - 1)) = i + 1
          /\ (n - 1) + (i - (n - 1)) = i
      BY <1>2
    <3> QED
      BY <3>1
  <2>2. t[(n - 1) + j] = r[j] /\ r[j] = s[n + j]
    BY <1>3, <1>4 DEF Chains
  <2> QED
    BY <2>1, <2>2
<1>8. ASSUME NEW i \in DOMAIN t
      PROVE  \E p \in DOMAIN s : ((i < n /\ p = i) \/ (i >= n /\ p = i + 1)) /\ t[i] = s[p]
  <2>1. i \in 1 .. Len(s) - 1
    BY <1>5
  <2>2. CASE i < n
    <3>1. i \in 1 .. n - 1 /\ i \in DOMAIN s
      BY <1>2, <2>1, <2>2
    <3> QED
      BY <1>6, <2>2, <3>1
  <2>3. CASE i >= n
    <3>1. i \in n .. Len(s) - 1 /\ i + 1 \in DOMAIN s
      BY <1>2, <2>1, <2>3
    <3> QED
      BY <1>7, <2>3, <3>1
  <2> QED
    BY <1>2, <2>1, <2>2, <2>3
<1>9. IsInjective(t)
  <2> SUFFICES ASSUME NEW i \in DOMAIN t, NEW j \in DOMAIN t, t[i] = t[j] PROVE i = j
    BY DEF IsInjective
  <2>1. i \in Int /\ j \in Int /\ n \in Int
    BY <1>2, <1>5
  <2>2. PICK p \in DOMAIN s : ((i < n /\ p = i) \/ (i >= n /\ p = i + 1)) /\ t[i] = s[p]
    BY <1>8
  <2>3. PICK q \in DOMAIN s : ((j < n /\ q = j) \/ (j >= n /\ q = j + 1)) /\ t[j] = s[q]
    BY <1>8
  <2>4. p = q
    BY <2>2, <2>3 DEF IsInjective
  <2> QED
    BY <2>1, <2>2, <2>3, <2>4
<1>10. ASSUME NEW c, Among(c, t) PROVE Among(c, s) /\ c # b
  <2>1. PICK i \in DOMAIN t : t[i] = c
    BY <1>10 DEF Among
  <2>2. PICK p \in DOMAIN s : ((i < n /\ p = i) \/ (i >= n /\ p = i + 1)) /\ t[i] = s[p]
    BY <1>8
  <2>3. i \in Int /\ p # n
    BY <1>2, <1>5, <2>2
  <2> QED
    BY <1>1, <2>1, <2>2, <2>3 DEF Among, IsInjective
<1>11. ASSUME NEW c, Among(c, s), c # b PROVE Among(c, t)
  <2>1. PICK p \in DOMAIN s : s[p] = c /\ p # n
    BY <1>1, <1>11 DEF Among
  <2>2. CASE p < n
    <3>1. p \in 1 .. n - 1 /\ p \in DOMAIN t
      BY <1>2, <1>5, <2>2
    <3> QED
      BY <1>6, <2>1, <3>1 DEF Among
  <2>3. CASE p > n
    <3>1. p - 1 \in n .. Len(s) - 1 /\ p - 1 \in DOMAIN t /\ (p - 1) + 1 = p
      <4>1. p \in Int /\ n \in Int /\ n < p /\ 1 <= n /\ p <= Len(s) /\ Len(s) \in Int
        BY <1>2, <2>3
      <4>2. p - 1 \in n .. Len(s) - 1 /\ p - 1 \in 1 .. Len(s) - 1 /\ (p - 1) + 1 = p
        BY <4>1
      <4> QED
        BY <1>5, <4>2
    <3>2. t[p - 1] = s[(p - 1) + 1]
      BY <1>7, <3>1
    <3> QED
      BY <2>1, <3>1, <3>2 DEF Among
  <2> QED
    BY <1>2, <2>1, <2>2, <2>3
<1> QED
  BY <1>5, <1>9, <1>10, <1>11

-----------------------------------------------------------------------------
(* The lists of a heap                                                     *)

SameBlocks(g, h) == g.block = h.block /\ g.tail = h.tail /\ g.regions = h.regions

(* Two heaps with the same blocks are alike but for their lists.           *)
LEMMA SameShape ==
  ASSUME NEW h, NEW g, SameBlocks(g, h), Chained(h), Tiled(h)
  PROVE  Chained(g) /\ Tiled(g)
<1>1. g.block = h.block /\ g.tail = h.tail /\ g.regions = h.regions
  BY DEF SameBlocks
<1>2. Chained(g)
  BY <1>1, Zenon DEF Chained
<1>3. Tiled(g)
  BY <1>1, Zenon DEF Tiled, End
<1> QED
  BY <1>2, <1>3

(* The numbers of a block.                                                 *)
LEMMA SizeOf ==
  ASSUME NEW h, Typed(h), Tiled(h), NEW b \in DOMAIN h.block
  PROVE  /\ b \in Nat /\ b < Top /\ Top \in Nat
         /\ h.block[b] \in BlockRecords /\ h.block[b].size \in Nat \ {0}
         /\ h.block[b].free \in BOOLEAN /\ h.block[b].next \in Int /\ h.block[b].previous \in Int
         /\ End(h, b) = b + 3 + h.block[b].size /\ End(h, b) \in Nat /\ End(h, b) <= Top
         /\ h.block[b].size <= Top /\ Bin(h.block[b].size) \in Lists
<1>1. Top \in Nat
  BY AllocatorAssumption DEF Top
<1>2. h.block[b] \in BlockRecords /\ b \in Units
  BY DEF Typed
<1>3. /\ h.block[b].size \in Nat \ {0} /\ h.block[b].free \in BOOLEAN
      /\ h.block[b].next \in Int /\ h.block[b].previous \in Int
  BY <1>2 DEF BlockRecords
<1>4. b \in Nat /\ b < Top
  BY <1>1, <1>2 DEF Units, Top
<1>5. End(h, b) = b + 3 + h.block[b].size /\ End(h, b) <= Top
  BY <1>3, <1>4 DEF End, Payload, Header, Tiled
<1>6. h.block[b].size <= Top /\ h.block[b].size \in Nat /\ End(h, b) \in Nat
  BY <1>1, <1>3, <1>4, <1>5
<1> QED
  BY <1>1, <1>2, <1>3, <1>4, <1>5, <1>6, BinsSuffice

(* index_free_block, of a block that was in no list.                       *)
LEMMA IndexWell ==
  ASSUME NEW h, NEW U, NEW b, Sound(h, U), b \in DOMAIN h.block, b \in U, h.block[b].free,
         NEW g, g = Index(h, b)
  PROVE  Sound(g, U \ {b}) /\ SameBlocks(g, h)
<1> DEFINE k == Bin(h.block[b].size)
<1>1. Typed(h) /\ Chained(h) /\ Tiled(h) /\ Listed(h, U)
  BY DEF Sound
<1>2. k \in Lists /\ b \in Int
  BY <1>1, SizeOf
<1>3. h.bins \in [Lists -> Seq(Int)]
  BY <1>1 DEF Typed
<1> HIDE DEF k
<1>4. PICK t : t = <<b>> \o h.bins[k]
  OBVIOUS
<1>5. g = [h EXCEPT !.bins = [h.bins EXCEPT ![k] = t]]
  BY <1>4 DEF Index, k
<1>6. /\ SameBlocks(g, h) /\ g.bins = [h.bins EXCEPT ![k] = t]
  BY <1>1, <1>5 DEF Typed, SameBlocks
<1>7. IsInjective(h.bins[k]) /\ ~ Among(b, h.bins[k]) /\ h.bins[k] \in Seq(Int)
  BY <1>1, <1>2, <1>3 DEF Listed
<1>8. /\ t \in Seq(Int) /\ IsInjective(t)
      /\ \A c : Among(c, t) <=> Among(c, h.bins[k]) \/ c = b
  <2>1. PICK s : s = h.bins[k]
    OBVIOUS
  <2>2. b \in Int /\ IsInjective(s) /\ ~ Among(b, s) /\ s \in Seq(Int) /\ t = <<b>> \o s
    BY <1>2, <1>4, <1>7, <2>1
  <2>3. /\ t \in Seq(Int) /\ IsInjective(t)
        /\ \A c : Among(c, t) <=> Among(c, s) \/ c = b
    BY <2>2, PutInFront, Zenon
  <2> QED
    BY <2>1, <2>3
<1>9. Typed(g)
  <2>1. g.bins \in [Lists -> Seq(Int)]
    BY <1>2, <1>3, <1>6, <1>8
  <2> QED
    BY <1>1, <1>5, <1>6, <2>1 DEF Typed, SameBlocks
<1>10. Listed(g, U \ {b})
  <2> SUFFICES ASSUME NEW l \in Lists
               PROVE  /\ IsInjective(g.bins[l])
                      /\ \A c \in Int : Among(c, g.bins[l]) <=>
                           c \in DOMAIN h.block \ (U \ {b}) /\ h.block[c].free /\ Bin(h.block[c].size) = l
    BY <1>6 DEF Listed, SameBlocks
  <2>1. /\ IsInjective(h.bins[l])
        /\ \A c \in Int : Among(c, h.bins[l]) <=>
             c \in DOMAIN h.block \ U /\ h.block[c].free /\ Bin(h.block[c].size) = l
    BY <1>1 DEF Listed
  <2>2. CASE l = k
    <3>1. g.bins[l] = t
      BY <1>2, <1>3, <1>6, <2>2
    <3> QED
      BY <1>8, <2>1, <2>2, <3>1 DEF k
  <2>3. CASE l # k
    <3>1. g.bins[l] = h.bins[l]
      BY <1>3, <1>6, <2>3
    <3> QED
      BY <2>1, <2>3, <3>1 DEF k
  <2> QED
    BY <2>2, <2>3
<1>11. Chained(g) /\ Tiled(g)
  BY <1>1, <1>6, SameShape
<1> QED
  BY <1>6, <1>9, <1>10, <1>11 DEF Sound

(* unindex_free_block, of a block that was in one.                         *)
LEMMA UnindexWell ==
  ASSUME NEW h, NEW U, NEW b, Sound(h, U), b \in DOMAIN h.block, b \notin U, h.block[b].free,
         NEW g, g = Unindex(h, b)
  PROVE  Sound(g, U \union {b}) /\ SameBlocks(g, h)
<1> DEFINE k == Bin(h.block[b].size)
<1>1. Typed(h) /\ Chained(h) /\ Tiled(h) /\ Listed(h, U)
  BY DEF Sound
<1>2. k \in Lists /\ b \in Int
  BY <1>1, SizeOf
<1>3. h.bins \in [Lists -> Seq(Int)]
  BY <1>1 DEF Typed
<1> HIDE DEF k
<1>4. PICK t : t = Unlinked(h.bins[k], b)
  OBVIOUS
<1>5. g = [h EXCEPT !.bins = [h.bins EXCEPT ![k] = t]]
  BY <1>4 DEF Unindex, k
<1>6. /\ SameBlocks(g, h) /\ g.bins = [h.bins EXCEPT ![k] = t]
  BY <1>1, <1>5 DEF Typed, SameBlocks
<1>7. IsInjective(h.bins[k]) /\ Among(b, h.bins[k]) /\ h.bins[k] \in Seq(Int)
  BY <1>1, <1>2, <1>3 DEF Listed, k
<1>8. /\ t \in Seq(Int) /\ IsInjective(t)
      /\ \A c : Among(c, t) <=> Among(c, h.bins[k]) /\ c # b
  BY <1>2, <1>4, <1>7, TakenOut
<1>9. Typed(g)
  <2>1. g.bins \in [Lists -> Seq(Int)]
    BY <1>2, <1>3, <1>6, <1>8
  <2> QED
    BY <1>1, <1>5, <1>6, <2>1 DEF Typed, SameBlocks
<1>10. Listed(g, U \union {b})
  <2> SUFFICES ASSUME NEW l \in Lists
               PROVE  /\ IsInjective(g.bins[l])
                      /\ \A c \in Int : Among(c, g.bins[l]) <=>
                           c \in DOMAIN h.block \ (U \union {b}) /\ h.block[c].free
                           /\ Bin(h.block[c].size) = l
    BY <1>6 DEF Listed, SameBlocks
  <2>1. /\ IsInjective(h.bins[l])
        /\ \A c \in Int : Among(c, h.bins[l]) <=>
             c \in DOMAIN h.block \ U /\ h.block[c].free /\ Bin(h.block[c].size) = l
    BY <1>1 DEF Listed
  <2>2. CASE l = k
    <3>1. g.bins[l] = t
      BY <1>2, <1>3, <1>6, <2>2
    <3> QED
      BY <1>8, <2>1, <2>2, <3>1 DEF k
  <2>3. CASE l # k
    <3>1. g.bins[l] = h.bins[l]
      BY <1>3, <1>6, <2>3
    <3> QED
      BY <2>1, <2>3, <3>1 DEF k
  <2> QED
    BY <2>2, <2>3
<1>11. Chained(g) /\ Tiled(g)
  BY <1>1, <1>6, SameShape
<1> QED
  BY <1>6, <1>9, <1>10, <1>11 DEF Sound

-----------------------------------------------------------------------------
(* Merging blocks                                                          *)

(* LinkBack, field by field.                                               *)
LEMMA LinkBackEffect ==
  ASSUME NEW h, Typed(h), NEW b \in DOMAIN h.block,
         h.block[b].next = Nil \/ h.block[b].next \in DOMAIN h.block,
         NEW g, g = LinkBack(h, b)
  PROVE  /\ Typed(g) /\ DOMAIN g.block = DOMAIN h.block
         /\ \A c \in DOMAIN h.block :
              /\ g.block[c].size = h.block[c].size /\ g.block[c].free = h.block[c].free
              /\ g.block[c].next = h.block[c].next
              /\ g.block[c].previous = IF c = h.block[b].next THEN b ELSE h.block[c].previous
         /\ g.tail = IF h.block[b].next = Nil THEN b ELSE h.tail
         /\ g.regions = h.regions /\ g.bins = h.bins
<1> DEFINE m == h.block[b].next
<1>1. b \in Int /\ Nil \notin DOMAIN h.block /\ \A c \in DOMAIN h.block : h.block[c] \in BlockRecords
  BY DEF Typed, Units, Nil
<1>2. CASE m = Nil
  <2>1. g = [h EXCEPT !.tail = b]
    BY <1>2 DEF LinkBack
  <2> QED
    BY <1>1, <1>2, <2>1 DEF Typed
<1>3. CASE m # Nil
  <2> HIDE DEF m
  <2>1. m \in DOMAIN h.block
    BY <1>3 DEF m
  <2>2. g = [h EXCEPT !.block[m].previous = b]
    BY <1>3 DEF LinkBack, m
  <2>3. g.block = [h.block EXCEPT ![m] = [h.block[m] EXCEPT !.previous = b]]
        /\ g.tail = h.tail /\ g.regions = h.regions /\ g.bins = h.bins
    BY <2>2 DEF Typed
  <2>4. g.block \in [DOMAIN h.block -> BlockRecords]
    <3>1. PICK x : x = [h.block[m] EXCEPT !.previous = b]
      OBVIOUS
    <3>2. x \in BlockRecords
      BY <1>1, <2>1, <3>1 DEF BlockRecords
    <3>3. g.block = [h.block EXCEPT ![m] = x] /\ h.block \in [DOMAIN h.block -> BlockRecords]
      BY <2>3, <3>1 DEF Typed
    <3> QED
      BY <3>2, <3>3
  <2>5. Typed(g)
    BY <2>2, <2>3, <2>4 DEF Typed
  <2>6. \A c \in DOMAIN h.block :
          /\ g.block[c].size = h.block[c].size /\ g.block[c].free = h.block[c].free
          /\ g.block[c].next = h.block[c].next
          /\ g.block[c].previous = IF c = m THEN b ELSE h.block[c].previous
    BY <1>1, <2>1, <2>3 DEF BlockRecords
  <2> QED
    BY <1>3, <2>3, <2>4, <2>5, <2>6 DEF m
<1> QED
  BY <1>2, <1>3

(* Absorb, field by field.                                                 *)
Absorbed(g, h, b, n, m) ==
  /\ DOMAIN g.block = DOMAIN h.block \ {n}
  /\ \A c \in DOMAIN g.block :
       /\ g.block[c].size = IF c = b THEN h.block[b].size + 3 + h.block[n].size ELSE h.block[c].size
       /\ g.block[c].free = h.block[c].free
       /\ g.block[c].next = IF c = b THEN m ELSE h.block[c].next
       /\ g.block[c].previous = IF c = m THEN b ELSE h.block[c].previous
  /\ g.tail = IF m = Nil THEN b ELSE h.tail
  /\ g.regions = h.regions

(* A round changes the two blocks and the one behind them, and takes the   *)
(* second out of its list.                                                 *)
LEMMA AbsorbEffect ==
  ASSUME NEW h, NEW U, NEW b, Sound(h, U), Mergeable(h, b),
         NEW n, n = h.block[b].next, n \notin U, NEW m, m = h.block[n].next,
         NEW g, g = Absorb(h, b)
  PROVE  Typed(g) /\ Absorbed(g, h, b, n, m) /\ g.bins = Unindex(h, n).bins
<1>1. Typed(h) /\ Chained(h) /\ Tiled(h) /\ Listed(h, U)
  BY DEF Sound
<1>2. /\ b \in DOMAIN h.block /\ n \in DOMAIN h.block /\ n # b /\ b \in Int /\ n \in Int
      /\ m \in Int /\ (m = Nil \/ m \in DOMAIN h.block \ {n})
  <2>1. b \in DOMAIN h.block /\ n \in DOMAIN h.block /\ End(h, b) = n
    BY <1>1 DEF Mergeable, Chained
  <2>2. n # b /\ b \in Int /\ n \in Int /\ m \in Int
    BY <1>1, <2>1, SizeOf
  <2>3. m = Nil \/ (m \in DOMAIN h.block /\ h.block[m].previous = n)
    BY <1>1, <2>1 DEF Chained
  <2>4. h.block[n].previous = b
    BY <1>1, <2>1 DEF Chained, Mergeable
  <2> QED
    BY <2>1, <2>2, <2>3, <2>4
<1>3. PICK u : u = Unindex(h, n)
  OBVIOUS
<1>4. u.block = h.block /\ u.tail = h.tail /\ u.regions = h.regions /\ Typed(u)
  <2>1. h.block[n].free
    BY DEF Mergeable
  <2>2. Sound(u, U \union {n}) /\ SameBlocks(u, h)
    BY <1>2, <1>3, <2>1, UnindexWell
  <2> QED
    BY <2>2 DEF SameBlocks, Sound
<1> DEFINE size == h.block[b].size + 3 + h.block[n].size
           rec == [h.block[b] EXCEPT !.size = size, !.next = m]
           w == [u EXCEPT !.block[b] = rec]
<1>5. /\ \A c \in DOMAIN h.block : h.block[c] \in BlockRecords
      /\ size \in Nat \ {0} /\ Nil \notin DOMAIN h.block
  BY <1>1, <1>2, SizeOf DEF Nil, BlockRecords
<1>6. g = [LinkBack(w, b) EXCEPT !.block = Dropping(@, n)]
  <2>1. [u EXCEPT !.block[b].size = @ + Header + h.block[n].size, !.block[b].next = h.block[n].next] = w
    BY <1>2, <1>4, <1>5 DEF Typed, BlockRecords, Header
  <2> QED
    BY <1>3, <2>1 DEF Absorb
<1>7. /\ Typed(w) /\ DOMAIN w.block = DOMAIN h.block
      /\ w.block[b] = rec /\ \A c \in DOMAIN h.block \ {b} : w.block[c] = h.block[c]
      /\ w.tail = h.tail /\ w.regions = h.regions /\ w.bins = u.bins
  <2> HIDE DEF size
  <2>1. rec \in BlockRecords
    BY <1>2, <1>5 DEF BlockRecords
  <2> HIDE DEF rec
  <2> QED
    BY <1>2, <1>4, <1>5, <2>1 DEF Typed
<1>8. rec.size = size /\ rec.next = m /\ rec.free = h.block[b].free /\ rec.previous = h.block[b].previous
  BY <1>2, <1>5 DEF BlockRecords
<1> HIDE DEF w, rec
<1>9. PICK l : l = LinkBack(w, b)
  OBVIOUS
<1>10. /\ Typed(l) /\ DOMAIN l.block = DOMAIN w.block
       /\ \A c \in DOMAIN w.block :
            /\ l.block[c].size = w.block[c].size /\ l.block[c].free = w.block[c].free
            /\ l.block[c].next = w.block[c].next
            /\ l.block[c].previous = IF c = w.block[b].next THEN b ELSE w.block[c].previous
       /\ l.tail = IF w.block[b].next = Nil THEN b ELSE w.tail
       /\ l.regions = w.regions /\ l.bins = w.bins
  <2>1. b \in DOMAIN w.block /\ (w.block[b].next = Nil \/ w.block[b].next \in DOMAIN w.block)
    BY <1>2, <1>7, <1>8
  <2> QED
    BY <1>7, <1>9, <2>1, LinkBackEffect
<1>11. /\ g.block = Dropping(l.block, n) /\ g.tail = l.tail /\ g.regions = l.regions
       /\ g.bins = l.bins /\ Typed(g)
  <2>1. PICK d : d = Dropping(l.block, n)
    OBVIOUS
  <2>2. g = [l EXCEPT !.block = d]
    BY <1>6, <1>9, <2>1
  <2>3. d \in [DOMAIN d -> BlockRecords] /\ DOMAIN d \subseteq Units
    BY <1>10, <2>1 DEF Typed, Dropping
  <2> QED
    BY <1>10, <2>1, <2>2, <2>3 DEF Typed
<1>12. DOMAIN g.block = DOMAIN h.block \ {n} /\ \A c \in DOMAIN g.block : g.block[c] = l.block[c]
  BY <1>7, <1>10, <1>11 DEF Dropping
<1>13. Absorbed(g, h, b, n, m)
  <2>1. ASSUME NEW c \in DOMAIN g.block
        PROVE  /\ g.block[c].size = IF c = b THEN size ELSE h.block[c].size
               /\ g.block[c].free = h.block[c].free
               /\ g.block[c].next = IF c = b THEN m ELSE h.block[c].next
               /\ g.block[c].previous = IF c = m THEN b ELSE h.block[c].previous
    <3>1. c \in DOMAIN h.block /\ g.block[c] = l.block[c] /\ c \in DOMAIN w.block
      BY <1>7, <1>12
    <3>2. w.block[b].next = m
      BY <1>7, <1>8
    <3>3. /\ g.block[c].size = w.block[c].size /\ g.block[c].free = w.block[c].free
          /\ g.block[c].next = w.block[c].next
          /\ g.block[c].previous = IF c = m THEN b ELSE w.block[c].previous
      BY <1>10, <3>1, <3>2
    <3>4. CASE c = b
      BY <1>7, <1>8, <3>3, <3>4
    <3>5. CASE c # b
      BY <1>7, <3>1, <3>3, <3>5
    <3> QED
      BY <3>4, <3>5
  <2>2. /\ DOMAIN g.block = DOMAIN h.block \ {n} /\ g.regions = h.regions
        /\ g.tail = IF m = Nil THEN b ELSE h.tail
    BY <1>7, <1>8, <1>10, <1>11, <1>12
  <2> QED
    BY <2>1, <2>2 DEF Absorbed
<1> QED
  BY <1>3, <1>7, <1>10, <1>11, <1>13

(* The chain after a block has taken in the next one.                      *)
LEMMA AbsorbChain ==
  ASSUME NEW h, NEW g, NEW b, NEW n, NEW m, Typed(h), Chained(h), b \in DOMAIN h.block, n # b,
         n = h.block[b].next, n # Nil, m = h.block[n].next, Absorbed(g, h, b, n, m)
  PROVE  Chained(g)
<1>1. /\ n \in DOMAIN h.block /\ h.block[n].previous = b /\ Nil \notin DOMAIN h.block
      /\ m = Nil \/ (m \in DOMAIN h.block /\ h.block[m].previous = n)
  BY DEF Chained, Typed, Units, Nil
<1>2. m # n
  BY <1>1
<1>3. DOMAIN g.block = DOMAIN h.block \ {n}
  BY DEF Absorbed
<1>4. ASSUME NEW c \in DOMAIN g.block
      PROVE  /\ \/ g.block[c].next = Nil
                \/ /\ g.block[c].next \in DOMAIN g.block
                   /\ g.block[g.block[c].next].previous = c
             /\ \/ g.block[c].previous = Nil
                \/ /\ g.block[c].previous \in DOMAIN g.block
                   /\ g.block[g.block[c].previous].next = c
             /\ g.block[c].next = Nil <=> c = g.tail
  <2>1. /\ c \in DOMAIN h.block /\ c # n
        /\ g.block[c].next = IF c = b THEN m ELSE h.block[c].next
        /\ g.block[c].previous = IF c = m THEN b ELSE h.block[c].previous
    BY <1>3 DEF Absorbed
  <2>2. /\ \/ h.block[c].next = Nil
           \/ /\ h.block[c].next \in DOMAIN h.block
              /\ h.block[h.block[c].next].previous = c
        /\ \/ h.block[c].previous = Nil
           \/ /\ h.block[c].previous \in DOMAIN h.block
              /\ h.block[h.block[c].previous].next = c
        /\ h.block[c].next = Nil <=> c = h.tail
    BY <2>1 DEF Chained
  <2>3. \/ g.block[c].next = Nil
        \/ /\ g.block[c].next \in DOMAIN g.block
           /\ g.block[g.block[c].next].previous = c
    <3>1. CASE c = b
      BY <1>1, <1>2, <1>3, <2>1, <3>1 DEF Absorbed
    <3>2. CASE c # b
      <4> DEFINE d == h.block[c].next
      <4>1. CASE d = Nil
        BY <2>1, <3>2, <4>1
      <4>2. CASE d # Nil
        <5>1. d \in DOMAIN h.block /\ h.block[d].previous = c /\ d # n /\ d # m
          BY <1>1, <2>1, <2>2, <3>2, <4>2
        <5>2. g.block[d].previous = c
          BY <1>3, <5>1 DEF Absorbed
        <5> QED
          BY <1>3, <2>1, <3>2, <5>1, <5>2
      <4> QED
        BY <4>1, <4>2
    <3> QED
      BY <3>1, <3>2
  <2>4. \/ g.block[c].previous = Nil
        \/ /\ g.block[c].previous \in DOMAIN g.block
           /\ g.block[g.block[c].previous].next = c
    <3>1. CASE c = m
      BY <1>1, <1>2, <1>3, <2>1, <3>1 DEF Absorbed
    <3>2. CASE c # m
      <4> DEFINE d == h.block[c].previous
      <4>1. CASE d = Nil
        BY <2>1, <3>2, <4>1
      <4>2. CASE d # Nil
        <5>1. d \in DOMAIN h.block /\ h.block[d].next = c /\ d # n /\ d # b
          BY <1>1, <2>1, <2>2, <3>2, <4>2
        <5>2. g.block[d].next = c
          BY <1>3, <5>1 DEF Absorbed
        <5> QED
          BY <1>3, <2>1, <3>2, <5>1, <5>2
      <4> QED
        BY <4>1, <4>2
    <3> QED
      BY <3>1, <3>2
  <2>5. g.block[c].next = Nil <=> c = g.tail
    <3>1. g.tail = IF m = Nil THEN b ELSE h.tail
      BY DEF Absorbed
    <3>2. b # h.tail /\ (m = Nil => h.tail = n)
      BY <1>1 DEF Chained
    <3> QED
      BY <2>1, <2>2, <3>1, <3>2
  <2> QED
    BY <2>3, <2>4, <2>5
<1>5. g.tail \in DOMAIN g.block \union {Nil} /\ g.tail # Nil
  <2>1. m # Nil => h.tail # n
    BY <1>1 DEF Chained
  <2>2. h.tail # Nil /\ h.tail \in DOMAIN h.block
    BY DEF Chained
  <2> QED
    BY <1>1, <1>3, <2>1, <2>2 DEF Absorbed
<1>6. \E c \in DOMAIN g.block : g.block[c].previous = Nil
  <2>1. PICK c \in DOMAIN h.block : h.block[c].previous = Nil
    BY DEF Chained
  <2>2. c # n /\ c # m
    BY <1>1, <2>1
  <2> QED
    BY <1>3, <2>1, <2>2 DEF Absorbed
<1>7. ASSUME NEW c \in DOMAIN g.block, NEW d \in DOMAIN g.block,
             g.block[c].previous = Nil, g.block[d].previous = Nil
      PROVE  c = d
  <2>1. h.block[c].previous = Nil /\ h.block[d].previous = Nil
    BY <1>1, <1>3, <1>7 DEF Absorbed
  <2> QED
    BY <1>3, <2>1 DEF Chained
<1> QED
  BY <1>4, <1>5, <1>6, <1>7 DEF Chained

(* The blocks fill the mappings as before.                                 *)
LEMMA AbsorbTiles ==
  ASSUME NEW h, NEW g, NEW b, NEW n, NEW m, Typed(h), Tiled(h), Typed(g), b \in DOMAIN h.block,
         n \in DOMAIN h.block, End(h, b) = n, Absorbed(g, h, b, n, m)
  PROVE  /\ Tiled(g)
         /\ \A c \in DOMAIN g.block : End(g, c) = IF c = b THEN End(h, n) ELSE End(h, c)
<1>1. /\ b \in Nat /\ n \in Nat /\ b < n /\ n < End(h, n) /\ End(h, n) \in Nat
      /\ h.block[b].size \in Nat /\ h.block[n].size \in Nat
      /\ End(h, b) = b + 3 + h.block[b].size /\ End(h, n) = n + 3 + h.block[n].size
  BY SizeOf
<1>2. DOMAIN g.block = DOMAIN h.block \ {n} /\ g.regions = h.regions
  BY DEF Absorbed
<1>3. ASSUME NEW c \in DOMAIN g.block
      PROVE  /\ End(g, c) = IF c = b THEN End(h, n) ELSE End(h, c)
             /\ c \in Nat /\ c \in DOMAIN h.block /\ c # n /\ End(h, c) \in Nat
  <2>1. c \in DOMAIN h.block /\ c # n
    BY <1>2
  <2>2. End(h, c) = c + 3 + h.block[c].size /\ c \in Nat /\ End(h, c) \in Nat
    BY <2>1, SizeOf
  <2>3. g.block[c].size = IF c = b THEN h.block[b].size + 3 + h.block[n].size ELSE h.block[c].size
    BY DEF Absorbed
  <2> QED
    BY <1>1, <2>1, <2>2, <2>3 DEF End, Payload, Header
<1>4. \A c \in DOMAIN g.block : End(g, c) <= Top
  BY <1>2, <1>3 DEF Tiled
<1>5. ASSUME NEW c \in DOMAIN g.block, NEW d \in DOMAIN g.block, c < d PROVE End(g, c) <= d
  <2>1. c \in DOMAIN h.block /\ d \in DOMAIN h.block /\ d # n /\ c \in Nat /\ d \in Nat
        /\ End(g, c) = IF c = b THEN End(h, n) ELSE End(h, c)
    BY <1>3
  <2>2. End(h, c) <= d /\ (n < d => End(h, n) <= d)
    BY <1>5, <2>1 DEF Tiled
  <2>3. CASE c = b
    <3>1. n <= d
      BY <2>2, <2>3
    <3>2. n < d
      BY <1>1, <2>1, <3>1
    <3> QED
      BY <2>1, <2>2, <2>3, <3>2
  <2> QED
    BY <2>1, <2>2, <2>3
<1>6. ASSUME NEW c \in DOMAIN g.block, NEW u \in c .. End(g, c) - 1
      PROVE  \E r \in g.regions : r <= u /\ u < r + Chunk
  <2>1. c \in DOMAIN h.block /\ End(g, c) = (IF c = b THEN End(h, n) ELSE End(h, c))
        /\ c \in Nat /\ End(h, c) \in Nat
    BY <1>3
  <2>2. u \in c .. End(h, c) - 1 \/ u \in n .. End(h, n) - 1
    <3>1. CASE c = b
      <4>1. u \in b .. End(h, n) - 1 /\ End(h, c) = n
        BY <2>1, <3>1
      <4> QED
        BY <1>1, <2>1, <3>1, <4>1
    <3> QED
      BY <2>1, <3>1
  <2> QED
    BY <1>2, <2>1, <2>2 DEF Tiled
<1>7. ASSUME NEW r \in g.regions, NEW u \in r .. r + Chunk - 1
      PROVE  \E c \in DOMAIN g.block : c <= u /\ u < End(g, c)
  <2>1. PICK c \in DOMAIN h.block : c <= u /\ u < End(h, c)
    BY <1>2 DEF Tiled
  <2>2. CASE c = n \/ c = b
    <3>1. u \in Int
      BY <1>1, <2>1, <2>2, SizeOf, AllocatorAssumption DEF Typed
    <3>2. b \in DOMAIN g.block /\ End(g, b) = End(h, n)
      BY <1>1, <1>2, <1>3
    <3> QED
      BY <1>1, <2>1, <2>2, <3>1, <3>2
  <2>3. CASE c # n /\ c # b
    BY <1>2, <1>3, <2>1, <2>3
  <2> QED
    BY <2>2, <2>3
<1>8. \A r \in g.regions : \E k \in 0 .. Places - 1 : r = Chunk * k
  BY <1>2 DEF Tiled
<1>9. Tiled(g)
  BY <1>4, <1>5, <1>6, <1>7, <1>8 DEF Tiled
<1> QED
  BY <1>3, <1>9

(* A block in no list takes in the next one, which leaves its own.         *)
LEMMA AbsorbWell ==
  ASSUME NEW h, NEW U, NEW b \in U, Sound(h, U), Mergeable(h, b),
         NEW n, n = h.block[b].next, n \notin U, NEW m, m = h.block[n].next,
         NEW g, g = Absorb(h, b)
  PROVE  /\ Sound(g, U) /\ Absorbed(g, h, b, n, m)
         /\ n \in DOMAIN h.block /\ b < n /\ h.block[n].free
         /\ \A c \in DOMAIN g.block : End(g, c) = IF c = b THEN End(h, n) ELSE End(h, c)
         /\ \A c : Mergeable(g, c) => (c # b /\ Mergeable(h, c)) \/ (c = b /\ Mergeable(h, n))
<1>1. Typed(h) /\ Chained(h) /\ Tiled(h) /\ Listed(h, U)
  BY DEF Sound
<1>2. /\ b \in DOMAIN h.block /\ n \in DOMAIN h.block /\ End(h, b) = n /\ n # Nil
      /\ h.block[b].free /\ h.block[n].free
  BY <1>1 DEF Mergeable, Chained
<1>3. b < n /\ n # b
  BY <1>1, <1>2, SizeOf
<1>4. Typed(g) /\ Absorbed(g, h, b, n, m) /\ g.bins = Unindex(h, n).bins
  BY AbsorbEffect
<1>5. Chained(g)
  BY <1>1, <1>2, <1>3, <1>4, AbsorbChain
<1>6. Tiled(g) /\ \A c \in DOMAIN g.block : End(g, c) = IF c = b THEN End(h, n) ELSE End(h, c)
  BY <1>1, <1>2, <1>4, AbsorbTiles
<1>7. Listed(g, U)
  <2>1. PICK w : w = Unindex(h, n)
    OBVIOUS
  <2>2. Listed(w, U \union {n}) /\ w.block = h.block
    BY <1>2, <2>1, UnindexWell DEF Sound, SameBlocks
  <2> SUFFICES ASSUME NEW k \in Lists
               PROVE  /\ IsInjective(g.bins[k])
                      /\ \A c \in Int : Among(c, g.bins[k]) <=>
                           c \in DOMAIN g.block \ U /\ g.block[c].free /\ Bin(g.block[c].size) = k
    BY DEF Listed
  <2>3. /\ IsInjective(g.bins[k])
        /\ \A c \in Int : Among(c, g.bins[k]) <=>
             c \in DOMAIN h.block \ (U \union {n}) /\ h.block[c].free /\ Bin(h.block[c].size) = k
    BY <1>4, <2>1, <2>2 DEF Listed
  <2>4. \A c \in DOMAIN g.block \ U :
          h.block[c].free = g.block[c].free /\ h.block[c].size = g.block[c].size
    BY <1>4 DEF Absorbed
  <2>5. DOMAIN h.block \ (U \union {n}) = DOMAIN g.block \ U
    BY <1>4 DEF Absorbed
  <2> QED
    BY <2>3, <2>4, <2>5
<1>8. ASSUME NEW c, Mergeable(g, c)
      PROVE  (c # b /\ Mergeable(h, c)) \/ (c = b /\ Mergeable(h, n))
  <2>1. c \in DOMAIN g.block /\ g.block[c].next \in DOMAIN g.block
    BY <1>5, <1>8 DEF Mergeable, Chained
  <2>2. /\ c \in DOMAIN h.block /\ g.block[c].next = IF c = b THEN m ELSE h.block[c].next
        /\ g.block[c].free = h.block[c].free
        /\ g.block[g.block[c].next].free = h.block[g.block[c].next].free
    BY <1>4, <2>1 DEF Absorbed
  <2> QED
    BY <1>2, <1>6, <1>8, <2>1, <2>2 DEF Mergeable
<1> QED
  BY <1>2, <1>3, <1>4, <1>5, <1>6, <1>7, <1>8 DEF Sound

(* One round of coalesce_free_blocks.                                      *)
Round(h, b) == IF Mergeable(h, b) THEN Absorb(h, b) ELSE h

(* The free blocks were merged before there was one more, so that a second *)
(* round finds nothing to do.                                              *)
LEMMA CoalesceOnce ==
  ASSUME NEW h, NEW U, NEW b \in U, Sound(h, U), b \in DOMAIN h.block, h.block[b].free,
         Mergeable(h, b) => h.block[b].next \notin U /\ ~ Mergeable(h, h.block[b].next)
  PROVE  Coalesce(h, b) = Round(h, b)
<1> DEFINE B == Cardinality(DOMAIN h.block)
           X == Round(h, b)
           Looks(g) == g.block[b].next # Nil /\ g.block[g.block[b].next].free
                       /\ End(g, b) = g.block[b].next
           Step(g) == IF Looks(g) THEN Absorb(g, b) ELSE g
<1>1. B \in Nat /\ B >= 1
  <2>1. IsFiniteSet(Units)
    <3>1. Chunk * Places - 1 \in Int
      BY AllocatorAssumption
    <3> QED
      BY <3>1, FS_Interval DEF Units
  <2>2. IsFiniteSet(DOMAIN h.block)
    BY <2>1, FS_Subset DEF Sound, Typed
  <2>3. B # 0 /\ B \in Nat
    BY <2>2, FS_EmptySet, FS_CardinalityType
  <2> QED
    BY <2>3
<1>2. Step(h) = X
  BY DEF Round, Mergeable
<1>3. Step(X) = X
  <2>1. CASE ~ Mergeable(h, b)
    BY <1>2, <2>1 DEF Round
  <2>2. CASE Mergeable(h, b)
    <3>1. X = Absorb(h, b) /\ ~ Mergeable(X, b) /\ Absorbed(X, h, b, h.block[b].next, h.block[h.block[b].next].next)
          /\ b < h.block[b].next /\ b \in Int
      <4>1. X = Absorb(h, b)
        BY <2>2 DEF Round
      <4>2. b \in Int
        BY DEF Sound, Typed, Units
      <4> HIDE DEF X
      <4> QED
        BY <2>2, <4>1, <4>2, AbsorbWell
    <3>2. b \in DOMAIN X.block /\ X.block[b].free
      <4> HIDE DEF X
      <4> QED
        BY <3>1, <2>2 DEF Absorbed, Sound, Typed, Units
    <3>3. ~ Looks(X)
      BY <3>1, <3>2 DEF Mergeable
    <3> QED
      BY <3>3
  <2> QED
    BY <2>1, <2>2
<1>4. PICK R : /\ R = CHOOSE r : r = [k \in 0 .. B |-> IF k = 0 THEN h ELSE Step(r[k - 1])]
               /\ Coalesce(h, b) = R[B]
  BY DEF Coalesce
<1> HIDE DEF B, X, Step
<1>5. R = [k \in 0 .. B |-> IF k = 0 THEN h ELSE Step(R[k - 1])]
  <2> DEFINE w == [k \in 0 .. B |-> IF k = 0 THEN h ELSE X]
  <2>1. w = [k \in 0 .. B |-> IF k = 0 THEN h ELSE Step(w[k - 1])]
    <3>1. ASSUME NEW k \in 0 .. B
          PROVE  (IF k = 0 THEN h ELSE X) = (IF k = 0 THEN h ELSE Step(w[k - 1]))
      <4>1. CASE k = 0
        BY <4>1
      <4>2. CASE k # 0
        <5>1. k - 1 \in 0 .. B
          BY <1>1, <4>2
        <5>2. w[k - 1] = h \/ w[k - 1] = X
          BY <5>1
        <5> QED
          BY <1>2, <1>3, <4>2, <5>2
      <4> QED
        BY <4>1, <4>2
    <3> QED
      BY <3>1
  <2> HIDE DEF w
  <2> QED
    BY <1>4, <2>1
<1>6. ASSUME NEW k \in 1 .. B PROVE R[k] = X
  <2> DEFINE T == {j \in 1 .. B : R[j] # X}
  <2> SUFFICES ASSUME T # {} PROVE FALSE
    OBVIOUS
  <2>1. PICK j \in T : \A i \in T : j <= i
    <3>1. T \subseteq Nat
      OBVIOUS
    <3> HIDE DEF T
    <3> QED
      BY <3>1, LeastNumber
  <2>2. j \in 1 .. B /\ R[j] # X /\ j \in 0 .. B /\ j # 0 /\ j - 1 \in 0 .. B
    BY <1>1, <2>1
  <2>3. R[j] = Step(R[j - 1])
    BY <1>5, <2>2
  <2>4. R[j - 1] = h \/ R[j - 1] = X
    <3>1. CASE j = 1
      BY <1>1, <1>5, <3>1
    <3>2. CASE j # 1
      <4>1. j - 1 \in 1 .. B /\ j - 1 \notin T
        BY <2>1, <2>2, <3>2
      <4> QED
        BY <4>1
    <3> QED
      BY <3>1, <3>2
  <2> QED
    BY <1>2, <1>3, <2>2, <2>3, <2>4
<1>7. Coalesce(h, b) = X
  BY <1>1, <1>4, <1>6
<1> QED
  BY <1>7 DEF X

(* Who is in use, and how much they have, stays.                           *)
UsersStay(g, h) ==
  /\ InUse(h) \subseteq InUse(g)
  /\ \A c \in InUse(h) : g.block[c].size = h.block[c].size

(* What coalesce_free_blocks leaves as it was.                             *)
Coalesced(g, h, b) ==
  /\ b \in DOMAIN g.block /\ g.block[b].free
  /\ DOMAIN g.block \subseteq DOMAIN h.block
  /\ \A c \in DOMAIN h.block : c <= b => c \in DOMAIN g.block
  /\ \A c \in DOMAIN g.block : g.block[c].free = h.block[c].free
  /\ \A c \in DOMAIN g.block \ {b} : g.block[c].size = h.block[c].size /\ End(g, c) = End(h, c)
  /\ \A c : Mergeable(g, c) => c # b /\ Mergeable(h, c)
  /\ InUse(g) = InUse(h) /\ UsersStay(g, h)

(* coalesce_free_blocks, of a free block in no list.                       *)
LEMMA CoalesceWell ==
  ASSUME NEW h, NEW U, NEW b \in U, Sound(h, U), b \in DOMAIN h.block, h.block[b].free,
         Mergeable(h, b) => h.block[b].next \notin U /\ ~ Mergeable(h, h.block[b].next),
         NEW g, g = Coalesce(h, b)
  PROVE  Sound(g, U) /\ Coalesced(g, h, b)
<1>1. g = Round(h, b)
  BY CoalesceOnce
<1>2. CASE ~ Mergeable(h, b)
  BY <1>1, <1>2 DEF Round, UsersStay, Coalesced
<1>3. CASE Mergeable(h, b)
  <2> DEFINE n == h.block[b].next
             m == h.block[n].next
  <2>1. g = Absorb(h, b)
    BY <1>1, <1>3 DEF Round
  <2>2. /\ Sound(g, U) /\ Absorbed(g, h, b, n, m)
        /\ n \in DOMAIN h.block /\ b < n /\ h.block[n].free
        /\ \A c \in DOMAIN g.block : End(g, c) = IF c = b THEN End(h, n) ELSE End(h, c)
        /\ \A c : Mergeable(g, c) => (c # b /\ Mergeable(h, c)) \/ (c = b /\ Mergeable(h, n))
    BY <1>3, <2>1, AbsorbWell
  <2> HIDE DEF n, m
  <2>3. /\ DOMAIN g.block = DOMAIN h.block \ {n}
        /\ \A c \in DOMAIN g.block :
             /\ g.block[c].free = h.block[c].free
             /\ c # b => g.block[c].size = h.block[c].size
    BY <2>2 DEF Absorbed
  <2>4. n # b
    BY <2>2 DEF Sound, Typed, Units
  <2>5. b \in DOMAIN g.block /\ g.block[b].free
    BY <2>3, <2>4
  <2>6. InUse(g) = InUse(h) /\ UsersStay(g, h)
    BY <2>2, <2>3, <2>5 DEF InUse, UsersStay
  <2>7. \A c : Mergeable(g, c) => c # b /\ Mergeable(h, c)
    BY <1>3, <2>2 DEF n
  <2>8. \A c \in DOMAIN h.block : c <= b => c \in DOMAIN g.block
    BY <2>2, <2>3 DEF Sound, Typed, Units
  <2> QED
    BY <2>2, <2>3, <2>5, <2>6, <2>7, <2>8 DEF Coalesced
<1> QED
  BY <1>2, <1>3

-----------------------------------------------------------------------------
(* Giving a block back                                                     *)

WithMark(h, b, x) == [h EXCEPT !.block[b].free = x]

(* Nothing but the mark of b is changed.                                   *)
Remarked(g, h, b, x) ==
  /\ g.regions = h.regions
  /\ DOMAIN g.block = DOMAIN h.block /\ g.block[b].free = x
  /\ \A c \in DOMAIN h.block : /\ End(g, c) = End(h, c) /\ g.block[c].size = h.block[c].size
                               /\ g.block[c].next = h.block[c].next
                               /\ g.block[c].previous = h.block[c].previous
                               /\ c # b => g.block[c].free = h.block[c].free

(* A block's mark is changed; it is in no list, if it was in none before  *)
(* or was in use.                                                          *)
LEMMA Marked ==
  ASSUME NEW h, NEW U, NEW b, b \in DOMAIN h.block, Sound(h, U), ~ h.block[b].free \/ b \in U,
         NEW x \in BOOLEAN, NEW g, g = WithMark(h, b, x)
  PROVE  Sound(g, U \union {b}) /\ Remarked(g, h, b, x)
<1>1. Typed(h) /\ Chained(h) /\ Tiled(h) /\ Listed(h, U)
  BY DEF Sound
<1>2. \A c \in DOMAIN h.block : h.block[c] \in BlockRecords
  BY <1>1 DEF Typed
<1>3. /\ g.block = [h.block EXCEPT ![b] = [h.block[b] EXCEPT !.free = x]]
      /\ g.tail = h.tail /\ g.regions = h.regions /\ g.bins = h.bins
  BY <1>1 DEF Typed, WithMark
<1>4. /\ DOMAIN g.block = DOMAIN h.block /\ g.block[b].free = x
      /\ \A c \in DOMAIN h.block : /\ g.block[c] \in BlockRecords
                                   /\ g.block[c].size = h.block[c].size
                                   /\ g.block[c].next = h.block[c].next
                                   /\ g.block[c].previous = h.block[c].previous
                                   /\ c # b => g.block[c].free = h.block[c].free
  BY <1>1, <1>2, <1>3 DEF BlockRecords, Typed
<1>5. Typed(g)
  <2>1. g = [h EXCEPT !.block = g.block]
    BY <1>1, <1>3 DEF Typed, WithMark
  <2>2. g.block \in [DOMAIN g.block -> BlockRecords]
    BY <1>3, <1>4
  <2> QED
    BY <1>1, <1>3, <1>4, <2>1, <2>2 DEF Typed
<1>6. \A c \in DOMAIN h.block : End(g, c) = End(h, c)
  BY <1>4 DEF End
<1>7. Chained(g)
  <2>1. \A c \in DOMAIN h.block :
       /\ \/ h.block[c].next = Nil
          \/ /\ h.block[c].next \in DOMAIN h.block
             /\ h.block[h.block[c].next].previous = c
       /\ \/ h.block[c].previous = Nil
          \/ /\ h.block[c].previous \in DOMAIN h.block
             /\ h.block[h.block[c].previous].next = c
       /\ h.block[c].next = Nil <=> c = h.tail
    BY <1>1 DEF Chained
  <2>2. \A c \in DOMAIN g.block :
       /\ \/ g.block[c].next = Nil
          \/ /\ g.block[c].next \in DOMAIN g.block
             /\ g.block[g.block[c].next].previous = c
       /\ \/ g.block[c].previous = Nil
          \/ /\ g.block[c].previous \in DOMAIN g.block
             /\ g.block[g.block[c].previous].next = c
       /\ g.block[c].next = Nil <=> c = g.tail
    BY <1>3, <1>4, <2>1
  <2>3. /\ g.tail \in DOMAIN g.block \union {Nil}
        /\ g.tail # Nil => \E c \in DOMAIN g.block : g.block[c].previous = Nil
        /\ g.tail = Nil => DOMAIN g.block = {}
        /\ \A c, d \in DOMAIN g.block :
             g.block[c].previous = Nil /\ g.block[d].previous = Nil => c = d
    BY <1>1, <1>3, <1>4 DEF Chained
  <2> QED
    BY <2>2, <2>3 DEF Chained
<1>8. Tiled(g)
  BY <1>1, <1>3, <1>4, <1>6 DEF Tiled
<1>9. Listed(g, U \union {b})
  <2> SUFFICES ASSUME NEW k \in Lists
               PROVE  /\ IsInjective(g.bins[k])
                      /\ \A c \in Int : Among(c, g.bins[k]) <=>
                           c \in DOMAIN g.block \ (U \union {b}) /\ g.block[c].free
                           /\ Bin(g.block[c].size) = k
    BY DEF Listed
  <2>1. /\ IsInjective(h.bins[k])
        /\ \A c \in Int : Among(c, h.bins[k]) <=>
             c \in DOMAIN h.block \ U /\ h.block[c].free /\ Bin(h.block[c].size) = k
    BY <1>1 DEF Listed
  <2> QED
    BY <1>3, <1>4, <2>1
<1> QED
  BY <1>3, <1>4, <1>5, <1>6, <1>7, <1>8, <1>9 DEF Sound, Remarked

(* A block in use is in no list anyway.                                    *)
LEMMA UsedUnlisted ==
  ASSUME NEW h, NEW U, NEW b, Sound(h, U), b \in DOMAIN h.block, ~ h.block[b].free
  PROVE  Sound(h, U \ {b})
<1>1. \A k \in Lists :
        /\ IsInjective(h.bins[k])
        /\ \A c \in Int : Among(c, h.bins[k]) <=>
             c \in DOMAIN h.block \ U /\ h.block[c].free /\ Bin(h.block[c].size) = k
  BY DEF Sound, Listed
<1>2. \A k \in Lists :
        /\ IsInjective(h.bins[k])
        /\ \A c \in Int : Among(c, h.bins[k]) <=>
             c \in DOMAIN h.block \ (U \ {b}) /\ h.block[c].free /\ Bin(h.block[c].size) = k
  BY <1>1
<1> QED
  BY <1>2 DEF Sound, Listed

(* What two blocks side by side have to do with the chain.                 *)
LEMMA MergeableChain ==
  ASSUME NEW h, NEW U, Sound(h, U), NEW b, Mergeable(h, b)
  PROVE  /\ b \in DOMAIN h.block /\ h.block[b].free
         /\ h.block[b].next \in DOMAIN h.block /\ h.block[b].next # b
         /\ h.block[h.block[b].next].free /\ h.block[h.block[b].next].previous = b
         /\ h.block[b].next = End(h, b)
         /\ b \in Nat /\ End(h, b) \in Nat /\ b < End(h, b)
<1>1. Typed(h) /\ Chained(h) /\ Tiled(h)
  BY DEF Sound
<1>2. /\ b \in DOMAIN h.block /\ h.block[b].free /\ h.block[b].next \in DOMAIN h.block
      /\ h.block[h.block[b].next].free /\ h.block[h.block[b].next].previous = b
      /\ h.block[b].next = End(h, b)
  BY <1>1 DEF Mergeable, Chained
<1>3. b \in Nat /\ End(h, b) \in Nat /\ b < End(h, b)
  BY <1>1, <1>2, SizeOf
<1> QED
  BY <1>2, <1>3

(* The block before b, if it and b are free, is what the chain says.       *)
LEMMA MergeableBefore ==
  ASSUME NEW h, NEW U, Sound(h, U), NEW b \in DOMAIN h.block, h.block[b].free,
         NEW p, p = h.block[b].previous
  PROVE  /\ p # Nil /\ h.block[p].free /\ End(h, p) = b => Mergeable(h, p) /\ h.block[p].next = b
         /\ \A c : Mergeable(h, c) /\ End(h, c) = b =>
              c = p /\ p # Nil /\ h.block[p].free /\ End(h, p) = b
<1>1. Chained(h) /\ Typed(h)
  BY DEF Sound
<1>2. b # Nil /\ Nil \notin DOMAIN h.block
  BY <1>1 DEF Typed, Units, Nil
<1>3. ASSUME p # Nil, h.block[p].free, End(h, p) = b PROVE Mergeable(h, p) /\ h.block[p].next = b
  <2>1. p \in DOMAIN h.block /\ h.block[p].next = b
    BY <1>1, <1>3 DEF Chained
  <2> QED
    BY <1>2, <1>3, <2>1 DEF Mergeable
<1>4. ASSUME NEW c, Mergeable(h, c), End(h, c) = b
      PROVE  c = p /\ p # Nil /\ h.block[p].free /\ End(h, p) = b
  BY <1>2, <1>4, MergeableChain
<1> QED
  BY <1>3, <1>4

(* free_unlocked, of a block in use.                                       *)
LEMMA FreedWell ==
  ASSUME NEW h, Whole(h), NEW b \in InUse(h), NEW g, g = Freed(h, b)
  PROVE  /\ Whole(g) /\ InUse(g) = InUse(h) \ {b} /\ DOMAIN g.block \subseteq DOMAIN h.block
         /\ \A c \in InUse(h) \ {b} : g.block[c].size = h.block[c].size
<1>1. Sound(h, {}) /\ (\A c : ~ Mergeable(h, c)) /\ b \in DOMAIN h.block /\ ~ h.block[b].free
  BY DEF Whole, InUse
<1>2. PICK h1 : h1 = [h EXCEPT !.block[b].free = TRUE]
  OBVIOUS
<1>3. /\ Sound(h1, {b})
      /\ DOMAIN h1.block = DOMAIN h.block /\ h1.block[b].free
      /\ \A c \in DOMAIN h.block : /\ End(h1, c) = End(h, c) /\ h1.block[c].size = h.block[c].size
                                   /\ h1.block[c].next = h.block[c].next
                                   /\ c # b => h1.block[c].free = h.block[c].free
  <2>1. PICK U, x : U = {} /\ x = TRUE
    OBVIOUS
  <2>2. /\ x \in BOOLEAN /\ Sound(h, U) /\ b \in DOMAIN h.block /\ ~ h.block[b].free
        /\ h1 = WithMark(h, b, x)
    BY <1>1, <1>2, <2>1 DEF WithMark
  <2>3. Sound(h1, U \union {b}) /\ Remarked(h1, h, b, x)
    BY <2>2, Marked
  <2>4. Sound(h1, {b})
    <3>1. U \union {b} = {b}
      BY <2>1
    <3> QED
      BY <2>3, <3>1
  <2> QED
    BY <2>1, <2>3, <2>4 DEF Remarked
<1>4. ASSUME NEW c, Mergeable(h1, c) PROVE c = b \/ End(h1, c) = b
  <2>1. c \in DOMAIN h.block /\ h1.block[c].next \in DOMAIN h.block /\ h1.block[c].next = End(h1, c)
    BY <1>3, <1>4, MergeableChain
  <2> QED
    BY <1>1, <1>3, <1>4, <2>1 DEF Mergeable
<1>5. Mergeable(h1, b) => h1.block[b].next \notin {b} /\ ~ Mergeable(h1, h1.block[b].next)
  <2> SUFFICES ASSUME Mergeable(h1, b)
               PROVE  h1.block[b].next \notin {b} /\ ~ Mergeable(h1, h1.block[b].next)
    OBVIOUS
  <2> DEFINE n == h1.block[b].next
  <2>1. n # b /\ n = End(h1, b) /\ b < n /\ b \in Nat /\ n \in Nat
    BY <1>3, MergeableChain
  <2>2. Mergeable(h1, n) => End(h1, n) = b /\ n < End(h1, n) /\ End(h1, n) \in Nat
    BY <1>3, <1>4, <2>1, MergeableChain
  <2> QED
    BY <2>1, <2>2
<1>6. PICK g1 : g1 = Coalesce(h1, b)
  OBVIOUS
<1>7. /\ Sound(g1, {b}) /\ b \in DOMAIN g1.block /\ g1.block[b].free
      /\ DOMAIN g1.block \subseteq DOMAIN h1.block
      /\ \A c \in DOMAIN g1.block \ {b} : End(g1, c) = End(h1, c)
      /\ \A c : Mergeable(g1, c) => c # b /\ Mergeable(h1, c)
      /\ InUse(g1) = InUse(h1) /\ UsersStay(g1, h1)
  <2>1. PICK U : U = {b}
    OBVIOUS
  <2>2. /\ b \in U /\ Sound(h1, U) /\ b \in DOMAIN h1.block /\ h1.block[b].free
        /\ (Mergeable(h1, b) => h1.block[b].next \notin U /\ ~ Mergeable(h1, h1.block[b].next))
    BY <1>1, <1>3, <1>5, <2>1
  <2>3. Sound(g1, U) /\ Coalesced(g1, h1, b)
    BY <1>6, <2>2, CoalesceWell
  <2> QED
    BY <2>1, <2>3 DEF Coalesced
<1>8. PICK g2 : g2 = Index(g1, b)
  OBVIOUS
<1>9. Sound(g2, {}) /\ g2.block = g1.block
  <2>1. Sound(g2, {b} \ {b}) /\ SameBlocks(g2, g1)
    BY <1>7, <1>8, IndexWell
  <2>2. {b} \ {b} = {}
    OBVIOUS
  <2> QED
    BY <2>1, <2>2 DEF SameBlocks
<1>10. \A c : Mergeable(g2, c) => c # b /\ End(g2, c) = b
  <2> SUFFICES ASSUME NEW c, Mergeable(g2, c) PROVE c # b /\ End(g2, c) = b
    OBVIOUS
  <2>1. Mergeable(g1, c) /\ End(g2, c) = End(g1, c) /\ c \in DOMAIN g1.block
    BY <1>9 DEF Mergeable, End
  <2> QED
    BY <1>4, <1>7, <2>1
<1>11. InUse(g2) = InUse(h) \ {b} /\ DOMAIN g2.block \subseteq DOMAIN h.block
       /\ \A c \in InUse(h) \ {b} : g2.block[c].size = h.block[c].size
  <2>1. InUse(h1) = InUse(h) \ {b}
    BY <1>1, <1>3 DEF InUse
  <2>2. \A c \in InUse(h1) : h1.block[c].size = h.block[c].size
    BY <1>3 DEF InUse
  <2> QED
    BY <1>3, <1>7, <1>9, <2>1, <2>2 DEF InUse, UsersStay
<1> DEFINE p == g2.block[b].previous
           Joins == p # Nil /\ g2.block[p].free /\ End(g2, p) = b
<1>12. g = IF Joins THEN Index(Coalesce(Unindex(g2, p), p), p) ELSE g2
  BY <1>2, <1>6, <1>8 DEF Freed
<1>13. b \in DOMAIN g2.block /\ g2.block[b].free
  BY <1>7, <1>9
<1>14. CASE ~ Joins
  <2>1. \A c : ~ Mergeable(g2, c)
    BY <1>9, <1>10, <1>13, <1>14, MergeableBefore
  <2> QED
    BY <1>9, <1>11, <1>12, <1>14, <2>1 DEF Whole
<1>15. CASE Joins
  <2> HIDE DEF p
  <2>1. Mergeable(g2, p) /\ g2.block[p].next = b /\ p # b /\ p \in DOMAIN g2.block /\ g2.block[p].free
    BY <1>9, <1>10, <1>13, <1>15, MergeableBefore DEF p, Mergeable
  <2>2. PICK g3 : g3 = Unindex(g2, p)
    OBVIOUS
  <2>3. Sound(g3, {p}) /\ g3.block = g2.block
    <3>1. Sound(g3, {} \union {p}) /\ SameBlocks(g3, g2)
      BY <1>9, <2>1, <2>2, UnindexWell
    <3>2. {} \union {p} = {p}
      OBVIOUS
    <3> QED
      BY <3>1, <3>2 DEF SameBlocks
  <2>4. \A c : (Mergeable(g3, c) <=> Mergeable(g2, c)) /\ End(g3, c) = End(g2, c)
    BY <2>3 DEF Mergeable, End
  <2>5. Mergeable(g3, p) => g3.block[p].next \notin {p} /\ ~ Mergeable(g3, g3.block[p].next)
    BY <1>10, <2>1, <2>3, <2>4
  <2>6. PICK g4 : g4 = Coalesce(g3, p)
    OBVIOUS
  <2>7. /\ Sound(g4, {p}) /\ p \in DOMAIN g4.block /\ g4.block[p].free
        /\ DOMAIN g4.block \subseteq DOMAIN g3.block
        /\ \A c : Mergeable(g4, c) => c # p /\ Mergeable(g3, c)
        /\ InUse(g4) = InUse(g3) /\ UsersStay(g4, g3)
    <3>1. PICK V : V = {p}
      OBVIOUS
    <3>2. /\ p \in V /\ Sound(g3, V) /\ p \in DOMAIN g3.block /\ g3.block[p].free
          /\ (Mergeable(g3, p) => g3.block[p].next \notin V /\ ~ Mergeable(g3, g3.block[p].next))
      BY <2>1, <2>3, <2>5, <3>1
    <3>3. Sound(g4, V) /\ Coalesced(g4, g3, p)
      BY <2>6, <3>2, CoalesceWell
    <3> QED
      BY <3>1, <3>3 DEF Coalesced
  <2>8. \A c : ~ Mergeable(g4, c)
    BY <1>9, <1>10, <1>13, <2>4, <2>7, MergeableBefore DEF p
  <2>9. g = Index(g4, p)
    BY <1>12, <1>15, <2>2, <2>6
  <2>10. Sound(g, {}) /\ g.block = g4.block
    <3>1. Sound(g, {p} \ {p}) /\ SameBlocks(g, g4)
      BY <2>7, <2>9, IndexWell
    <3>2. {p} \ {p} = {}
      OBVIOUS
    <3> QED
      BY <3>1, <3>2 DEF SameBlocks
  <2>11. \A c : ~ Mergeable(g, c)
    BY <2>8, <2>10 DEF Mergeable, End
  <2>12. InUse(g) = InUse(g2) /\ DOMAIN g.block \subseteq DOMAIN g2.block
         /\ \A c \in InUse(g2) : g.block[c].size = g2.block[c].size
    BY <2>3, <2>7, <2>10 DEF InUse, UsersStay
  <2> QED
    BY <1>11, <2>10, <2>11, <2>12 DEF Whole
<1> QED
  BY <1>14, <1>15

-----------------------------------------------------------------------------
(* Splitting a block                                                       *)

(* The first half of split_block, field by field.                          *)
CutInTwo(g, h, b, n, c) ==
  /\ c \notin DOMAIN h.block /\ DOMAIN g.block = DOMAIN h.block \union {c}
  /\ \A x \in DOMAIN h.block :
       /\ g.block[x].size = IF x = b THEN n ELSE h.block[x].size
       /\ g.block[x].free = h.block[x].free
       /\ g.block[x].next = IF x = b THEN c ELSE h.block[x].next
       /\ g.block[x].previous = IF x = h.block[b].next THEN c ELSE h.block[x].previous
  /\ g.block[c].size = h.block[b].size - n - 3 /\ g.block[c].free
  /\ g.block[c].next = h.block[b].next /\ g.block[c].previous = b
  /\ g.tail = IF h.block[b].next = Nil THEN c ELSE h.tail
  /\ g.regions = h.regions /\ g.bins = h.bins

Rest(h, b, n) == [size |-> h.block[b].size - n - Header, free |-> TRUE,
                  next |-> h.block[b].next, previous |-> b]
Cut(h, b, n, c) ==
  [h EXCEPT !.block = Adding([@ EXCEPT ![b].size = n, ![b].next = c], c, Rest(h, b, n))]

(* split_block, up to the merging of the rest.                             *)
LEMMA CutEffect ==
  ASSUME NEW h, NEW U, NEW b \in DOMAIN h.block, Sound(h, U),
         NEW n \in Nat \ {0}, ~ h.block[b].size < n + 2 * Header,
         NEW c, c = Payload(b) + n, NEW g, g = LinkBack(Cut(h, b, n, c), c)
  PROVE  Typed(g) /\ CutInTwo(g, h, b, n, c) /\ b < c /\ c < End(h, b) /\ c \in Nat
<1>1. Typed(h) /\ Chained(h) /\ Tiled(h)
  BY DEF Sound
<1>2. /\ b \in Nat /\ Top \in Nat /\ h.block[b] \in BlockRecords
      /\ h.block[b].size \in Nat /\ h.block[b].next \in Int
      /\ End(h, b) = b + 3 + h.block[b].size /\ End(h, b) <= Top
  BY <1>1, SizeOf
<1>3. /\ c = b + 3 + n /\ c \in Nat /\ b < c /\ c < End(h, b) /\ c < Top
      /\ h.block[b].size - n - 3 \in Nat \ {0}
  BY <1>2 DEF Payload, Header
<1>4. c \notin DOMAIN h.block /\ c \in Units /\ c # b
  <2>1. c \in Units
    BY <1>2, <1>3 DEF Units, Top
  <2>2. c \notin DOMAIN h.block
    BY <1>1, <1>2, <1>3 DEF Tiled
  <2> QED
    BY <1>2, <1>3, <2>1, <2>2
<1>5. h.block[b].next = Nil \/ h.block[b].next \in DOMAIN h.block
  BY <1>1 DEF Chained
<1> DEFINE m == h.block[b].next
<1>6. PICK r : r = Rest(h, b, n)
  OBVIOUS
<1>7. /\ r \in BlockRecords /\ r.size = h.block[b].size - n - 3 /\ r.free /\ r.next = m
      /\ r.previous = b
  BY <1>2, <1>3, <1>6 DEF Rest, BlockRecords, Header
<1>8. PICK f : f = [h.block EXCEPT ![b].size = n, ![b].next = c]
  OBVIOUS
<1>9. /\ f \in [DOMAIN h.block -> BlockRecords]
      /\ f[b].size = n /\ f[b].free = h.block[b].free /\ f[b].next = c
      /\ f[b].previous = h.block[b].previous
      /\ \A x \in DOMAIN h.block \ {b} : f[x] = h.block[x]
  <2>1. PICK y : y = [h.block[b] EXCEPT !.size = n, !.next = c]
    OBVIOUS
  <2>2. y \in BlockRecords /\ y.size = n /\ y.free = h.block[b].free /\ y.next = c
        /\ y.previous = h.block[b].previous
    <3>1. PICK old : old = h.block[b]
      OBVIOUS
    <3>2. old \in BlockRecords /\ n \in Nat \ {0} /\ c \in Int
      BY <1>2, <1>3, <3>1
    <3>3. y = [old EXCEPT !.size = n, !.next = c]
      BY <2>1, <3>1, Zenon
    <3>4. y \in BlockRecords /\ y.size = n /\ y.free = old.free /\ y.next = c /\ y.previous = old.previous
      BY <3>2, <3>3 DEF BlockRecords
    <3> QED
      BY <3>1, <3>4
  <2>3. f = [h.block EXCEPT ![b] = y]
    BY <1>1, <1>2, <1>8, <2>1 DEF Typed, BlockRecords
  <2> QED
    BY <1>1, <2>2, <2>3 DEF Typed
<1>10. PICK w : w = Cut(h, b, n, c)
  OBVIOUS
<1>11. /\ w.block = Adding(f, c, r) /\ w.tail = h.tail /\ w.regions = h.regions
       /\ w.bins = h.bins /\ Typed(w)
  <2>1. PICK d : d = Adding(f, c, r)
    OBVIOUS
  <2>2. w = [h EXCEPT !.block = d]
    BY <1>6, <1>8, <1>10, <2>1 DEF Cut
  <2>3. d \in [DOMAIN d -> BlockRecords] /\ DOMAIN d \subseteq Units
    BY <1>1, <1>4, <1>7, <1>9, <2>1 DEF Typed, Adding
  <2> QED
    BY <1>1, <2>1, <2>2, <2>3 DEF Typed
<1>12. /\ DOMAIN w.block = DOMAIN h.block \union {c}
       /\ w.block[c] = r /\ \A x \in DOMAIN h.block : w.block[x] = f[x]
  BY <1>4, <1>9, <1>11 DEF Adding
<1>13. /\ Typed(g) /\ DOMAIN g.block = DOMAIN w.block
       /\ \A x \in DOMAIN w.block :
            /\ g.block[x].size = w.block[x].size /\ g.block[x].free = w.block[x].free
            /\ g.block[x].next = w.block[x].next
            /\ g.block[x].previous = IF x = w.block[c].next THEN c ELSE w.block[x].previous
       /\ g.tail = IF w.block[c].next = Nil THEN c ELSE w.tail
       /\ g.regions = w.regions /\ g.bins = w.bins
  <2>1. c \in DOMAIN w.block /\ (w.block[c].next = Nil \/ w.block[c].next \in DOMAIN w.block)
    BY <1>5, <1>7, <1>12
  <2> QED
    BY <1>10, <1>11, <2>1, LinkBackEffect
<1> HIDE DEF m
<1>14. m # c /\ m = h.block[b].next
  BY <1>1, <1>3, <1>4, <1>5 DEF m, Nil
<1>15. CutInTwo(g, h, b, n, c)
  BY <1>4, <1>7, <1>9, <1>11, <1>12, <1>13, <1>14 DEF CutInTwo
<1> QED
  BY <1>3, <1>13, <1>15

(* The chain after a block has been cut in two.                            *)
LEMMA CutChain ==
  ASSUME NEW h, NEW g, NEW b \in DOMAIN h.block, NEW n, NEW c, Typed(h), Chained(h),
         CutInTwo(g, h, b, n, c), c # Nil
  PROVE  Chained(g)
<1> DEFINE m == h.block[b].next
<1>1. /\ Nil \notin DOMAIN h.block /\ m # c /\ b # c
      /\ m = Nil \/ (m \in DOMAIN h.block /\ h.block[m].previous = b)
  BY DEF Chained, Typed, Units, Nil, CutInTwo
<1> HIDE DEF m
<1>2. DOMAIN g.block = DOMAIN h.block \union {c} /\ c \notin DOMAIN h.block
  BY DEF CutInTwo
<1>3. /\ \A x \in DOMAIN h.block :
           /\ g.block[x].next = IF x = b THEN c ELSE h.block[x].next
           /\ g.block[x].previous = IF x = m THEN c ELSE h.block[x].previous
      /\ g.block[c].next = m /\ g.block[c].previous = b
      /\ g.tail = IF m = Nil THEN c ELSE h.tail
  BY DEF CutInTwo, m
<1>4. \A x \in DOMAIN h.block :
         /\ \/ h.block[x].next = Nil
            \/ /\ h.block[x].next \in DOMAIN h.block
               /\ h.block[h.block[x].next].previous = x
         /\ \/ h.block[x].previous = Nil
            \/ /\ h.block[x].previous \in DOMAIN h.block
               /\ h.block[h.block[x].previous].next = x
         /\ h.block[x].next = Nil <=> x = h.tail
  BY DEF Chained
<1>5. /\ h.tail \in DOMAIN h.block \union {Nil}
      /\ h.tail # Nil => \E x \in DOMAIN h.block : h.block[x].previous = Nil
      /\ h.tail = Nil => DOMAIN h.block = {}
      /\ \A x, y \in DOMAIN h.block : h.block[x].previous = Nil /\ h.block[y].previous = Nil => x = y
  BY DEF Chained
<1>6. ASSUME NEW x \in DOMAIN g.block
      PROVE  /\ \/ g.block[x].next = Nil
                \/ /\ g.block[x].next \in DOMAIN g.block
                   /\ g.block[g.block[x].next].previous = x
             /\ \/ g.block[x].previous = Nil
                \/ /\ g.block[x].previous \in DOMAIN g.block
                   /\ g.block[g.block[x].previous].next = x
             /\ g.block[x].next = Nil <=> x = g.tail
  <2>1. CASE x = c
    BY <1>1, <1>2, <1>3, <1>5, <2>1
  <2>2. CASE x = b
    <3>1. \/ g.block[x].next = Nil
          \/ /\ g.block[x].next \in DOMAIN g.block
             /\ g.block[g.block[x].next].previous = x
      BY <1>1, <1>2, <1>3, <2>2
    <3>2. \/ g.block[x].previous = Nil
          \/ /\ g.block[x].previous \in DOMAIN g.block
             /\ g.block[g.block[x].previous].next = x
      BY <1>1, <1>2, <1>3, <1>4, <2>2 DEF m
    <3>3. g.block[x].next = Nil <=> x = g.tail
      BY <1>1, <1>2, <1>3, <1>4, <2>2 DEF m
    <3> QED
      BY <3>1, <3>2, <3>3
  <2>3. CASE x # b /\ x # c
    <3>1. \/ g.block[x].next = Nil
          \/ /\ g.block[x].next \in DOMAIN g.block
             /\ g.block[g.block[x].next].previous = x
      BY <1>1, <1>2, <1>3, <1>4, <2>3
    <3>2. \/ g.block[x].previous = Nil
          \/ /\ g.block[x].previous \in DOMAIN g.block
             /\ g.block[g.block[x].previous].next = x
      BY <1>1, <1>2, <1>3, <1>4, <2>3 DEF m
    <3>3. g.block[x].next = Nil <=> x = g.tail
      BY <1>1, <1>2, <1>3, <1>4, <2>3 DEF m
    <3> QED
      BY <3>1, <3>2, <3>3
  <2> QED
    BY <2>1, <2>2, <2>3
<1>7. g.tail \in DOMAIN g.block /\ g.tail # Nil
  BY <1>2, <1>3, <1>5
<1>8. \E x \in DOMAIN g.block : g.block[x].previous = Nil
  BY <1>1, <1>2, <1>3, <1>5
<1>9. \A x, y \in DOMAIN g.block : g.block[x].previous = Nil /\ g.block[y].previous = Nil => x = y
  BY <1>1, <1>2, <1>3, <1>5
<1> QED
  BY <1>6, <1>7, <1>8, <1>9 DEF Chained

(* The two parts lie where the block lay.                                  *)
LEMMA CutTiles ==
  ASSUME NEW h, NEW g, NEW b \in DOMAIN h.block, NEW n \in Nat, NEW c, Typed(h), Tiled(h), Typed(g),
         CutInTwo(g, h, b, n, c), c = b + 3 + n, c < End(h, b)
  PROVE  /\ Tiled(g) /\ End(g, b) = c /\ End(g, c) = End(h, b)
         /\ \A x \in DOMAIN h.block \ {b} : End(g, x) = End(h, x)
<1>1. /\ b \in Nat /\ c \in Nat /\ b < c /\ h.block[b].size \in Nat
      /\ End(h, b) = b + 3 + h.block[b].size /\ End(h, b) \in Nat
  BY SizeOf
<1>2. DOMAIN g.block = DOMAIN h.block \union {c} /\ c \notin DOMAIN h.block /\ g.regions = h.regions
  BY DEF CutInTwo
<1>3. End(g, b) = c /\ End(g, c) = End(h, b)
  <2>1. g.block[b].size = n /\ g.block[c].size = h.block[b].size - n - 3
    BY DEF CutInTwo
  <2> QED
    BY <1>1, <2>1 DEF End, Payload, Header
<1>4. ASSUME NEW x \in DOMAIN h.block \ {b}
      PROVE  End(g, x) = End(h, x) /\ x \in Nat /\ End(h, x) \in Nat
  <2>1. g.block[x].size = h.block[x].size
    BY DEF CutInTwo
  <2>2. x \in Nat /\ End(h, x) \in Nat
    BY SizeOf
  <2> QED
    BY <2>1, <2>2 DEF End
<1>5. ASSUME NEW x \in DOMAIN g.block PROVE End(g, x) <= Top
  <2>1. Top \in Nat /\ End(h, b) <= Top /\ \A y \in DOMAIN h.block : End(h, y) <= Top
    BY SizeOf
  <2> QED
    BY <1>1, <1>2, <1>3, <1>4, <2>1
<1>6. ASSUME NEW x \in DOMAIN g.block, NEW y \in DOMAIN g.block, x < y PROVE End(g, x) <= y
  <2>1. \A u, v \in DOMAIN h.block : u < v => End(h, u) <= v
    BY DEF Tiled
  <2>2. CASE x = c
    <3>1. y \in DOMAIN h.block /\ y # b /\ y \in Nat
      BY <1>1, <1>2, <1>4, <1>6, <2>2
    <3>2. b < y
      BY <1>1, <1>6, <2>2, <3>1
    <3> QED
      BY <1>3, <2>1, <2>2, <3>1, <3>2
  <2>3. CASE y = c /\ x # b /\ x # c
    <3>1. x \in DOMAIN h.block /\ x \in Nat /\ End(g, x) = End(h, x)
      BY <1>2, <1>4, <2>3
    <3>2. x < b
      <4>1. b < x => End(h, b) <= x
        BY <2>1, <3>1
      <4> QED
        BY <1>1, <1>6, <2>3, <3>1, <4>1
    <3>3. End(h, x) <= b /\ End(h, x) \in Nat
      BY <1>4, <2>1, <2>3, <3>1, <3>2
    <3> QED
      BY <1>1, <2>3, <3>1, <3>3
  <2>4. CASE y = c /\ x = b
    BY <1>1, <1>3, <2>4
  <2>5. CASE x # c /\ y # c
    <3>1. x \in DOMAIN h.block /\ y \in DOMAIN h.block /\ End(h, x) <= y /\ y \in Nat
      BY <1>1, <1>2, <1>4, <1>6, <2>1, <2>5
    <3> QED
      BY <1>1, <1>3, <1>4, <3>1
  <2> QED
    BY <2>2, <2>3, <2>4, <2>5
<1>7. ASSUME NEW x \in DOMAIN g.block, NEW u \in x .. End(g, x) - 1
      PROVE  \E r \in g.regions : r <= u /\ u < r + Chunk
  <2>1. \A y \in DOMAIN h.block : \A v \in y .. End(h, y) - 1 :
          \E r \in g.regions : r <= v /\ v < r + Chunk
    BY <1>2 DEF Tiled
  <2>2. CASE x = b \/ x = c
    <3>1. u \in b .. End(h, b) - 1
      BY <1>1, <1>3, <2>2
    <3> QED
      BY <2>1, <3>1
  <2>3. CASE x # b /\ x # c
    BY <1>2, <1>4, <2>1, <2>3
  <2> QED
    BY <2>2, <2>3
<1>8. ASSUME NEW r \in g.regions, NEW u \in r .. r + Chunk - 1
      PROVE  \E x \in DOMAIN g.block : x <= u /\ u < End(g, x)
  <2>1. PICK x \in DOMAIN h.block : x <= u /\ u < End(h, x)
    BY <1>2 DEF Tiled
  <2>2. u \in Int
    BY <1>2, AllocatorAssumption DEF Typed
  <2>3. CASE x = b
    <3>1. u < c \/ c <= u
      BY <1>1, <2>2
    <3> QED
      BY <1>2, <1>3, <2>1, <2>3, <3>1
  <2>4. CASE x # b
    BY <1>2, <1>4, <2>1, <2>4
  <2> QED
    BY <2>3, <2>4
<1>9. \A r \in g.regions : \E k \in 0 .. Places - 1 : r = Chunk * k
  BY <1>2 DEF Tiled
<1>10. Tiled(g)
  BY <1>5, <1>6, <1>7, <1>8, <1>9 DEF Tiled
<1> QED
  BY <1>3, <1>4, <1>10

(* Only b itself and the block before it may have to be merged.            *)
MergedBut(h, b) == \A x : Mergeable(h, x) => x = b \/ End(h, x) = b

(* A block cut in two: the second part is free and in no list yet.         *)
LEMMA CutWell ==
  ASSUME NEW h, NEW U, NEW b, b \in DOMAIN h.block, Sound(h, U), U \subseteq {b},
         ~ h.block[b].free \/ b \in U, MergedBut(h, b),
         NEW n \in Nat \ {0}, ~ h.block[b].size < n + 2 * Header,
         NEW c, c = Payload(b) + n, NEW g, g = LinkBack(Cut(h, b, n, c), c)
  PROVE  /\ Sound(g, U \union {c}) /\ CutInTwo(g, h, b, n, c) /\ c \notin U /\ b < c /\ b \in Nat /\ c \in Nat
         /\ \A x : Mergeable(g, x) => x = b \/ x = c \/ End(g, x) = b
<1>1. Typed(h) /\ Chained(h) /\ Tiled(h) /\ Listed(h, U)
  BY DEF Sound
<1>2. Typed(g) /\ CutInTwo(g, h, b, n, c) /\ b < c /\ c < End(h, b) /\ c \in Nat /\ b \in Nat
  <2>1. b \in Nat
    BY <1>1, SizeOf
  <2> QED
    BY <2>1, CutEffect
<1>3. c # Nil /\ c # b /\ c \notin U /\ c \notin DOMAIN h.block /\ DOMAIN g.block = DOMAIN h.block \union {c}
  BY <1>2 DEF CutInTwo, Nil
<1>4. Chained(g)
  BY <1>1, <1>2, <1>3, CutChain
<1>5. /\ Tiled(g) /\ End(g, b) = c /\ End(g, c) = End(h, b)
      /\ \A x \in DOMAIN h.block \ {b} : End(g, x) = End(h, x)
  <2>1. c = b + 3 + n /\ n \in Nat
    BY <1>2 DEF Payload, Header
  <2> QED
    BY <1>1, <1>2, <2>1, CutTiles
<1>6. Listed(g, U \union {c})
  <2> SUFFICES ASSUME NEW k \in Lists
               PROVE  /\ IsInjective(g.bins[k])
                      /\ \A x \in Int : Among(x, g.bins[k]) <=>
                           x \in DOMAIN g.block \ (U \union {c}) /\ g.block[x].free
                           /\ Bin(g.block[x].size) = k
    BY DEF Listed
  <2>1. /\ IsInjective(g.bins[k])
        /\ \A x \in Int : Among(x, g.bins[k]) <=>
             x \in DOMAIN h.block \ U /\ h.block[x].free /\ Bin(h.block[x].size) = k
    BY <1>1, <1>2 DEF Listed, CutInTwo
  <2>2. DOMAIN g.block \ (U \union {c}) = DOMAIN h.block \ U
    BY <1>3
  <2>3. \A x \in DOMAIN h.block \ U :
           g.block[x].free = h.block[x].free /\ (h.block[x].free => g.block[x].size = h.block[x].size)
    BY <1>2 DEF CutInTwo
  <2> QED
    BY <2>1, <2>2, <2>3
<1>7. Sound(g, U \union {c})
  BY <1>2, <1>4, <1>5, <1>6 DEF Sound
<1>8. ASSUME NEW x, Mergeable(g, x), x # b, x # c PROVE End(g, x) = b
  <2>1. /\ x \in DOMAIN g.block /\ g.block[x].free /\ g.block[x].next \in DOMAIN g.block
        /\ g.block[g.block[x].next].free /\ g.block[x].next = End(g, x)
        /\ g.block[g.block[x].next].previous = x
    BY <1>7, <1>8, MergeableChain
  <2>2. x \in DOMAIN h.block /\ g.block[x].next = h.block[x].next /\ h.block[x].free
        /\ End(g, x) = End(h, x)
    BY <1>2, <1>3, <1>5, <1>8, <2>1 DEF CutInTwo
  <2>3. g.block[x].next # c
    BY <1>2, <1>8, <2>1 DEF CutInTwo
  <2>4. Mergeable(h, x)
    <3>1. g.block[x].next \in DOMAIN h.block /\ g.block[x].next # Nil
      BY <1>1, <1>3, <2>1, <2>3 DEF Typed, Units, Nil
    <3>2. h.block[g.block[x].next].free
      BY <1>2, <2>1, <3>1 DEF CutInTwo
    <3> QED
      BY <2>1, <2>2, <3>1, <3>2 DEF Mergeable
  <2> QED
    BY <1>8, <2>2, <2>4 DEF MergedBut
<1> QED
  BY <1>2, <1>3, <1>7, <1>8

(* What split_block leaves: b with room for n, and the other users.        *)
SplitAt(g, h, b, n) ==
  /\ MergedBut(g, b)
  /\ b \in DOMAIN g.block /\ g.block[b].free = h.block[b].free /\ n <= g.block[b].size
  /\ InUse(g) = InUse(h) /\ \A x \in InUse(h) \ {b} : g.block[x].size = h.block[x].size

(* split_block.                                                            *)
LEMMA SplitWell ==
  ASSUME NEW h, NEW U, NEW b, b \in DOMAIN h.block, Sound(h, U), U \subseteq {b},
         ~ h.block[b].free \/ b \in U, MergedBut(h, b),
         NEW n \in Nat \ {0}, n <= h.block[b].size, NEW g, g = Split(h, b, n)
  PROVE  Sound(g, U) /\ SplitAt(g, h, b, n)
<1>1. CASE h.block[b].size < n + 2 * Header
  BY <1>1 DEF Split, SplitAt
<1>2. CASE ~ h.block[b].size < n + 2 * Header
  <2>1. PICK c : c = Payload(b) + n
    OBVIOUS
  <2>2. PICK w : w = LinkBack(Cut(h, b, n, c), c)
    OBVIOUS
  <2>3. g = Index(Coalesce(w, c), c)
    BY <1>2, <2>1, <2>2 DEF Split, Cut, Rest
  <2>4. /\ Sound(w, U \union {c}) /\ CutInTwo(w, h, b, n, c) /\ c \notin U /\ b < c /\ b \in Nat /\ c \in Nat
        /\ \A x : Mergeable(w, x) => x = b \/ x = c \/ End(w, x) = b
    BY <1>2, <2>1, <2>2, CutWell
  <2>5. /\ c \notin DOMAIN h.block /\ DOMAIN w.block = DOMAIN h.block \union {c}
        /\ w.block[c].free /\ w.block[b].size = n
        /\ \A x \in DOMAIN h.block :
             w.block[x].free = h.block[x].free /\ (x # b => w.block[x].size = h.block[x].size)
    BY <2>4 DEF CutInTwo
  <2>6. PICK V : V = U \union {c}
    OBVIOUS
  <2>7. Mergeable(w, c) => w.block[c].next \notin V /\ ~ Mergeable(w, w.block[c].next)
    <3> SUFFICES ASSUME Mergeable(w, c)
                 PROVE  w.block[c].next \notin V /\ ~ Mergeable(w, w.block[c].next)
      OBVIOUS
    <3>1. PICK m : m = w.block[c].next
      OBVIOUS
    <3>2. c < m /\ m \in Nat
      BY <2>4, <3>1, MergeableChain
    <3>3. Mergeable(w, m) => m < End(w, m) /\ End(w, m) \in Nat
      BY <2>4, MergeableChain
    <3> QED
      BY <2>4, <2>6, <3>1, <3>2, <3>3
  <2>8. PICK v : v = Coalesce(w, c)
    OBVIOUS
  <2>9. Sound(v, V) /\ Coalesced(v, w, c)
    <3>1. /\ c \in V /\ Sound(w, V) /\ c \in DOMAIN w.block /\ w.block[c].free
          /\ (Mergeable(w, c) => w.block[c].next \notin V /\ ~ Mergeable(w, w.block[c].next))
      BY <2>4, <2>5, <2>6, <2>7
    <3> QED
      BY <2>8, <3>1, CoalesceWell
  <2>10. Sound(g, U) /\ g.block = v.block
    <3>1. c \in DOMAIN v.block /\ v.block[c].free
      BY <2>9 DEF Coalesced
    <3>2. Sound(g, V \ {c}) /\ SameBlocks(g, v)
      BY <2>3, <2>6, <2>8, <2>9, <3>1, IndexWell
    <3>3. V \ {c} = U
      BY <2>4, <2>6
    <3> QED
      BY <3>2, <3>3 DEF SameBlocks
  <2>11. InUse(v) = InUse(h) /\ \A x \in InUse(h) \ {b} : v.block[x].size = h.block[x].size
    <3>1. InUse(w) = InUse(h)
      BY <2>5 DEF InUse
    <3> QED
      BY <2>5, <2>9, <3>1 DEF InUse, UsersStay, Coalesced
  <2>12. MergedBut(g, b)
    <3> SUFFICES ASSUME NEW x, Mergeable(v, x), x # b PROVE End(v, x) = b
      BY <2>10 DEF MergedBut, Mergeable, End
    <3>1. x # c /\ Mergeable(w, x) /\ x \in DOMAIN v.block
      BY <2>9 DEF Coalesced, Mergeable
    <3>2. End(v, x) = End(w, x)
      BY <2>9, <3>1 DEF Coalesced
    <3> QED
      BY <2>4, <3>1, <3>2
  <2>13. b \in DOMAIN v.block /\ v.block[b].free = h.block[b].free /\ v.block[b].size = n
    <3>1. b # c /\ b <= c /\ b \in DOMAIN w.block
      BY <2>4, <2>5
    <3> QED
      BY <2>5, <2>9, <3>1 DEF Coalesced
  <2> QED
    BY <2>10, <2>11, <2>12, <2>13 DEF InUse, SplitAt
<1> QED
  BY <1>1, <1>2

(* A block is taken: what remains of it is marked as in use.               *)
LEMMA TakenWell ==
  ASSUME NEW h, NEW b, b \in DOMAIN h.block, Sound(h, {b}), h.block[b].free, MergedBut(h, b),
         NEW n \in Nat \ {0}, n <= h.block[b].size, NEW g, g = Taken(h, b, n)
  PROVE  /\ Whole(g) /\ InUse(g) = InUse(h) \union {b} /\ b \notin InUse(h)
         /\ n <= g.block[b].size /\ \A c \in InUse(h) : g.block[c].size = h.block[c].size
<1>1. PICK U : U = {b}
  OBVIOUS
<1>2. PICK v : v = Split(h, b, n)
  OBVIOUS
<1>3. /\ Sound(v, U) /\ MergedBut(v, b)
      /\ b \in DOMAIN v.block /\ v.block[b].free = h.block[b].free /\ n <= v.block[b].size
      /\ InUse(v) = InUse(h) /\ \A x \in InUse(h) \ {b} : v.block[x].size = h.block[x].size
  <2>1. /\ b \in DOMAIN h.block /\ Sound(h, U) /\ U \subseteq {b}
        /\ (~ h.block[b].free \/ b \in U) /\ MergedBut(h, b)
        /\ n \in Nat \ {0} /\ n <= h.block[b].size
    BY <1>1
  <2>2. Sound(v, U) /\ SplitAt(v, h, b, n)
    BY <1>2, <2>1, SplitWell
  <2> QED
    BY <2>2 DEF SplitAt
<1>4. PICK x : x = FALSE
  OBVIOUS
<1>5. Sound(g, U \union {b}) /\ Remarked(g, v, b, x)
  <2>1. /\ b \in DOMAIN v.block /\ Sound(v, U) /\ b \in U /\ x \in BOOLEAN /\ g = WithMark(v, b, x)
    BY <1>1, <1>2, <1>3, <1>4 DEF Taken, WithMark
  <2> QED
    BY <2>1, Marked
<1>6. b \in DOMAIN g.block /\ ~ g.block[b].free
  BY <1>3, <1>4, <1>5 DEF Remarked
<1>7. Sound(g, {})
  <2>1. PICK V : V = U \union {b}
    OBVIOUS
  <2>2. Sound(g, V \ {b})
    BY <1>5, <1>6, <2>1, UsedUnlisted
  <2>3. V \ {b} = {}
    BY <1>1, <2>1
  <2> QED
    BY <2>2, <2>3
<1>8. ASSUME NEW y PROVE ~ Mergeable(g, y)
  <2> SUFFICES ASSUME Mergeable(g, y) PROVE FALSE
    OBVIOUS
  <2>1. /\ y \in DOMAIN g.block /\ g.block[y].free /\ g.block[y].next \in DOMAIN g.block
        /\ g.block[g.block[y].next].free /\ g.block[y].next = End(g, y) /\ y # b
        /\ g.block[y].next # b /\ g.block[y].next # Nil
    BY <1>6, <1>7, MergeableChain DEF Mergeable
  <2>2. /\ Mergeable(v, y) /\ End(v, y) = End(g, y)
    BY <1>5, <2>1 DEF Remarked, Mergeable
  <2> QED
    BY <1>3, <2>1, <2>2 DEF MergedBut
<1>9. InUse(g) = InUse(v) \union {b} /\ b \notin InUse(h)
  BY <1>3, <1>4, <1>5 DEF Remarked, InUse
<1>10. n <= g.block[b].size /\ \A c \in InUse(h) : g.block[c].size = h.block[c].size
  BY <1>3, <1>5, <1>9 DEF Remarked, InUse
<1> QED
  BY <1>3, <1>7, <1>8, <1>9, <1>10 DEF Whole

-----------------------------------------------------------------------------
(* A new mapping                                                           *)

(* append_chunk, field by field.                                           *)
AppendedAs(g, h, b) ==
  /\ DOMAIN g.block = DOMAIN h.block \union {b}
  /\ \A x \in DOMAIN h.block :
       /\ g.block[x].size = h.block[x].size /\ g.block[x].free = h.block[x].free
       /\ g.block[x].next = IF x = h.tail THEN b ELSE h.block[x].next
       /\ g.block[x].previous = h.block[x].previous
  /\ g.block[b].size = Chunk - 3 /\ g.block[b].free
  /\ g.block[b].next = Nil /\ g.block[b].previous = h.tail
  /\ g.tail = b /\ g.regions = h.regions \union {b} /\ g.bins = h.bins

(* append_chunk changes the new block and the one before it.               *)
LEMMA AppendedEffect ==
  ASSUME NEW h, Typed(h), Chained(h), NEW b \in Units, b \notin DOMAIN h.block, Chunk > 3,
         NEW g, g = Appended(h, b)
  PROVE  Typed(g) /\ AppendedAs(g, h, b)
<1>1. Chunk \in Nat /\ b \in Int /\ Chunk - 3 \in Nat \ {0} /\ h.tail \in Int
  BY AllocatorAssumption DEF Units, Typed
<1>2. PICK r : r = [size |-> Chunk - Header, free |-> TRUE, next |-> Nil, previous |-> h.tail]
  OBVIOUS
<1>3. r \in BlockRecords /\ r.size = Chunk - 3 /\ r.free /\ r.next = Nil /\ r.previous = h.tail
  BY <1>1, <1>2 DEF BlockRecords, Header, Nil
<1>4. PICK f : f = IF h.tail = Nil THEN h.block ELSE [h.block EXCEPT ![h.tail].next = b]
  OBVIOUS
<1>5. /\ f \in [DOMAIN h.block -> BlockRecords]
      /\ \A x \in DOMAIN h.block :
           /\ f[x].size = h.block[x].size /\ f[x].free = h.block[x].free
           /\ f[x].next = (IF x = h.tail THEN b ELSE h.block[x].next)
           /\ f[x].previous = h.block[x].previous
  <2>1. Nil \notin DOMAIN h.block /\ h.block \in [DOMAIN h.block -> BlockRecords]
    BY DEF Typed, Units, Nil
  <2>2. CASE h.tail = Nil
    BY <1>4, <2>1, <2>2
  <2>3. CASE h.tail # Nil
    <3>1. h.tail \in DOMAIN h.block
      BY <2>3 DEF Chained
    <3>2. PICK old, t : old = h.block[t] /\ t = h.tail
      OBVIOUS
    <3>3. PICK y : y = [old EXCEPT !.next = b]
      OBVIOUS
    <3>4. y \in BlockRecords /\ y.size = old.size /\ y.free = old.free /\ y.next = b
          /\ y.previous = old.previous
      <4>1. old \in BlockRecords
        BY <2>1, <3>1, <3>2
      <4> QED
        BY <1>1, <3>3, <4>1 DEF BlockRecords
    <3>5. f = [h.block EXCEPT ![t] = y]
      <4>1. f = [h.block EXCEPT ![t] = [h.block[t] EXCEPT !.next = b]]
        BY <1>4, <2>3, <3>2
      <4> QED
        BY <3>2, <3>3, <4>1
    <3> QED
      BY <2>1, <3>1, <3>2, <3>4, <3>5
  <2> QED
    BY <2>2, <2>3
<1>6. PICK d : d = Adding(f, b, r)
  OBVIOUS
<1>7. g = [h EXCEPT !.block = d, !.tail = b, !.regions = h.regions \union {b}]
  BY <1>2, <1>4, <1>6 DEF Appended
<1>8. d \in [DOMAIN d -> BlockRecords] /\ DOMAIN d = DOMAIN h.block \union {b} /\ DOMAIN d \subseteq Units
      /\ d[b] = r /\ \A x \in DOMAIN h.block : d[x] = f[x]
  BY <1>3, <1>5, <1>6 DEF Adding, Typed
<1>9. /\ g.block = d /\ g.tail = b /\ g.regions = h.regions \union {b} /\ g.bins = h.bins /\ Typed(g)
  <2>1. PICK s : s = h.regions \union {b}
    OBVIOUS
  <2>2. s \in SUBSET Int
    BY <1>1, <2>1 DEF Typed
  <2>3. g = [h EXCEPT !.block = d, !.tail = b, !.regions = s]
    BY <1>7, <2>1
  <2>4. g.block = d /\ g.tail = b /\ g.regions = s /\ g.bins = h.bins
    BY <2>3 DEF Typed
  <2>5. g \in [block : [DOMAIN d -> BlockRecords], tail : Int,
                regions : SUBSET Int, bins : [Lists -> Seq(Int)]]
    BY <1>1, <1>8, <2>2, <2>3 DEF Typed
  <2> QED
    BY <1>8, <2>1, <2>4, <2>5 DEF Typed
<1>10. AppendedAs(g, h, b)
  BY <1>3, <1>5, <1>8, <1>9 DEF AppendedAs
<1> QED
  BY <1>9, <1>10

(* A place for a mapping is apart from the mappings.                       *)
LEMMA MappingsApart ==
  ASSUME NEW h, Tiled(h), NEW k \in 0 .. Places - 1, NEW b, b = Chunk * k, b \notin h.regions
  PROVE  /\ b \in Nat /\ b + Chunk <= Top /\ Top \in Nat /\ Chunk \in Nat
         /\ \A r \in h.regions : r \in Nat /\ (r + Chunk <= b \/ b + Chunk <= r)
<1>1. Chunk \in Nat /\ Places \in Nat /\ k \in Nat /\ k < Places /\ Top \in Nat
  BY AllocatorAssumption DEF Top
<1>2. b \in Nat /\ b + Chunk <= Top
  BY <1>1, Multiples DEF Top
<1>3. ASSUME NEW r \in h.regions PROVE r \in Nat /\ (r + Chunk <= b \/ b + Chunk <= r)
  <2>1. PICK j \in 0 .. Places - 1 : r = Chunk * j
    BY DEF Tiled
  <2>2. j \in Nat /\ r \in Nat /\ (j < k \/ k < j)
    BY <1>1, <2>1
  <2> QED
    BY <1>1, <2>1, <2>2, Multiples
<1> QED
  BY <1>1, <1>2, <1>3

(* A heap with a new mapping, whose one block is in no list yet.           *)
LEMMA AppendedWell ==
  ASSUME NEW h, Whole(h), NEW k \in 0 .. Places - 1, NEW b, b = Chunk * k, b \notin h.regions,
         Chunk > 3, NEW g, g = Appended(h, b)
  PROVE  /\ Sound(g, {b}) /\ b \in DOMAIN g.block /\ g.block[b].free /\ MergedBut(g, b)
         /\ g.block[b].size = Chunk - 3
         /\ InUse(g) = InUse(h) /\ \A x \in InUse(h) : g.block[x].size = h.block[x].size
<1>1. Typed(h) /\ Chained(h) /\ Tiled(h) /\ Listed(h, {}) /\ \A x : ~ Mergeable(h, x)
  BY DEF Whole, Sound
<1>2. /\ b \in Nat /\ b + Chunk <= Top /\ Top \in Nat /\ Chunk \in Nat
      /\ \A r \in h.regions : r \in Nat /\ (r + Chunk <= b \/ b + Chunk <= r)
  BY <1>1, MappingsApart
<1>3. ASSUME NEW x \in DOMAIN h.block
      PROVE  /\ x \in Nat /\ End(h, x) \in Nat /\ x < End(h, x) /\ End(h, x) <= Top
             /\ End(h, x) <= b \/ b + Chunk <= x
  <2>1. x \in Nat /\ End(h, x) \in Nat /\ x < End(h, x) /\ End(h, x) <= Top
    BY <1>1, SizeOf
  <2>2. ASSUME NEW u \in x .. End(h, x) - 1 PROVE u < b \/ b + Chunk <= u
    <3>1. PICK r \in h.regions : r <= u /\ u < r + Chunk
      BY <1>1 DEF Tiled
    <3> QED
      BY <1>2, <2>1, <3>1
  <2>3. x < b \/ b + Chunk <= x
    BY <2>1, <2>2
  <2>4. x < b => End(h, x) <= b
    <3>1. b \in x .. End(h, x) - 1 => b < b \/ b + Chunk <= b
      BY <2>2
    <3> QED
      BY <1>2, <2>1, <3>1
  <2> QED
    BY <2>1, <2>3, <2>4
<1>4. b \in Units /\ b \notin DOMAIN h.block
  <2>1. b \notin DOMAIN h.block
    BY <1>2, <1>3
  <2> QED
    BY <1>2, <2>1 DEF Units, Top
<1>5. Typed(g) /\ AppendedAs(g, h, b)
  BY <1>1, <1>4, AppendedEffect
<1>6. DOMAIN g.block = DOMAIN h.block \union {b} /\ g.regions = h.regions \union {b}
  BY <1>5 DEF AppendedAs
<1>7. Chained(g)
  <2>1. /\ Nil \notin DOMAIN h.block /\ b # Nil
        /\ \A x \in DOMAIN h.block :
             /\ \/ h.block[x].next = Nil
                \/ /\ h.block[x].next \in DOMAIN h.block
                   /\ h.block[h.block[x].next].previous = x
             /\ \/ h.block[x].previous = Nil
                \/ /\ h.block[x].previous \in DOMAIN h.block
                   /\ h.block[h.block[x].previous].next = x
             /\ h.block[x].next = Nil <=> x = h.tail
        /\ h.tail \in DOMAIN h.block \union {Nil}
        /\ h.tail # Nil => \E x \in DOMAIN h.block : h.block[x].previous = Nil
        /\ h.tail = Nil => DOMAIN h.block = {}
        /\ \A x, y \in DOMAIN h.block : h.block[x].previous = Nil /\ h.block[y].previous = Nil => x = y
    BY <1>1, <1>4 DEF Chained, Typed, Units, Nil
  <2>2. /\ \A x \in DOMAIN h.block :
             /\ g.block[x].next = IF x = h.tail THEN b ELSE h.block[x].next
             /\ g.block[x].previous = h.block[x].previous
        /\ g.block[b].next = Nil /\ g.block[b].previous = h.tail /\ g.tail = b
    BY <1>5 DEF AppendedAs
  <2>3. ASSUME NEW x \in DOMAIN g.block
        PROVE  /\ \/ g.block[x].next = Nil
                  \/ /\ g.block[x].next \in DOMAIN g.block
                     /\ g.block[g.block[x].next].previous = x
               /\ \/ g.block[x].previous = Nil
                  \/ /\ g.block[x].previous \in DOMAIN g.block
                     /\ g.block[g.block[x].previous].next = x
               /\ g.block[x].next = Nil <=> x = g.tail
    <3>1. CASE x = b
      BY <1>4, <1>6, <2>1, <2>2, <3>1
    <3>2. CASE x = h.tail /\ x # b
      BY <1>4, <1>6, <2>1, <2>2, <3>2
    <3>3. CASE x # b /\ x # h.tail
      BY <1>4, <1>6, <2>1, <2>2, <3>3
    <3> QED
      BY <3>1, <3>2, <3>3
  <2>4. \E x \in DOMAIN g.block : g.block[x].previous = Nil
    BY <1>6, <2>1, <2>2
  <2>5. \A x, y \in DOMAIN g.block : g.block[x].previous = Nil /\ g.block[y].previous = Nil => x = y
    BY <1>6, <2>1, <2>2
  <2> QED
    BY <1>6, <2>1, <2>2, <2>3, <2>4, <2>5 DEF Chained
<1>8. End(g, b) = b + Chunk /\ \A x \in DOMAIN h.block : End(g, x) = End(h, x)
  BY <1>2, <1>5 DEF AppendedAs, End, Payload, Header
<1>9. Tiled(g)
  <2>1. \A x \in DOMAIN g.block : End(g, x) <= Top
    BY <1>2, <1>3, <1>6, <1>8
  <2>2. ASSUME NEW x \in DOMAIN g.block, NEW y \in DOMAIN g.block, x < y PROVE End(g, x) <= y
    <3>1. \A u, v \in DOMAIN h.block : u < v => End(h, u) <= v
      BY <1>1 DEF Tiled
    <3>2. CASE x = b
      BY <1>2, <1>3, <1>6, <1>8, <2>2, <3>2
    <3>3. CASE y = b
      BY <1>2, <1>3, <1>6, <1>8, <2>2, <3>3
    <3>4. CASE x # b /\ y # b
      BY <1>6, <1>8, <2>2, <3>1, <3>4
    <3> QED
      BY <3>2, <3>3, <3>4
  <2>3. ASSUME NEW x \in DOMAIN g.block, NEW u \in x .. End(g, x) - 1
        PROVE  \E r \in g.regions : r <= u /\ u < r + Chunk
    <3>1. CASE x = b
      BY <1>2, <1>6, <1>8, <3>1
    <3>2. CASE x # b
      <4>1. x \in DOMAIN h.block /\ u \in x .. End(h, x) - 1
        BY <1>6, <1>8, <3>2
      <4>2. \E r \in h.regions : r <= u /\ u < r + Chunk
        BY <1>1, <4>1 DEF Tiled
      <4> QED
        BY <1>6, <4>2
    <3> QED
      BY <3>1, <3>2
  <2>4. ASSUME NEW r \in g.regions, NEW u \in r .. r + Chunk - 1
        PROVE  \E x \in DOMAIN g.block : x <= u /\ u < End(g, x)
    <3>1. CASE r = b
      BY <1>2, <1>6, <1>8, <3>1
    <3>2. CASE r # b
      BY <1>1, <1>6, <1>8, <3>2 DEF Tiled
    <3> QED
      BY <3>1, <3>2
  <2>5. \A r \in g.regions : \E j \in 0 .. Places - 1 : r = Chunk * j
    BY <1>1, <1>6 DEF Tiled
  <2> QED
    BY <2>1, <2>2, <2>3, <2>4, <2>5 DEF Tiled
<1>10. Listed(g, {b})
  <2> SUFFICES ASSUME NEW l \in Lists
               PROVE  /\ IsInjective(g.bins[l])
                      /\ \A x \in Int : Among(x, g.bins[l]) <=>
                           x \in DOMAIN g.block \ {b} /\ g.block[x].free /\ Bin(g.block[x].size) = l
    BY DEF Listed
  <2>1. /\ IsInjective(g.bins[l])
        /\ \A x \in Int : Among(x, g.bins[l]) <=>
             x \in DOMAIN h.block /\ h.block[x].free /\ Bin(h.block[x].size) = l
    BY <1>1, <1>5 DEF Listed, AppendedAs
  <2>2. DOMAIN g.block \ {b} = DOMAIN h.block
    BY <1>4, <1>6
  <2>3. \A x \in DOMAIN h.block :
           g.block[x].free = h.block[x].free /\ g.block[x].size = h.block[x].size
    BY <1>5 DEF AppendedAs
  <2> QED
    BY <2>1, <2>2, <2>3
<1>11. Sound(g, {b})
  BY <1>5, <1>7, <1>9, <1>10 DEF Sound
<1>12. MergedBut(g, b)
  <2> SUFFICES ASSUME NEW x, Mergeable(g, x), x # b, End(g, x) # b PROVE FALSE
    BY DEF MergedBut
  <2>1. /\ x \in DOMAIN g.block /\ g.block[x].free /\ g.block[x].next \in DOMAIN g.block
        /\ g.block[g.block[x].next].free /\ g.block[x].next = End(g, x) /\ g.block[x].next # Nil
    BY <1>11, MergeableChain DEF Mergeable
  <2>2. /\ x \in DOMAIN h.block /\ h.block[x].free /\ h.block[x].next = End(h, x)
        /\ h.block[x].next \in DOMAIN h.block /\ h.block[x].next # Nil
        /\ h.block[h.block[x].next].free
    BY <1>5, <1>6, <1>8, <2>1 DEF AppendedAs
  <2> QED
    BY <1>1, <2>2 DEF Mergeable
<1>13. InUse(g) = InUse(h) /\ \A x \in InUse(h) : g.block[x].size = h.block[x].size
  BY <1>4, <1>5, <1>6 DEF AppendedAs, InUse
<1>14. g.block[b].size = Chunk - 3 /\ g.block[b].free
  BY <1>5 DEF AppendedAs
<1> QED
  BY <1>6, <1>11, <1>12, <1>13, <1>14

-----------------------------------------------------------------------------
(* An allocation                                                           *)

(* A place in the lists comes before all the others.                       *)
LEMMA FirstPlace ==
  ASSUME NEW F, F # {}, F \subseteq Nat \X Nat
  PROVE  \E f \in F : \A g \in F : f[1] < g[1] \/ (f[1] = g[1] /\ f[2] <= g[2])
<1> DEFINE K == {f[1] : f \in F}
<1>1. PICK k \in K : \A l \in K : k <= l
  <2>1. K \subseteq Nat /\ K # {}
    OBVIOUS
  <2> HIDE DEF K
  <2> QED
    BY <2>1, LeastNumber
<1> DEFINE I == {f[2] : f \in {g \in F : g[1] = k}}
<1>2. PICK i \in I : \A j \in I : i <= j
  <2>1. I \subseteq Nat /\ I # {}
    BY <1>1
  <2> HIDE DEF I
  <2> QED
    BY <2>1, LeastNumber
<1>3. PICK f \in F : f[1] = k /\ f[2] = i
  BY <1>2
<1>4. ASSUME NEW g \in F PROVE f[1] < g[1] \/ (f[1] = g[1] /\ f[2] <= g[2])
  <2>1. g[1] \in K /\ g[1] \in Nat /\ f[1] \in Nat /\ k <= g[1]
    BY <1>1
  <2>2. g[1] = k => g[2] \in I
    OBVIOUS
  <2> QED
    BY <1>2, <1>3, <2>1, <2>2
<1> QED
  BY <1>4

(* What an allocation of n units leaves: one more block in use.            *)
AllocatedAt(g, h, b, n) ==
  /\ Whole(g) /\ InUse(g) = InUse(h) \union {b} /\ b \notin InUse(h)
  /\ n <= g.block[b].size /\ \A c \in InUse(h) : g.block[c].size = h.block[c].size

(* malloc_unlocked: the block comes from a list or from a new mapping.     *)
LEMMA AllocationsWell ==
  ASSUME NEW h, Whole(h), NEW n \in Nat \ {0}, n + Header <= Chunk, NEW a \in Allocations(h, n)
  PROVE  AllocatedAt(a[2], h, a[1], n)
<1>1. Typed(h) /\ Tiled(h) /\ Sound(h, {}) /\ Listed(h, {}) /\ \A x : ~ Mergeable(h, x)
  BY DEF Whole, Sound
<1> DEFINE fits == Fits(h, n)
<1>2. CASE fits # {}
  <2> DEFINE best == CHOOSE f \in fits : \A g \in fits : f[1] < g[1] \/ (f[1] = g[1] /\ f[2] <= g[2])
             b == h.bins[best[1]][best[2]]
  <2>1. a = <<b, Taken(Unindex(h, b), b, n)>>
    BY <1>2 DEF Allocations
  <2>2. fits \subseteq Nat \X Nat
        /\ \A f \in fits : /\ f[1] \in Lists /\ f[2] \in DOMAIN h.bins[f[1]]
                           /\ h.block[h.bins[f[1]][f[2]]].size >= n
    <3>1. DOMAIN h.bins = Lists /\ \A k \in Lists : k \in Nat /\ DOMAIN h.bins[k] \subseteq Nat
      <4>1. DOMAIN h.bins = Lists /\ \A k \in Lists : h.bins[k] \in Seq(Int)
        BY <1>1 DEF Typed
      <4>2. \A k \in Lists : k \in Nat
        BY DEF Lists
      <4>3. \A s \in Seq(Int) : DOMAIN s \subseteq Nat
        OBVIOUS
      <4> QED
        BY <4>1, <4>2, <4>3
    <3> QED
      BY <3>1 DEF Fits
  <2>3. best \in fits
    <3>1. \E f \in fits : \A g \in fits : f[1] < g[1] \/ (f[1] = g[1] /\ f[2] <= g[2])
      <4> HIDE DEF fits
      <4> QED
        BY <1>2, <2>2, FirstPlace
    <3> HIDE DEF fits
    <3> QED
      BY <3>1
  <2> HIDE DEF best
  <2>4. best[1] \in Lists /\ Among(b, h.bins[best[1]]) /\ h.block[b].size >= n /\ b \in Int
    <3>1. h.bins[best[1]] \in Seq(Int)
      BY <1>1, <2>2, <2>3 DEF Typed
    <3>2. best[2] \in DOMAIN h.bins[best[1]]
      BY <2>2, <2>3
    <3>3. b \in Int
      BY <3>1, <3>2
    <3> QED
      BY <2>2, <2>3, <3>3 DEF Among
  <2>5. b \in DOMAIN h.block /\ h.block[b].free
    BY <1>1, <2>4 DEF Listed
  <2>6. PICK c : c = b
    OBVIOUS
  <2> HIDE DEF b
  <2>7. PICK v : v = Unindex(h, c)
    OBVIOUS
  <2>8. Sound(v, {c}) /\ v.block = h.block
    <3>1. PICK U : U = {}
      OBVIOUS
    <3>2. Sound(h, U) /\ c \in DOMAIN h.block /\ c \notin U /\ h.block[c].free
      BY <1>1, <2>5, <2>6, <3>1
    <3>3. Sound(v, U \union {c}) /\ SameBlocks(v, h)
      BY <2>7, <3>2, UnindexWell
    <3>4. U \union {c} = {c}
      BY <3>1
    <3> QED
      BY <3>3, <3>4 DEF SameBlocks
  <2>9. MergedBut(v, c)
    BY <1>1, <2>8 DEF MergedBut, Mergeable, End
  <2>10. PICK g : g = Taken(v, c, n)
    OBVIOUS
  <2>11. /\ c \in DOMAIN v.block /\ Sound(v, {c}) /\ v.block[c].free /\ MergedBut(v, c)
         /\ n \in Nat \ {0} /\ n <= v.block[c].size
    <3>1. h.block[c].size \in Nat
      BY <1>1, <2>5, <2>6, SizeOf
    <3> QED
      BY <2>4, <2>5, <2>6, <2>8, <2>9, <3>1
  <2>12. AllocatedAt(g, v, c, n)
    BY <2>10, <2>11, TakenWell DEF AllocatedAt
  <2>13. InUse(v) = InUse(h)
    BY <2>8 DEF InUse
  <2>14. AllocatedAt(g, h, c, n)
    BY <2>8, <2>12, <2>13 DEF AllocatedAt
  <2>15. a[1] = c /\ a[2] = g
    BY <2>1, <2>6, <2>7, <2>10
  <2> QED
    BY <2>14, <2>15
<1>3. CASE fits = {}
  <2>1. PICK b \in {Chunk * k : k \in IF Cardinality(h.regions) < MaxRegions
                                     THEN 0 .. Places - 1 ELSE {}} \ h.regions :
              a = <<b, Taken(Appended(h, b), b, n)>>
    BY <1>3 DEF Allocations
  <2>10. PICK k \in 0 .. Places - 1 : b = Chunk * k /\ b \notin h.regions
    BY <2>1
  <2>2. Chunk > 3 /\ Chunk \in Nat
    BY AllocatorAssumption DEF Header
  <2>3. PICK v : v = Appended(h, b)
    OBVIOUS
  <2>4. /\ Sound(v, {b}) /\ b \in DOMAIN v.block /\ v.block[b].free /\ MergedBut(v, b)
        /\ v.block[b].size = Chunk - 3
        /\ InUse(v) = InUse(h) /\ \A x \in InUse(h) : v.block[x].size = h.block[x].size
    BY <2>2, <2>3, <2>10, AppendedWell
  <2>5. n <= v.block[b].size
    BY <2>2, <2>4 DEF Header
  <2>6. PICK g : g = Taken(v, b, n)
    OBVIOUS
  <2>7. AllocatedAt(g, v, b, n)
    BY <2>4, <2>5, <2>6, TakenWell DEF AllocatedAt
  <2>8. AllocatedAt(g, h, b, n)
    BY <2>4, <2>7 DEF AllocatedAt
  <2>9. a[1] = b /\ a[2] = g
    BY <2>1, <2>3, <2>6
  <2> QED
    BY <2>8, <2>9
<1> QED
  BY <1>2, <1>3

-----------------------------------------------------------------------------
(* Memory                                                                  *)

(* No unit is in two blocks.                                               *)
LEMMA OneBlock ==
  ASSUME NEW h, NEW U, Sound(h, U), NEW b \in DOMAIN h.block, NEW c \in DOMAIN h.block,
         NEW u \in Int, b <= u, u < End(h, b), c <= u, u < End(h, c)
  PROVE  b = c
<1>1. /\ b \in Nat /\ c \in Nat /\ End(h, b) \in Nat /\ End(h, c) \in Nat
  BY SizeOf DEF Sound
<1>2. (b < c => End(h, b) <= c) /\ (c < b => End(h, c) <= b)
  BY DEF Sound, Tiled
<1> QED
  BY <1>1, <1>2

(* The units of a block.                                                   *)
LEMMA UserSize ==
  ASSUME NEW h, NEW U, Sound(h, U), NEW b \in DOMAIN h.block
  PROVE  /\ b \in Nat /\ Payload(b) = b + 3 /\ h.block[b].size \in Nat \ {0}
         /\ End(h, b) = b + 3 + h.block[b].size /\ End(h, b) <= Top /\ Top \in Nat
         /\ \A u \in Int : b <= u /\ u < End(h, b) => u \in Units
<1>1. /\ b \in Nat /\ h.block[b].size \in Nat \ {0} /\ Top \in Nat
      /\ End(h, b) = b + 3 + h.block[b].size /\ End(h, b) <= Top
  BY SizeOf DEF Sound
<1>2. ASSUME NEW u \in Int, b <= u, u < End(h, b) PROVE u \in Units
  BY <1>1, <1>2 DEF Units, Top
<1> QED
  BY <1>1, <1>2 DEF Payload, Header

(* The words after a call: the magic numbers are in their places, and what *)
(* stands in a block in use before the pointer into it is as it was.       *)
LEMMA WordsWell ==
  ASSUME MagicAt(memory, heap), NEW g, Sound(g, {}), NEW l, NEW own, Assigned(g, l, own),
         NEW m, m = Words(g, l)
  PROVE  /\ MagicAt(m, g)
         /\ \A p \in DOMAIN l : \A u \in Payload(own[p]) .. p - 1 : m[u] = memory[u]
<1> DEFINE headed == {b + 2 : b \in DOMAIN g.block \ DOMAIN heap.block}
           linked == {Payload(b) : b \in {c \in DOMAIN g.block : g.block[c].free}}
           filled == UNION {p .. p + l[p] - 1 : p \in DOMAIN l}
<1>1. m = [u \in Units |-> CASE u \in headed -> BlockMagic
                             [] u \in linked \union filled -> Other
                             [] OTHER -> memory[u]]
  BY DEF Words
<1>2. ASSUME NEW u \in Units, u \notin linked \union filled
      PROVE  m[u] = IF u \in headed THEN BlockMagic ELSE memory[u]
  <2> HIDE DEF headed, linked, filled
  <2> QED
    BY <1>1, <1>2
<1>3. ASSUME NEW u \in headed
      PROVE  \E b \in DOMAIN g.block : u = b + 2 /\ u \in Int /\ b <= u /\ u < End(g, b)
  <2>1. PICK b \in DOMAIN g.block : u = b + 2
    OBVIOUS
  <2> QED
    BY <2>1, UserSize
<1>4. ASSUME NEW u \in linked
      PROVE  \E b \in DOMAIN g.block : /\ u = b + 3 /\ u \in Int /\ b <= u /\ u < End(g, b)
                                       /\ g.block[b].free
  <2>1. PICK b \in DOMAIN g.block : u = Payload(b) /\ g.block[b].free
    OBVIOUS
  <2> QED
    BY <2>1, UserSize
<1>5. ASSUME NEW u \in filled
      PROVE  \E p \in DOMAIN l : /\ p <= u /\ u \in Int /\ own[p] \in DOMAIN g.block
                                 /\ own[p] + 3 <= u /\ u < End(g, own[p])
  <2>1. PICK p \in DOMAIN l : u \in p .. p + l[p] - 1
    OBVIOUS
  <2>2. /\ p \in Int /\ l[p] \in Nat /\ own[p] \in DOMAIN g.block
        /\ Payload(own[p]) <= p /\ p + l[p] <= End(g, own[p])
    BY DEF Assigned, InUse
  <2>3. own[p] \in Nat /\ Payload(own[p]) = own[p] + 3 /\ End(g, own[p]) \in Int
    BY <2>2, UserSize
  <2> QED
    BY <2>1, <2>2, <2>3
<1>6. m \in [Units -> Int]
  <2>1. memory \in [Units -> Int] /\ BlockMagic \in Int /\ Other \in Int
    BY DEF MagicAt, BlockMagic, Other
  <2> HIDE DEF headed, linked, filled
  <2>2. ASSUME NEW u \in Units PROVE m[u] \in Int
    <3>1. memory[u] \in Int
      BY <2>1
    <3>2. \/ u \in headed /\ m[u] = BlockMagic
          \/ u \in linked \union filled /\ m[u] = Other
          \/ m[u] = memory[u]
      BY <1>1
    <3> QED
      BY <2>1, <3>1, <3>2
  <2> QED
    BY <1>1, <2>2
<1> HIDE DEF linked, filled
<1>7. ASSUME NEW c \in DOMAIN g.block PROVE m[c + 2] = BlockMagic
  <2>1. c \in Nat /\ c <= c + 2 /\ c + 2 < End(g, c) /\ c + 2 \in Units /\ c + 2 \in Int
    BY UserSize
  <2>2. c + 2 \notin linked
    BY <1>4, <2>1, OneBlock
  <2>3. c + 2 \notin filled
    <3> SUFFICES ASSUME c + 2 \in filled PROVE FALSE
      OBVIOUS
    <3>1. PICK p \in DOMAIN l : /\ own[p] \in DOMAIN g.block /\ own[p] + 3 <= c + 2
                                /\ c + 2 < End(g, own[p])
      BY <1>5
    <3>2. own[p] \in Nat
      BY <3>1, UserSize
    <3>3. own[p] = c
      BY <2>1, <3>1, <3>2, OneBlock
    <3> QED
      BY <2>1, <3>1, <3>3
  <2>4. CASE c \in DOMAIN heap.block
    <3>1. memory[c + 2] = BlockMagic
      BY <2>4 DEF MagicAt
    <3> HIDE DEF headed
    <3> QED
      BY <1>2, <2>1, <2>2, <2>3, <3>1
  <2>5. CASE c \notin DOMAIN heap.block
    <3>1. c + 2 \in headed
      BY <2>5
    <3> HIDE DEF headed
    <3> QED
      BY <1>2, <2>1, <2>2, <2>3, <3>1
  <2> QED
    BY <2>4, <2>5
<1> HIDE DEF headed
<1>8. ASSUME NEW p \in DOMAIN l, NEW u \in Payload(own[p]) .. p - 1 PROVE m[u] = memory[u]
  <2> DEFINE b == own[p]
  <2>1. /\ b \in DOMAIN g.block /\ ~ g.block[b].free /\ p \in Int /\ l[p] \in Nat \ {0}
        /\ Payload(b) <= p /\ p + l[p] <= End(g, b)
    BY DEF Assigned, InUse
  <2>2. /\ b \in Nat /\ Payload(b) = b + 3 /\ End(g, b) \in Int
        /\ \A v \in Int : b <= v /\ v < End(g, b) => v \in Units
    BY <2>1, UserSize
  <2> HIDE DEF b
  <2>3. u \in Int /\ b + 3 <= u /\ b <= u /\ u < End(g, b) /\ u \in Units /\ u < p
    BY <2>1, <2>2 DEF b
  <2>4. u \notin headed
    <3> SUFFICES ASSUME u \in headed PROVE FALSE
      OBVIOUS
    <3>1. PICK c \in DOMAIN g.block : u = c + 2 /\ c <= u /\ u < End(g, c)
      BY <1>3
    <3>2. c = b
      BY <2>1, <2>3, <3>1, OneBlock
    <3> QED
      BY <2>2, <2>3, <3>1, <3>2
  <2>5. u \notin linked
    <3> SUFFICES ASSUME u \in linked PROVE FALSE
      OBVIOUS
    <3>1. PICK c \in DOMAIN g.block : c <= u /\ u < End(g, c) /\ g.block[c].free
      BY <1>4
    <3>2. c = b
      BY <2>1, <2>3, <3>1, OneBlock
    <3> QED
      BY <2>1, <3>1, <3>2
  <2>6. u \notin filled
    <3> SUFFICES ASSUME u \in filled PROVE FALSE
      OBVIOUS
    <3>1. PICK q \in DOMAIN l : /\ q <= u /\ own[q] \in DOMAIN g.block /\ own[q] + 3 <= u
                                /\ u < End(g, own[q])
      BY <1>5
    <3>2. own[q] \in Nat /\ own[q] <= u
      <4>1. own[q] \in Nat
        BY <3>1, UserSize
      <4> QED
        BY <2>3, <3>1, <4>1
    <3>3. own[q] = b
      BY <2>1, <2>3, <3>1, <3>2, OneBlock
    <3>4. q = p
      BY <3>3 DEF Assigned, b
    <3> QED
      BY <2>1, <2>3, <3>1, <3>4
  <2> QED
    BY <1>2, <2>3, <2>4, <2>5, <2>6
<1> QED
  BY <1>6, <1>7, <1>8 DEF MagicAt

(* Both ways to a block lead to it.                                        *)
LEMMA LabelLeads ==
  ASSUME NEW h, NEW U, Sound(h, U), NEW m, MagicAt(m, h), NEW b \in DOMAIN h.block, NEW p \in Int,
         Labelled(m, p, b)
  PROVE  BlockAt(m, p) = b /\ (p = Payload(b) <=> m[p - 1] = BlockMagic)
<1>1. b \in Nat /\ Payload(b) = b + 3
  BY UserSize
<1>2. CASE p = Payload(b)
  <2>1. p - 1 = b + 2 /\ p - 3 = b
    BY <1>1, <1>2
  <2>2. m[p - 1] = BlockMagic
    BY <2>1 DEF MagicAt
  <2> QED
    BY <1>2, <2>1, <2>2 DEF BlockAt, Header
<1>3. CASE p # Payload(b)
  <2>1. m[p - 2] = b + 3 /\ m[p - 1] # BlockMagic
    BY <1>1, <1>3 DEF Labelled
  <2> QED
    BY <1>1, <1>3, <2>1 DEF BlockAt, Header
<1> QED
  BY <1>2, <1>3

(* Any way to share out the pointers that the labels bear out is the one.  *)
LEMMA SharedOut ==
  ASSUME NEW h, NEW m, NEW l, NEW own, Whole(h), MagicAt(m, h), Assigned(h, l, own),
         \A p \in DOMAIN l : Labelled(m, p, own[p])
  PROVE  Fine(h, m, l)
<1>1. \A p \in DOMAIN l : p \in Int /\ own[p] \in DOMAIN h.block
  BY DEF Assigned, InUse
<1>2. \A p \in DOMAIN l : BlockAt(m, p) = own[p]
  BY <1>1, LabelLeads DEF Whole
<1>3. own = [p \in DOMAIN l |-> BlockAt(m, p)]
  BY <1>2 DEF Assigned
<1> QED
  BY <1>2, <1>3 DEF Fine

(* A call that gives blocks to pointers and fills their memory.            *)
LEMMA CallWell ==
  ASSUME MagicAt(memory, heap), NEW g, NEW l, NEW own, Whole(g), Assigned(g, l, own),
         \A p \in DOMAIN l : Labelled(memory, p, own[p]) \/ p = Payload(own[p])
  PROVE  Fine(g, Words(g, l), l)
<1>1. PICK m : m = Words(g, l)
  OBVIOUS
<1>2. /\ MagicAt(m, g) /\ Sound(g, {})
      /\ \A p \in DOMAIN l : \A u \in Payload(own[p]) .. p - 1 : m[u] = memory[u]
  BY <1>1, WordsWell DEF Whole
<1>3. ASSUME NEW p \in DOMAIN l PROVE Labelled(m, p, own[p])
  <2>1. p \in Int /\ own[p] \in DOMAIN g.block
    BY DEF Assigned, InUse
  <2>2. own[p] \in Nat /\ Payload(own[p]) = own[p] + 3
    BY <1>2, <2>1, UserSize
  <2>3. CASE p = Payload(own[p])
    BY <2>3 DEF Labelled
  <2>4. CASE p # Payload(own[p])
    <3>1. /\ Payload(own[p]) + 2 <= p /\ memory[p - 2] = Payload(own[p])
          /\ memory[p - 1] # BlockMagic
      BY <2>4 DEF Labelled, AlignedHeader
    <3>2. p - 2 \in Payload(own[p]) .. p - 1 /\ p - 1 \in Payload(own[p]) .. p - 1
      BY <2>1, <2>2, <3>1
    <3>3. m[p - 2] = memory[p - 2] /\ m[p - 1] = memory[p - 1]
      BY <1>2, <3>2
    <3> QED
      BY <3>1, <3>3 DEF Labelled, AlignedHeader
  <2> QED
    BY <2>3, <2>4
<1> QED
  BY <1>1, <1>2, <1>3, SharedOut

(* A call that also writes an aligned_header before a pointer.             *)
LEMMA AlignedCallWell ==
  ASSUME MagicAt(memory, heap), NEW g, NEW l, NEW own, Whole(g), Assigned(g, l, own),
         NEW q \in DOMAIN l, Payload(own[q]) + AlignedHeader <= q,
         \A p \in DOMAIN l \ {q} : Labelled(memory, p, own[p])
  PROVE  Fine(g, WithAligned(Words(g, l), q, own[q]), l)
<1>1. PICK m, b : m = Words(g, l) /\ b = own[q]
  OBVIOUS
<1>2. /\ MagicAt(m, g) /\ Sound(g, {})
      /\ \A p \in DOMAIN l : \A u \in Payload(own[p]) .. p - 1 : m[u] = memory[u]
  BY <1>1, WordsWell DEF Whole
<1>3. /\ b \in DOMAIN g.block /\ q \in Int /\ l[q] \in Nat \ {0} /\ q + l[q] <= End(g, b)
      /\ b \in Nat /\ Payload(b) = b + 3 /\ b + 5 <= q /\ End(g, b) \in Int
      /\ \A u \in Int : b <= u /\ u < End(g, b) => u \in Units
  <2>1. b \in DOMAIN g.block /\ q \in Int /\ l[q] \in Nat \ {0} /\ q + l[q] <= End(g, b)
    BY <1>1 DEF Assigned, InUse
  <2>2. /\ b \in Nat /\ Payload(b) = b + 3 /\ End(g, b) \in Int
        /\ \A u \in Int : b <= u /\ u < End(g, b) => u \in Units
    BY <1>2, <2>1, UserSize
  <2>3. b + 5 <= q
    BY <1>1, <2>2 DEF AlignedHeader
  <2> QED
    BY <2>1, <2>2, <2>3
<1>4. /\ q - 2 \in Units /\ q - 1 \in Units /\ q - 2 # q - 1
      /\ b + 3 <= q - 2 /\ q - 1 < End(g, b)
  BY <1>3
<1>5. PICK w : w = WithAligned(m, q, b)
  OBVIOUS
<1>6. /\ w \in [Units -> Int] /\ w[q - 2] = Payload(b) /\ w[q - 1] # BlockMagic
      /\ \A u \in Units \ {q - 2, q - 1} : w[u] = m[u]
  <2>1. m \in [Units -> Int] /\ Payload(b) \in Int /\ Other \in Int /\ Other # BlockMagic
    BY <1>2, <1>3 DEF MagicAt, Other, BlockMagic
  <2>2. PICK x, y, z : x = q - 2 /\ y = q - 1 /\ z = Payload(b)
    OBVIOUS
  <2>3. w = [m EXCEPT ![x] = z, ![y] = Other]
    BY <1>5, <2>2 DEF WithAligned
  <2>4. x \in Units /\ y \in Units /\ x # y /\ z \in Int
    BY <1>4, <2>1, <2>2
  <2>5. /\ w \in [Units -> Int] /\ w[x] = z /\ w[y] = Other
        /\ \A u \in Units \ {x, y} : w[u] = m[u]
    BY <2>1, <2>3, <2>4
  <2> QED
    BY <2>1, <2>2, <2>5
<1>7. MagicAt(w, g)
  <2> SUFFICES ASSUME NEW c \in DOMAIN g.block PROVE w[c + 2] = BlockMagic
    BY <1>6 DEF MagicAt
  <2>1. c \in Nat /\ c + 2 \in Units /\ c + 2 \in Int /\ c <= c + 2 /\ c + 2 < End(g, c)
    BY <1>2, UserSize
  <2>2. c + 2 # q - 2 /\ c + 2 # q - 1
    <3>1. c # b => ~ (b <= c + 2 /\ c + 2 < End(g, b))
      BY <1>2, <1>3, <2>1, OneBlock
    <3> QED
      BY <1>3, <1>4, <2>1, <3>1
  <2>3. m[c + 2] = BlockMagic
    BY <1>2 DEF MagicAt
  <2> QED
    BY <1>6, <2>1, <2>2, <2>3
<1>8. ASSUME NEW p \in DOMAIN l PROVE Labelled(w, p, own[p])
  <2>1. CASE p = q
    BY <1>1, <1>3, <1>6, <2>1 DEF Labelled, AlignedHeader
  <2>2. CASE p # q /\ p = Payload(own[p])
    BY <2>2 DEF Labelled
  <2>3. CASE p # q /\ p # Payload(own[p])
    <3>1. /\ Payload(own[p]) + 2 <= p /\ memory[p - 2] = Payload(own[p])
          /\ memory[p - 1] # BlockMagic
      BY <2>3 DEF Labelled, AlignedHeader
    <3>2. /\ own[p] \in DOMAIN g.block /\ p \in Int /\ own[p] # b /\ l[p] \in Nat \ {0}
          /\ p + l[p] <= End(g, own[p])
      BY <1>1, <2>3 DEF Assigned, InUse
    <3>3. /\ own[p] \in Nat /\ Payload(own[p]) = own[p] + 3 /\ End(g, own[p]) \in Int
          /\ \A u \in Int : own[p] <= u /\ u < End(g, own[p]) => u \in Units
      BY <1>2, <3>2, UserSize
    <3>4. ASSUME NEW u \in {p - 2, p - 1} PROVE w[u] = memory[u]
      <4>1. /\ u \in Int /\ u \in Payload(own[p]) .. p - 1
            /\ own[p] <= u /\ u < End(g, own[p])
        BY <3>1, <3>2, <3>3
      <4>2. ~ (b <= u /\ u < End(g, b))
        BY <1>2, <1>3, <3>2, <4>1, OneBlock
      <4>3. u # q - 2 /\ u # q - 1
        BY <1>3, <1>4, <4>1, <4>2
      <4>4. m[u] = memory[u]
        BY <1>2, <4>1
      <4> QED
        BY <1>6, <3>3, <4>1, <4>3, <4>4
    <3>5. w[p - 2] = memory[p - 2] /\ w[p - 1] = memory[p - 1]
      BY <3>4
    <3> QED
      BY <3>1, <3>5 DEF Labelled, AlignedHeader
  <2> QED
    BY <2>1, <2>2, <2>3
<1> QED
  BY <1>1, <1>5, <1>7, <1>8, SharedOut

-----------------------------------------------------------------------------
(* Sharing out                                                             *)

(* A pointer into a block that was not in use is a new one.                *)
LEMMA OneMore ==
  ASSUME NEW h, NEW l, NEW own, Whole(h), Assigned(h, l, own),
         NEW g, NEW b, NEW s \in Nat \ {0}, AllocatedAt(g, h, b, s),
         NEW p \in Int, NEW n \in Nat \ {0}, Payload(b) <= p, p + n <= Payload(b) + s
  PROVE  p \notin DOMAIN l /\ Assigned(g, Adding(l, p, n), Adding(own, p, b))
<1>1. /\ Sound(g, {}) /\ Sound(h, {}) /\ b \in DOMAIN g.block /\ b \notin InUse(h)
      /\ InUse(g) = InUse(h) \union {b} /\ s <= g.block[b].size
      /\ \A c \in InUse(h) : /\ c \in DOMAIN h.block /\ c \in DOMAIN g.block
                             /\ g.block[c].size = h.block[c].size
  BY DEF AllocatedAt, Whole, InUse
<1>2. /\ l \in [DOMAIN l -> Nat \ {0}] /\ DOMAIN l \subseteq Int /\ own \in [DOMAIN l -> InUse(h)]
      /\ \A q \in DOMAIN l : Payload(own[q]) <= q /\ q + l[q] <= End(h, own[q])
      /\ \A q, r \in DOMAIN l : own[q] = own[r] => q = r
      /\ \A c \in InUse(h) : \E q \in DOMAIN l : own[q] = c
  BY DEF Assigned
<1>3. \A c \in InUse(h) : End(g, c) = End(h, c)
  BY <1>1 DEF End
<1>4. b \in Nat /\ b <= p /\ p < End(g, b) /\ p + n <= End(g, b) /\ End(g, b) \in Int
  <2>1. /\ b \in Nat /\ Payload(b) = b + 3 /\ g.block[b].size \in Nat
        /\ End(g, b) = b + 3 + g.block[b].size
    BY <1>1, UserSize
  <2> QED
    BY <1>1, <2>1
<1>5. p \notin DOMAIN l
  <2> SUFFICES ASSUME p \in DOMAIN l PROVE FALSE
    OBVIOUS
  <2>1. own[p] \in InUse(h) /\ own[p] # b /\ l[p] \in Nat \ {0}
    BY <1>1, <1>2
  <2>2. own[p] \in DOMAIN g.block /\ Payload(own[p]) <= p /\ p + l[p] <= End(g, own[p])
    BY <1>1, <1>2, <1>3, <2>1
  <2>3. own[p] \in Nat /\ Payload(own[p]) = own[p] + 3 /\ End(g, own[p]) \in Int
    BY <1>1, <2>2, UserSize
  <2>4. own[p] <= p /\ p < End(g, own[p])
    BY <2>1, <2>2, <2>3
  <2> QED
    BY <1>1, <1>4, <2>1, <2>2, <2>4, OneBlock
<1>6. PICK k, o : k = Adding(l, p, n) /\ o = Adding(own, p, b)
  OBVIOUS
<1>7. /\ DOMAIN k = DOMAIN l \union {p} /\ k \in [DOMAIN l \union {p} -> Nat \ {0}] /\ k[p] = n
      /\ \A q \in DOMAIN l : k[q] = l[q]
  BY <1>2, <1>5, <1>6 DEF Adding
<1>8. /\ DOMAIN o = DOMAIN l \union {p} /\ o \in [DOMAIN l \union {p} -> InUse(g)] /\ o[p] = b
      /\ \A q \in DOMAIN l : o[q] = own[q]
  BY <1>1, <1>2, <1>5, <1>6 DEF Adding
<1>9. \A q \in DOMAIN k : Payload(o[q]) <= q /\ q + k[q] <= End(g, o[q])
  BY <1>2, <1>3, <1>4, <1>7, <1>8
<1>10. \A q, r \in DOMAIN k : o[q] = o[r] => q = r
  BY <1>1, <1>2, <1>7, <1>8
<1>11. \A c \in InUse(g) : \E q \in DOMAIN k : o[q] = c
  BY <1>1, <1>2, <1>7, <1>8
<1>12. Assigned(g, k, o)
  BY <1>2, <1>7, <1>8, <1>9, <1>10, <1>11 DEF Assigned
<1> QED
  BY <1>5, <1>6, <1>12

(* A pointer that goes with its block.                                     *)
LEMMA OneLess ==
  ASSUME NEW h, NEW l, NEW own, Assigned(h, l, own), NEW p \in DOMAIN l,
         NEW g, InUse(g) = InUse(h) \ {own[p]},
         \A c \in InUse(h) \ {own[p]} : g.block[c].size = h.block[c].size
  PROVE  Assigned(g, Dropping(l, p), Dropping(own, p))
<1>1. /\ l \in [DOMAIN l -> Nat \ {0}] /\ DOMAIN l \subseteq Int /\ own \in [DOMAIN l -> InUse(h)]
      /\ \A q \in DOMAIN l : Payload(own[q]) <= q /\ q + l[q] <= End(h, own[q])
      /\ \A q, r \in DOMAIN l : own[q] = own[r] => q = r
      /\ \A c \in InUse(h) : \E q \in DOMAIN l : own[q] = c
  BY DEF Assigned
<1>2. PICK k, o : k = Dropping(l, p) /\ o = Dropping(own, p)
  OBVIOUS
<1>3. \A q \in DOMAIN l \ {p} : own[q] \in InUse(g) /\ End(g, own[q]) = End(h, own[q])
  BY <1>1 DEF End
<1>4. /\ DOMAIN k = DOMAIN l \ {p} /\ k \in [DOMAIN l \ {p} -> Nat \ {0}]
      /\ o \in [DOMAIN l \ {p} -> InUse(g)]
      /\ \A q \in DOMAIN l \ {p} : k[q] = l[q] /\ o[q] = own[q]
  BY <1>1, <1>2, <1>3 DEF Dropping
<1>5. \A c \in InUse(g) : \E q \in DOMAIN k : o[q] = c
  BY <1>1, <1>4
<1>6. Assigned(g, k, o)
  BY <1>1, <1>3, <1>4, <1>5 DEF Assigned
<1> QED
  BY <1>2, <1>6

(* A pointer that keeps its block, of another size.                        *)
LEMMA OneResized ==
  ASSUME NEW h, NEW l, NEW own, Assigned(h, l, own), NEW p \in DOMAIN l, NEW n \in Nat \ {0},
         NEW g, InUse(g) = InUse(h), p + n <= End(g, own[p]),
         \A c \in InUse(h) \ {own[p]} : g.block[c].size = h.block[c].size
  PROVE  Assigned(g, [l EXCEPT ![p] = n], own)
<1>1. /\ l \in [DOMAIN l -> Nat \ {0}] /\ DOMAIN l \subseteq Int /\ own \in [DOMAIN l -> InUse(h)]
      /\ \A q \in DOMAIN l : Payload(own[q]) <= q /\ q + l[q] <= End(h, own[q])
      /\ \A q, r \in DOMAIN l : own[q] = own[r] => q = r
      /\ \A c \in InUse(h) : \E q \in DOMAIN l : own[q] = c
  BY DEF Assigned
<1>2. \A q \in DOMAIN l \ {p} : End(g, own[q]) = End(h, own[q])
  BY <1>1 DEF End
<1>3. PICK k : k = [l EXCEPT ![p] = n]
  OBVIOUS
<1>4. /\ k \in [DOMAIN l -> Nat \ {0}] /\ DOMAIN k = DOMAIN l /\ k[p] = n
      /\ \A q \in DOMAIN l \ {p} : k[q] = l[q]
  BY <1>1, <1>3
<1>5. \A q \in DOMAIN k : Payload(own[q]) <= q /\ q + k[q] <= End(g, own[q])
  BY <1>1, <1>2, <1>4
<1>6. Assigned(g, k, own)
  BY <1>1, <1>4, <1>5 DEF Assigned
<1> QED
  BY <1>3, <1>6

(* An aligned address has its aligned_header before it and room behind.    *)
LEMMA AlignedRoom ==
  ASSUME NEW b \in Nat, NEW n \in Nat
  PROVE  /\ AlignedIn(b) \in Int /\ Payload(b) + AlignedHeader <= AlignedIn(b)
         /\ AlignedIn(b) + n <= Payload(b) + Padded(n)
<1>1. Alignment \in Nat \ {0}
  BY AllocatorAssumption
<1>2. ASSUME NEW x \in Nat
      PROVE  /\ (x \div Alignment) * Alignment \in Nat
             /\ (x \div Alignment) * Alignment <= x
             /\ x < (x \div Alignment) * Alignment + Alignment
  BY <1>1, SMTT(30)
<1>3. b + 4 + Alignment \in Nat /\ Payload(b) + AlignedHeader + Alignment - 1 = b + 4 + Alignment
  BY <1>1 DEF Payload, Header, AlignedHeader
<1>4. /\ AlignedIn(b) \in Nat /\ AlignedIn(b) <= b + 4 + Alignment
      /\ b + 4 + Alignment < AlignedIn(b) + Alignment
  BY <1>2, <1>3 DEF AlignedIn
<1> QED
  BY <1>1, <1>4 DEF Payload, Header, AlignedHeader, Padded

-----------------------------------------------------------------------------
(* The calls                                                               *)

Owners == [p \in DOMAIN live |-> BlockAt(memory, p)]

(* What the invariant says of a pointer that somebody holds.               *)
LEMMA Held ==
  ASSUME AllocatorInv
  PROVE  /\ Whole(heap) /\ Sound(heap, {}) /\ MagicAt(memory, heap) /\ Assigned(heap, live, Owners)
         /\ DOMAIN Owners = DOMAIN live
         /\ \A p \in DOMAIN live :
              /\ p \in Int /\ live[p] \in Nat \ {0} /\ Owners[p] = BlockOf(p)
              /\ BlockOf(p) \in InUse(heap) /\ BlockOf(p) \in DOMAIN heap.block
              /\ Labelled(memory, p, Owners[p])
              /\ IsBlock(p) <=> p = Payload(BlockOf(p))
              /\ IsBlock(p) \/ memory[p - 2] >= 0
<1>1. /\ Whole(heap) /\ Sound(heap, {}) /\ MagicAt(memory, heap) /\ Assigned(heap, live, Owners)
      /\ \A p \in DOMAIN live : Labelled(memory, p, BlockAt(memory, p))
  BY DEF AllocatorInv, Fine, Owners, Whole
<1>2. DOMAIN Owners = DOMAIN live /\ \A p \in DOMAIN live : Owners[p] = BlockAt(memory, p)
  BY DEF Owners
<1>3. ASSUME NEW p \in DOMAIN live
      PROVE  /\ p \in Int /\ live[p] \in Nat \ {0} /\ Owners[p] = BlockOf(p)
             /\ BlockOf(p) \in InUse(heap) /\ BlockOf(p) \in DOMAIN heap.block
             /\ Labelled(memory, p, Owners[p])
             /\ IsBlock(p) <=> p = Payload(BlockOf(p))
             /\ IsBlock(p) \/ memory[p - 2] >= 0
  <2>1. Owners[p] = BlockOf(p)
    BY <1>2 DEF BlockOf, BlockAt, IsBlock
  <2>2. /\ p \in Int /\ live[p] \in Nat \ {0}
        /\ BlockOf(p) \in InUse(heap) /\ BlockOf(p) \in DOMAIN heap.block
    BY <1>1, <2>1 DEF Assigned, InUse
  <2>3. Labelled(memory, p, BlockOf(p))
    BY <1>1, <1>2, <2>1
  <2>4. IsBlock(p) <=> p = Payload(BlockOf(p))
    BY <1>1, <2>2, <2>3, LabelLeads DEF IsBlock
  <2>5. BlockOf(p) \in Nat /\ Payload(BlockOf(p)) = BlockOf(p) + 3
    BY <1>1, <2>2, UserSize
  <2>6. IsBlock(p) \/ memory[p - 2] >= 0
    BY <2>3, <2>4, <2>5 DEF Labelled
  <2> QED
    BY <2>1, <2>2, <2>3, <2>4, <2>6
<1> QED
  BY <1>1, <1>2, <1>3

(* A mapping has room for every request.                                   *)
LEMMA SizesAsked ==
  ASSUME NEW n \in Requests
  PROVE  /\ n \in Nat \ {0} /\ Padded(n) \in Nat \ {0} /\ n <= Padded(n)
         /\ n + Header <= Chunk /\ Padded(n) + Header <= Chunk
BY AllocatorAssumption DEF Padded, Header, AlignedHeader

(* malloc keeps the invariant.                                             *)
LEMMA MallocWell ==
  ASSUME AllocatorInv, NEW n \in Requests, Malloc(n)
  PROVE  AllocatorInv'
<1>1. PICK a \in Allocations(heap, n) :
        /\ heap' = a[2] /\ live' = Adding(live, Payload(a[1]), n)
        /\ memory' = Words(heap', live')
  BY DEF Malloc
<1>2. PICK g, b, l, own : /\ g = a[2] /\ b = a[1] /\ l = Adding(live, Payload(b), n)
                          /\ own = Adding(Owners, Payload(b), b)
  OBVIOUS
<1>3. AllocatedAt(g, heap, b, n)
  BY <1>2, Held, SizesAsked, AllocationsWell
<1>4. b \in DOMAIN g.block /\ Whole(g) /\ Sound(g, {})
  BY <1>3 DEF AllocatedAt, InUse, Whole
<1>5. Payload(b) \in Int /\ n \in Nat \ {0}
  BY <1>4, UserSize, SizesAsked
<1>6. Payload(b) \notin DOMAIN live /\ Assigned(g, l, own)
  <2>1. PICK p : p = Payload(b)
    OBVIOUS
  <2>2. p \in Int /\ Payload(b) <= p /\ p + n <= Payload(b) + n
    BY <1>5, <2>1
  <2> QED
    BY <1>2, <1>3, <1>5, <2>1, <2>2, Held, OneMore
<1>7. ASSUME NEW q \in DOMAIN l PROVE Labelled(memory, q, own[q]) \/ q = Payload(own[q])
  BY <1>2, <1>6, Held DEF Adding
<1>8. Fine(g, Words(g, l), l)
  BY <1>4, <1>6, <1>7, Held, CallWell
<1> QED
  BY <1>1, <1>2, <1>8 DEF AllocatorInv

(* posix_memalign keeps the invariant.                                     *)
LEMMA MemalignWell ==
  ASSUME AllocatorInv, NEW n \in Requests, Memalign(n)
  PROVE  AllocatorInv'
<1>1. PICK a \in Allocations(heap, Padded(n)) :
        /\ heap' = a[2] /\ live' = Adding(live, AlignedIn(a[1]), n)
        /\ memory' = WithAligned(Words(heap', live'), AlignedIn(a[1]), a[1])
  BY DEF Memalign
<1>2. PICK g, b, p, l, own : /\ g = a[2] /\ b = a[1] /\ p = AlignedIn(b) /\ l = Adding(live, p, n)
                             /\ own = Adding(Owners, p, b)
  OBVIOUS
<1>3. AllocatedAt(g, heap, b, Padded(n))
  BY <1>2, Held, SizesAsked, AllocationsWell
<1>4. b \in DOMAIN g.block /\ Whole(g) /\ Sound(g, {}) /\ b \in Nat
  BY <1>3, UserSize DEF AllocatedAt, InUse, Whole
<1>5. /\ p \in Int /\ Payload(b) + AlignedHeader <= p /\ p + n <= Payload(b) + Padded(n)
      /\ Payload(b) <= p /\ n \in Nat \ {0} /\ Padded(n) \in Nat \ {0}
  <2>1. p \in Int /\ Payload(b) + AlignedHeader <= p /\ p + n <= Payload(b) + Padded(n)
    BY <1>2, <1>4, SizesAsked, AlignedRoom
  <2> QED
    BY <1>4, <2>1, SizesAsked DEF Payload, Header, AlignedHeader
<1>6. p \notin DOMAIN live /\ Assigned(g, l, own)
  BY <1>2, <1>3, <1>5, Held, OneMore
<1>7. /\ p \in DOMAIN l /\ own[p] = b
      /\ \A q \in DOMAIN l \ {p} : q \in DOMAIN live /\ own[q] = Owners[q]
  BY <1>2, <1>6, Held DEF Adding
<1>8. Fine(g, WithAligned(Words(g, l), p, own[p]), l)
  BY <1>4, <1>5, <1>6, <1>7, Held, AlignedCallWell
<1> QED
  BY <1>1, <1>2, <1>7, <1>8 DEF AllocatorInv

(* free keeps the invariant.                                               *)
LEMMA FreeWell ==
  ASSUME AllocatorInv, NEW p \in DOMAIN live, Free(p)
  PROVE  AllocatorInv'
<1>1. PICK g, l, own : /\ g = Freed(heap, BlockOf(p)) /\ l = Dropping(live, p)
                       /\ own = Dropping(Owners, p)
  OBVIOUS
<1>2. heap' = g /\ live' = l /\ memory' = Words(g, l)
  BY <1>1, Held DEF Free
<1>3. /\ Whole(g) /\ InUse(g) = InUse(heap) \ {Owners[p]}
      /\ \A c \in InUse(heap) \ {Owners[p]} : g.block[c].size = heap.block[c].size
  BY <1>1, Held, FreedWell
<1>4. Assigned(g, l, own)
  BY <1>1, <1>3, Held, OneLess
<1>5. \A q \in DOMAIN l : Labelled(memory, q, own[q]) \/ q = Payload(own[q])
  BY <1>1, Held DEF Dropping
<1>6. Fine(g, Words(g, l), l)
  BY <1>3, <1>4, <1>5, Held, CallWell
<1> QED
  BY <1>2, <1>6 DEF AllocatorInv

(* realloc in the block where the allocation is keeps the invariant.       *)
LEMMA ReallocInPlaceWell ==
  ASSUME AllocatorInv, NEW p \in DOMAIN live, NEW n \in Requests, ReallocInPlace(p, n)
  PROVE  AllocatorInv'
<1>1. PICK b, g, l : /\ b = BlockOf(p) /\ g = Split(heap, b, n) /\ l = [live EXCEPT ![p] = n]
  OBVIOUS
<1>2. /\ heap' = g /\ live' = l /\ memory' = Words(g, l) /\ IsBlock(p)
      /\ heap.block[b].size >= n
  BY <1>1 DEF ReallocInPlace
<1>3. /\ b \in DOMAIN heap.block /\ ~ heap.block[b].free /\ p = Payload(b) /\ b = Owners[p]
      /\ n \in Nat \ {0}
  BY <1>1, <1>2, Held, SizesAsked DEF InUse
<1>4. Sound(g, {}) /\ SplitAt(g, heap, b, n)
  <2>1. PICK U : U = {}
    OBVIOUS
  <2>2. n <= heap.block[b].size
    BY <1>2, <1>3, Held, UserSize
  <2>3. /\ b \in DOMAIN heap.block /\ Sound(heap, U) /\ U \subseteq {b}
        /\ (~ heap.block[b].free \/ b \in U) /\ MergedBut(heap, b)
    BY <1>3, <2>1, Held DEF MergedBut, Whole
  <2>4. Sound(g, U) /\ SplitAt(g, heap, b, n)
    BY <1>1, <1>3, <2>2, <2>3, SplitWell
  <2> QED
    BY <2>1, <2>4
<1>5. Whole(g)
  <2> SUFFICES ASSUME NEW x, Mergeable(g, x) PROVE FALSE
    BY <1>4 DEF Whole
  <2>1. ~ g.block[b].free /\ MergedBut(g, b)
    BY <1>3, <1>4 DEF SplitAt
  <2>2. /\ g.block[x].free /\ g.block[g.block[x].next].free
        /\ g.block[x].next = End(g, x)
    BY <1>4, MergeableChain
  <2> QED
    BY <2>1, <2>2 DEF MergedBut
<1>6. Assigned(g, l, Owners)
  <2>1. /\ InUse(g) = InUse(heap) /\ n <= g.block[b].size /\ b \in DOMAIN g.block
        /\ \A c \in InUse(heap) \ {Owners[p]} : g.block[c].size = heap.block[c].size
    BY <1>3, <1>4 DEF SplitAt
  <2>2. p + n <= End(g, Owners[p])
    BY <1>3, <1>4, <2>1, UserSize
  <2> QED
    BY <1>1, <1>3, <2>1, <2>2, Held, OneResized
<1>7. \A q \in DOMAIN l : Labelled(memory, q, Owners[q]) \/ q = Payload(Owners[q])
  BY <1>1, Held
<1>8. Fine(g, Words(g, l), l)
  BY <1>5, <1>6, <1>7, Held, CallWell
<1> QED
  BY <1>2, <1>8 DEF AllocatorInv

(* The old block of a pointer that moves, freed when the new one is taken. *)
LEMMA MovedWell ==
  ASSUME AllocatorInv, NEW p \in DOMAIN live, NEW g, NEW c, NEW s \in Nat \ {0},
         AllocatedAt(g, heap, c, s),
         NEW q \in Int, NEW n \in Nat \ {0}, Payload(c) <= q, q + n <= Payload(c) + s,
         NEW f, f = Freed(g, BlockOf(p)),
         NEW l, l = Adding(Dropping(live, p), q, n),
         NEW own, own = Dropping(Adding(Owners, q, c), p)
  PROVE  /\ Whole(f) /\ Assigned(f, l, own) /\ q \in DOMAIN l /\ own[q] = c
         /\ \A x \in DOMAIN l \ {q} : x \in DOMAIN live /\ own[x] = Owners[x]
<1>1. PICK k, o : k = Adding(live, q, n) /\ o = Adding(Owners, q, c)
  OBVIOUS
<1>2. q \notin DOMAIN live /\ Assigned(g, k, o)
  BY <1>1, Held, OneMore
<1>3. /\ DOMAIN k = DOMAIN live \union {q} /\ DOMAIN o = DOMAIN live \union {q}
      /\ k[q] = n /\ o[q] = c /\ p # q
      /\ \A x \in DOMAIN live : k[x] = live[x] /\ o[x] = Owners[x]
  BY <1>1, <1>2, Held DEF Adding
<1>4. Whole(g) /\ BlockOf(p) \in InUse(g) /\ o[p] = BlockOf(p)
  BY <1>3, Held DEF AllocatedAt
<1>5. /\ Whole(f) /\ InUse(f) = InUse(g) \ {o[p]}
      /\ \A x \in InUse(g) \ {o[p]} : f.block[x].size = g.block[x].size
  BY <1>4, FreedWell
<1>6. p \in DOMAIN k
  BY <1>3
<1>7. Assigned(f, Dropping(k, p), Dropping(o, p))
  BY <1>2, <1>5, <1>6, OneLess
<1>8. Dropping(k, p) = l
  <2>1. DOMAIN l = DOMAIN k \ {p}
    BY <1>3 DEF Adding, Dropping
  <2>2. \A x \in DOMAIN k \ {p} : l[x] = k[x]
    BY <1>3 DEF Adding, Dropping
  <2>3. l = [x \in DOMAIN k \ {p} |-> k[x]]
    <3>1. l = [x \in DOMAIN l |-> l[x]]
      BY DEF Adding
    <3> QED
      BY <2>1, <2>2, <3>1
  <2> QED
    BY <2>3 DEF Dropping
<1>9. q \in DOMAIN l /\ own[q] = c
      /\ \A x \in DOMAIN l \ {q} : x \in DOMAIN live /\ own[x] = Owners[x]
  BY <1>1, <1>3, <1>8 DEF Dropping
<1> QED
  BY <1>1, <1>5, <1>7, <1>8, <1>9

(* realloc that takes a new block keeps the invariant.                     *)
LEMMA ReallocMovesWell ==
  ASSUME AllocatorInv, NEW p \in DOMAIN live, NEW n \in Requests, ReallocMoves(p, n)
  PROVE  AllocatorInv'
<1>1. PICK a \in Allocations(heap, n) :
        /\ heap' = Freed(a[2], BlockOf(p))
        /\ live' = Adding(Dropping(live, p), Payload(a[1]), n)
        /\ memory' = Words(heap', live')
  BY DEF ReallocMoves
<1>2. PICK g, c, q : g = a[2] /\ c = a[1] /\ q = Payload(c)
  OBVIOUS
<1>3. PICK f, l, own : /\ f = Freed(g, BlockOf(p)) /\ l = Adding(Dropping(live, p), q, n)
                       /\ own = Dropping(Adding(Owners, q, c), p)
  OBVIOUS
<1>4. AllocatedAt(g, heap, c, n)
  BY <1>2, Held, SizesAsked, AllocationsWell
<1>5. q \in Int /\ Payload(c) <= q /\ q + n <= Payload(c) + n /\ n \in Nat \ {0}
  <2>1. c \in DOMAIN g.block /\ Sound(g, {})
    BY <1>4 DEF AllocatedAt, InUse, Whole
  <2> QED
    BY <1>2, <2>1, UserSize, SizesAsked
<1>6. /\ Whole(f) /\ Assigned(f, l, own) /\ q \in DOMAIN l /\ own[q] = c
      /\ \A x \in DOMAIN l \ {q} : x \in DOMAIN live /\ own[x] = Owners[x]
  BY <1>3, <1>4, <1>5, MovedWell
<1>7. \A x \in DOMAIN l : Labelled(memory, x, own[x]) \/ x = Payload(own[x])
  BY <1>2, <1>6, Held
<1>8. Fine(f, Words(f, l), l)
  BY <1>6, <1>7, Held, CallWell
<1> QED
  BY <1>1, <1>2, <1>3, <1>8 DEF AllocatorInv

(* realloc of an over-aligned allocation keeps the invariant.              *)
LEMMA ReallocMovesAlignedWell ==
  ASSUME AllocatorInv, NEW p \in DOMAIN live, NEW n \in Requests, ReallocMovesAligned(p, n)
  PROVE  AllocatorInv'
<1>1. PICK a \in Allocations(heap, Padded(n)) :
        /\ heap' = Freed(a[2], BlockOf(p))
        /\ live' = Adding(Dropping(live, p), AlignedIn(a[1]), n)
        /\ memory' = WithAligned(Words(heap', live'), AlignedIn(a[1]), a[1])
  BY DEF ReallocMovesAligned
<1>2. PICK g, c, q : g = a[2] /\ c = a[1] /\ q = AlignedIn(c)
  OBVIOUS
<1>3. PICK f, l, own : /\ f = Freed(g, BlockOf(p)) /\ l = Adding(Dropping(live, p), q, n)
                       /\ own = Dropping(Adding(Owners, q, c), p)
  OBVIOUS
<1>4. AllocatedAt(g, heap, c, Padded(n))
  BY <1>2, Held, SizesAsked, AllocationsWell
<1>5. /\ q \in Int /\ Payload(c) + AlignedHeader <= q /\ q + n <= Payload(c) + Padded(n)
      /\ Payload(c) <= q /\ n \in Nat \ {0} /\ Padded(n) \in Nat \ {0}
  <2>1. c \in Nat
    BY <1>4, UserSize DEF AllocatedAt, InUse, Whole
  <2>2. q \in Int /\ Payload(c) + AlignedHeader <= q /\ q + n <= Payload(c) + Padded(n)
    BY <1>2, <2>1, SizesAsked, AlignedRoom
  <2> QED
    BY <2>1, <2>2, SizesAsked DEF Payload, Header, AlignedHeader
<1>6. /\ Whole(f) /\ Assigned(f, l, own) /\ q \in DOMAIN l /\ own[q] = c
      /\ \A x \in DOMAIN l \ {q} : x \in DOMAIN live /\ own[x] = Owners[x]
  BY <1>3, <1>4, <1>5, MovedWell
<1>7. Fine(f, WithAligned(Words(f, l), q, own[q]), l)
  BY <1>5, <1>6, Held, AlignedCallWell
<1> QED
  BY <1>1, <1>2, <1>3, <1>6, <1>7 DEF AllocatorInv

-----------------------------------------------------------------------------
(* The theorems                                                            *)

(* The empty heap has the invariant.                                       *)
LEMMA HeapInitInv == HeapInit => AllocatorInv
<1> SUFFICES ASSUME HeapInit PROVE Fine(heap, memory, live)
  BY DEF AllocatorInv
<1>1. DOMAIN heap.block = {} /\ heap.tail = Nil /\ heap.regions = {} /\ InUse(heap) = {}
      /\ DOMAIN live = {} /\ heap.bins = [k \in Lists |-> <<>>]
  BY DEF HeapInit, Lists, Top, InUse
<1>2. Typed(heap)
  <2>1. heap = [block |-> heap.block, tail |-> heap.tail, regions |-> heap.regions, bins |-> heap.bins]
    BY DEF HeapInit
  <2>2. heap.block \in [DOMAIN heap.block -> BlockRecords]
    BY <1>1 DEF HeapInit
  <2>3. heap.bins \in [Lists -> Seq(Int)] /\ heap.tail \in Int /\ heap.regions \in SUBSET Int
    BY <1>1 DEF Nil
  <2> QED
    BY <1>1, <2>1, <2>2, <2>3 DEF Typed
<1>3. Chained(heap) /\ Tiled(heap)
  BY <1>1 DEF Chained, Tiled
<1>4. Listed(heap, {})
  BY <1>1 DEF Listed, Among, IsInjective
<1>5. Whole(heap)
  BY <1>1, <1>2, <1>3, <1>4 DEF Whole, Sound, Mergeable
<1>6. MagicAt(memory, heap)
  BY <1>1 DEF HeapInit, MagicAt, Other
<1>7. Assigned(heap, live, [p \in DOMAIN live |-> BlockAt(memory, p)])
  <2>1. live \in [DOMAIN live -> Nat \ {0}]
    BY <1>1 DEF HeapInit
  <2> QED
    BY <1>1, <2>1 DEF Assigned
<1> QED
  BY <1>1, <1>5, <1>6, <1>7 DEF Fine

(* Every call keeps it.                                                    *)
LEMMA HeapStepInv == AllocatorInv /\ [HeapNext]_heapVars => AllocatorInv'
<1> SUFFICES ASSUME AllocatorInv, [HeapNext]_heapVars PROVE AllocatorInv'
  OBVIOUS
<1>1. CASE UNCHANGED heapVars
  BY <1>1 DEF heapVars, AllocatorInv
<1>2. ASSUME NEW n \in Requests, Malloc(n) \/ Memalign(n) PROVE AllocatorInv'
  BY <1>2, MallocWell, MemalignWell
<1>3. ASSUME NEW p \in DOMAIN live, Free(p) PROVE AllocatorInv'
  BY <1>3, FreeWell
<1>4. ASSUME NEW p \in DOMAIN live, NEW n \in Requests,
             ReallocInPlace(p, n) \/ ReallocMoves(p, n) \/ ReallocMovesAligned(p, n)
      PROVE  AllocatorInv'
  BY <1>4, ReallocInPlaceWell, ReallocMovesWell, ReallocMovesAlignedWell
<1> QED
  BY <1>1, <1>2, <1>3, <1>4 DEF HeapNext

(* The chain of a sound heap has one head and one tail.                    *)
LEMMA ExactChain ==
  ASSUME AllocatorInv
  PROVE  ChainIsExact
<1> DEFINE heads == {b \in Blocks : heap.block[b].previous = Nil}
           ends == {heap.tail} \ {Nil}
<1>1. Typed(heap) /\ Chained(heap) /\ Tiled(heap)
  BY DEF AllocatorInv, Fine, Whole, Sound
<1>2. \A b \in Blocks : b # Nil
  BY <1>1, SizeOf DEF Blocks, Nil
<1>3. \A b \in Blocks : Follower(b) # Nil =>
        Follower(b) \in Blocks /\ heap.block[Follower(b)].previous = b
  BY <1>1 DEF Chained, Blocks, Follower
<1>4. {b \in Blocks : Follower(b) = Nil} = ends
  BY <1>1, <1>2 DEF Chained, Blocks, Follower
<1>5. CASE heap.tail = Nil
  <2>1. heads = {} /\ ends = {}
    BY <1>1, <1>5 DEF Chained, Blocks
  <2> QED
    BY <1>3, <1>4, <2>1 DEF ChainIsExact
<1>6. CASE heap.tail # Nil
  <2>1. PICK b \in Blocks : heap.block[b].previous = Nil
    BY <1>1, <1>6 DEF Chained, Blocks
  <2>2. heads = {b} /\ ends = {heap.tail}
    BY <1>1, <1>6, <2>1 DEF Chained, Blocks
  <2>3. Cardinality(heads) = Cardinality(ends)
    BY <2>2, FS_Singleton
  <2> QED
    BY <1>3, <1>4, <2>3 DEF ChainIsExact
<1> QED
  BY <1>5, <1>6

(* Every unit of a mapping lies in one block.                              *)
LEMMA FilledRegions ==
  ASSUME AllocatorInv
  PROVE  BlocksFillRegions
<1> SUFFICES ASSUME NEW r \in heap.regions, NEW u \in r .. r + Chunk - 1
             PROVE  Cardinality({b \in Blocks : b <= u /\ u < End(heap, b)}) = 1
  BY DEF BlocksFillRegions
<1>1. Sound(heap, {})
  BY DEF AllocatorInv, Fine, Whole
<1>2. PICK c \in Blocks : c <= u /\ u < End(heap, c)
  BY <1>1 DEF Sound, Tiled, Blocks
<1>3. u \in Int
  BY <1>1, AllocatorAssumption DEF Sound, Typed
<1>4. \A b \in Blocks : b <= u /\ u < End(heap, b) => b = c
  BY <1>1, <1>2, <1>3, OneBlock DEF Blocks
<1>5. {b \in Blocks : b <= u /\ u < End(heap, b)} = {c}
  BY <1>2, <1>4
<1> QED
  BY <1>5, FS_Singleton

(* The lists hold the free blocks, and no two of those lie side by side.   *)
LEMMA ExactBins ==
  ASSUME AllocatorInv
  PROVE  BinsAreExact /\ FreeBlocksAreMerged
<1>1. Sound(heap, {}) /\ \A b : ~ Mergeable(heap, b)
  BY DEF AllocatorInv, Fine, Whole
<1>2. DOMAIN heap.bins = Lists /\ Blocks \subseteq Int
  BY <1>1, SizeOf DEF Sound, Typed, Blocks
<1>3. ASSUME NEW k \in Lists
      PROVE  /\ ToSet(heap.bins[k]) = {b \in Blocks : heap.block[b].free /\ Bin(heap.block[b].size) = k}
             /\ IsInjective(heap.bins[k])
  <2>1. /\ IsInjective(heap.bins[k]) /\ heap.bins[k] \in Seq(Int)
        /\ \A b \in Int : Among(b, heap.bins[k]) <=>
             b \in Blocks /\ heap.block[b].free /\ Bin(heap.block[b].size) = k
    BY <1>1 DEF Sound, Listed, Typed, Blocks
  <2>2. \A b : b \in ToSet(heap.bins[k]) <=> Among(b, heap.bins[k])
    BY DEF ToSet, Among
  <2>3. \A b : Among(b, heap.bins[k]) => b \in Int
    BY <2>1 DEF Among
  <2> QED
    BY <1>2, <2>1, <2>2, <2>3
<1>4. FreeBlocksAreMerged
  BY <1>1 DEF FreeBlocksAreMerged, Mergeable, Blocks, Follower
<1> QED
  BY <1>2, <1>3, <1>4 DEF BinsAreExact

(* As many pointers are held as there are blocks in use.                   *)
LEMMA OwnBlocks ==
  ASSUME AllocatorInv
  PROVE  CallersHaveTheirOwn
<1>1. /\ Owners \in [DOMAIN live -> InUse(heap)]
      /\ \A p \in DOMAIN live :
           Payload(Owners[p]) <= p /\ p + live[p] <= End(heap, Owners[p])
      /\ \A p, q \in DOMAIN live : Owners[p] = Owners[q] => p = q
      /\ \A b \in InUse(heap) : \E p \in DOMAIN live : Owners[p] = b
  BY Held DEF Assigned
<1>2. \A p \in DOMAIN live : Owners[p] = BlockOf(p) /\ BlockOf(p) \in InUse(heap)
  BY Held
<1>3. \A p \in DOMAIN live :
        /\ BlockOf(p) \in Blocks /\ ~ heap.block[BlockOf(p)].free
        /\ Payload(BlockOf(p)) <= p /\ p + live[p] <= End(heap, BlockOf(p))
  BY <1>1, <1>2 DEF InUse, Blocks
<1>4. \A p, q \in DOMAIN live : BlockOf(p) = BlockOf(q) => p = q
  BY <1>1, <1>2
<1>5. Cardinality(InUse(heap)) = Cardinality(DOMAIN live)
  <2>1. IsFiniteSet(Units)
    <3>1. Chunk * Places - 1 \in Int
      BY AllocatorAssumption
    <3> QED
      BY <3>1, FS_Interval DEF Units
  <2>2. InUse(heap) \subseteq Units
    BY Held DEF InUse, Sound, Typed
  <2>3. IsFiniteSet(InUse(heap))
    BY <2>1, <2>2, FS_Subset
  <2>4. /\ Owners \in Injection(DOMAIN live, InUse(heap))
        /\ Owners \in Surjection(DOMAIN live, InUse(heap))
    BY <1>1 DEF Injection, Surjection, IsInjective
  <2> QED
    BY <2>3, <2>4, FS_Injection
<1>6. InUse(heap) = {b \in Blocks : ~ heap.block[b].free}
  BY DEF InUse, Blocks
<1> QED
  BY <1>3, <1>4, <1>5, <1>6 DEF CallersHaveTheirOwn

(* What the heap is after any sequence of calls of malloc, posix_memalign, *)
(* free and realloc: the inductive invariant.                              *)
THEOREM HeapIsFine == HeapSpec => []AllocatorInv
<1> QED
  BY HeapInitInv, HeapStepInv, PTL DEF HeapSpec

(* malloc.c: over any sequence of calls the chain, the lists and the       *)
(* mappings describe the same blocks, and coalesce_free_blocks leaves no   *)
(* two free blocks side by side.                                           *)
THEOREM HeapStaysWhole == HeapSpec => []HeapIsWhole
<1>1. AllocatorInv => HeapIsWhole
  BY ExactChain, FilledRegions, ExactBins DEF HeapIsWhole
<1> QED
  BY <1>1, HeapIsFine, PTL

(* malloc.c: every pointer a caller holds lies with what was asked for in  *)
(* a block in use of its own, which free finds again from the pointer, and *)
(* no block in use is lost.                                                *)
THEOREM CallersKeepTheirOwn == HeapSpec => []CallersHaveTheirOwn
<1> QED
  BY OwnBlocks, HeapIsFine, PTL
=============================================================================
