---------------------------- MODULE MallocProofs ----------------------------
(***************************************************************************)
(* The allocator of module Malloc keeps its heap sound and its clients'    *)
(* blocks apart, for every trace without the sizes that the code treats    *)
(* apart.                                                                  *)
(***************************************************************************)
EXTENDS Malloc, HeapProofs

----------------------------------------------------------------------------
(* Sizes. *)

\* The adjusted size has room for the payload and its tags.
LEMMA AsizeFacts ==
  ASSUME NEW size \in Nat, size > 0
  PROVE  /\ asize(size) \in Nat /\ asize(size) % 8 = 0 /\ asize(size) >= MinBlock
         /\ size + OVERHEAD <= asize(size)
<1> DEFINE n == (size + 15) \div 8
<1>1. n \in Nat /\ 8 * n <= size + 15 /\ size + 15 < 8 * n + 8
  OBVIOUS
<1> HIDE DEF n
<1>2. (8 * n) % 8 = 0
  <2>1. (8 * n + 0) % 8 = 0
    BY <1>1, DivisionIsUnique
  <2> QED
    BY <1>1, <2>1
<1>3. asize(size) = IF size <= 8 THEN 24 ELSE 8 * n
  BY DEF asize, MinBlock, n
<1> QED
  BY <1>1, <1>2, <1>3 DEF MinBlock, OVERHEAD

\* What malloc asks of extend_heap is a size that extend_heap can grant.
LEMMA ChunkFacts ==
  /\ CHUNKSIZE \in Nat /\ CHUNKSIZE % 8 = 0 /\ CHUNKSIZE >= MinBlock
  /\ \A a \in Nat : a % 8 = 0 /\ a >= MinBlock =>
       /\ Bigger(a, CHUNKSIZE) \in Nat /\ Bigger(a, CHUNKSIZE) % 8 = 0
       /\ Bigger(a, CHUNKSIZE) >= MinBlock /\ Bigger(a, CHUNKSIZE) >= a
BY DEF CHUNKSIZE, MinBlock, Bigger

----------------------------------------------------------------------------
(* mm_free *)

\* A client's block is given back, and no other changes.
Freed(M, R, p) ==
  /\ Sound(R) /\ R.brk = M.brk /\ R.max = M.max
  /\ Used(R) = Used(M) \ {p} /\ Keeps(M, R, Used(M) \ {p})

\* mm_free of a block in use, in a heap without marks, frees that block.
THEOREM FreeSound ==
  ASSUME NEW M, Sound(M), NEW p \in Used(M)
  PROVE  Freed(M, mm_free(M, p), p)
<1> DEFINE size == Size(M, p)
           hi   == NEXT_BLKP(M, p)
           no   == FALSE
           N    == Put(M, p, hi - p, no)
           F    == FreeBlocks(M)
           I    == {p}
<1>1. Calm(M) /\ Tiled(M) /\ Listed(M, F) /\ Separate(M) /\ IsHeap(M) /\ M.marks = {}
  BY DEF Sound, Calm
<1>2. p \in DOMAIN M.hdr /\ Block(M, p) /\ heap_listp < p /\ Alloc(M, p) /\ p \notin F
  BY <1>1, UsedFacts
<1>3. /\ p \in Nat /\ hi \in DOMAIN M.hdr /\ hi = p + size /\ size \in Nat
      /\ p < hi /\ hi \in Nat
      /\ \A q \in DOMAIN M.hdr : q \in Nat /\ (q <= p \/ hi <= q)
  BY <1>1, <1>2, NextFacts
<1>4. F \subseteq DOMAIN M.hdr /\ \A b \in F : b < p \/ b >= hi
  <2>1. F \subseteq DOMAIN M.hdr
    BY DEF FreeBlocks
  <2> QED
    BY <1>2, <1>3, <2>1
<1> HIDE DEF no, I
<1>5. no \in BOOLEAN
  BY DEF no
<1> HIDE DEF hi, F
<1>6. /\ Calm(N) /\ Refit(M, N, p, hi, {p}) /\ Within({p}, p, hi)
      /\ N.hdr[p] = [size |-> hi - p, alloc |-> no]
      /\ Listed(N, F) /\ N.brk = M.brk /\ N.max = M.max
  <2>1. Calm(M) /\ Listed(M, F) /\ p \in DOMAIN M.hdr /\ hi \in DOMAIN M.hdr
        /\ heap_listp < p /\ p < hi
    BY <1>1, <1>2, <1>3
  <2> HIDE DEF N
  <2> QED
    BY <1>4, <1>5, <2>1, FillOne DEF N
<1>7. mm_free(M, p) = coalesce(N, p).heap
  <2>1. Unmark(N, p) = N
    <3>1. IsHeap(N) /\ N.marks = {}
      BY <1>6 DEF Calm
    <3> HIDE DEF N
    <3> QED
      BY <3>1 DEF Unmark, IsHeap, Fields
  <2>2. hi - p = Size(M, p)
    BY <1>3
  <2>3. mm_free(M, p) = coalesce(Unmark(Put(M, p, Size(M, p), FALSE), p), p).heap
    <3> DEFINE gone == {p + 4095, p + 8191} \cap M.marks
    <3>1. gone = {}
      BY <1>1
    <3>2. mm_free(M, p) =
            IF gone # {}
            THEN [M EXCEPT !.marks = @ \ {IF p + 4095 \in gone THEN p + 4095 ELSE p + 8191}]
            ELSE IF p \notin DOMAIN M.hdr THEN [M EXCEPT !.state = "corrupt"]
            ELSE coalesce(Unmark(Put(M, p, Size(M, p), FALSE), p), p).heap
      BY DEF mm_free
    <3> DEFINE marked == [M EXCEPT !.marks =
                            @ \ {IF p + 4095 \in gone THEN p + 4095 ELSE p + 8191}]
               lost   == [M EXCEPT !.state = "corrupt"]
               joined == coalesce(Unmark(Put(M, p, Size(M, p), FALSE), p), p).heap
    <3>3. mm_free(M, p) = IF gone # {} THEN marked
                          ELSE IF p \notin DOMAIN M.hdr THEN lost ELSE joined
      BY <3>2
    <3> HIDE DEF gone, marked, lost, joined
    <3>4. mm_free(M, p) = joined
      BY <1>2, <3>1, <3>3
    <3> QED
      BY <3>4 DEF joined
  <2> QED
    BY <2>1, <2>2, <2>3 DEF N, no
<1> HIDE DEF N
<1>8. Refit(M, N, p, hi, I) /\ Within(I, p, hi) /\ \A q : q \in I <=> q = p
  BY <1>6 DEF I
<1>9. Tiled(N)
  BY <1>6 DEF Calm
<1>10. Size(N, p) = hi - p /\ ~Alloc(N, p) /\ NEXT_BLKP(N, p) = hi
  BY <1>3, <1>6, SizeOfTag DEF no, hi
<1>11. /\ FreeBlocks(N) = Outer(FreeBlocks(M), p, hi) \cup FreeOf(N, I)
       /\ Used(N) = Outer(Used(M), p, hi) \cup UsedOf(N, I)
       /\ Keeps(M, N, Outer(Used(M), p, hi))
  <2>1. /\ Tiled(M) /\ Tiled(N) /\ p \in DOMAIN M.hdr /\ hi \in DOMAIN M.hdr
        /\ heap_listp < p /\ p < hi
    BY <1>1, <1>2, <1>3, <1>9
  <2>2. Refit(M, N, p, hi, I) /\ Within(I, p, hi)
    BY <1>8
  <2> QED
    BY <2>1, <2>2, RefitBlocks
<1>12. FreeOf(N, I) = {p} /\ UsedOf(N, I) = {}
  BY <1>8, <1>10 DEF FreeOf, UsedOf
<1>13. Outer(FreeBlocks(M), p, hi) = F /\ Outer(Used(M), p, hi) = Used(M) \ {p}
  <2>1. Used(M) \subseteq DOMAIN M.hdr /\ FreeBlocks(M) \subseteq DOMAIN M.hdr
    BY DEF Used, FreeBlocks
  <2>2. Outer(FreeBlocks(M), p, hi) = F \ {p} /\ Outer(Used(M), p, hi) = Used(M) \ {p}
    BY <1>1, <1>2, <2>1, OuterOfBlock DEF hi, F
  <2> QED
    BY <1>2, <2>2
<1>14. FreeBlocks(N) \ {p} = F /\ p \in FreeBlocks(N) /\ Used(N) = Used(M) \ {p}
       /\ Keeps(M, N, Used(M) \ {p})
  BY <1>2, <1>11, <1>12, <1>13 DEF F
<1>15. Loose(N, p)
  <2>1. Block(N, p)
    BY <1>2, <1>6, <1>14 DEF Block, FreeBlocks
  <2>2. ASSUME NEW q \in F
        PROVE  NEXT_BLKP(N, q) = p \/ Alloc(N, NEXT_BLKP(N, q))
    <3>1. Alloc(M, NEXT_BLKP(M, q)) /\ Block(M, q)
      BY <1>1, FreeFacts DEF Separate, F
    <3>2. NEXT_BLKP(M, q) \in DOMAIN M.hdr
      BY <1>1, <3>1, NextFacts
    <3>3. q \in DOMAIN M.hdr /\ (q < p \/ q >= hi)
      BY <1>4
    <3>4. N.hdr[q] = M.hdr[q]
      BY <1>8, <3>3 DEF Refit
    <3>5. NEXT_BLKP(N, q) = NEXT_BLKP(M, q)
      BY <3>4, SameTile
    <3>6. CASE NEXT_BLKP(M, q) # p
      <4>1. NEXT_BLKP(M, q) < p \/ NEXT_BLKP(M, q) >= hi
        BY <1>3, <3>2, <3>6
      <4>2. N.hdr[NEXT_BLKP(M, q)] = M.hdr[NEXT_BLKP(M, q)]
        BY <1>8, <3>2, <4>1 DEF Refit
      <4> QED
        BY <3>1, <3>5, <4>2, SameTile
    <3> QED
      BY <3>5, <3>6
  <2>3. Listed(N, FreeBlocks(N) \ {p})
    BY <1>6, <1>14
  <2>4. \A q \in FreeBlocks(N) \ {p} : NEXT_BLKP(N, q) = p \/ Alloc(N, NEXT_BLKP(N, q))
    BY <1>14, <2>2
  <2> QED
    BY <1>6, <1>14, <2>1, <2>3, <2>4 DEF Loose
<1> DEFINE R == coalesce(N, p).heap
<1>16. /\ Sound(R) /\ R.brk = N.brk /\ R.max = N.max
       /\ Used(R) = Used(N) /\ Keeps(N, R, Used(N))
  BY <1>15, CoalesceSound
<1> HIDE DEF R
<1>17. Keeps(M, R, Used(M) \ {p})
  BY <1>14, <1>16 DEF Keeps
<1>18. Freed(M, R, p)
  BY <1>6, <1>14, <1>16, <1>17 DEF Freed
<1> QED
  BY <1>7, <1>18 DEF R

----------------------------------------------------------------------------
(* mm_malloc *)

\* The sizes that mm.c treats apart (mm.c:239, 259, 279, 287, 337)
Special == {16, 64, 112, 448, 4092, 4095, 8190}

\* No free block holds a bytes, tags included.
NoneHolds(M, a) == \A c \in FreeBlocks(M) : Size(M, c) < a

\* NULL is returned and nothing has changed.
Refused(M, r, a) ==
  r = Result(M, 0) /\ NoneHolds(M, a) /\ M.brk + Bigger(a, CHUNKSIZE) > M.max

\* A block is returned; the heap has grown only if none was large enough.
Served(M, r, a) ==
  /\ Serves(M, r.heap, r.ptr, a)
  /\ \/ r.heap.brk = M.brk
     \/ NoneHolds(M, a) /\ r.heap.brk = M.brk + Bigger(a, CHUNKSIZE)

\* The heap grows before the request is served.
LEMMA ServesGrown ==
  ASSUME NEW M, NEW r, NEW size, Grown(M, r, size),
         NEW R, NEW p, NEW a, Serves(r.heap, R, p, a)
  PROVE  Serves(M, R, p, a)
<1>1. Used(r.heap) = Used(M) /\ Keeps(M, r.heap, Used(M)) /\ r.heap.max = M.max
  BY DEF Grown
<1>2. Keeps(r.heap, R, Used(M))
  BY <1>1 DEF Serves
<1>3. Keeps(M, R, Used(M))
  BY <1>1, <1>2 DEF Keeps
<1> QED
  BY <1>1, <1>3 DEF Serves

(***************************************************************************)
(* malloc_fit (mm.c:325): a listed block, or else the heap is extended by  *)
(* what the request needs; NULL only when mem_max_addr stands against it.  *)
(***************************************************************************)
LEMMA MallocFitSound ==
  ASSUME NEW M, Sound(M), NEW size \in Nat, size > 0, size # 4092
  PROVE  LET r == malloc_fit(M, size)
         IN  Refused(M, r, asize(size)) \/ Served(M, r, asize(size))
<1> DEFINE a == asize(size)
           p == find_fit(M, a)
           n == Bigger(a, CHUNKSIZE)
           x == extend_heap(M, n \div 4)
           r == malloc_fit(M, size)
<1>1. r = IF p # 0 THEN Result(place(M, p, a), p)
          ELSE IF x.ptr = 0 THEN x
          ELSE Result(place(x.heap, x.ptr, a), x.ptr)
  BY DEF malloc_fit
<1>2. a \in Nat /\ a % 8 = 0 /\ a >= MinBlock
  BY AsizeFacts
<1>3. n \in Nat /\ n % 8 = 0 /\ n >= MinBlock /\ n >= a
  BY <1>2, ChunkFacts
<1> HIDE DEF a, n, r
<1>4. Listed(M, FreeBlocks(M))
  BY DEF Sound
<1>5. /\ p \in FreeBlocks(M) \cup {0}
      /\ p # 0 => a <= Size(M, p)
      /\ p = 0 => \A c \in FreeBlocks(M) : Size(M, c) < a
  BY <1>2, <1>4, FindFitFinds
<1> HIDE DEF p
<1>6. ASSUME p # 0
      PROVE  Served(M, r, a)
  <2> DEFINE R == place(M, p, a)
  <2>1. r.heap = R /\ r.ptr = p
    BY <1>1, <1>6 DEF Result
  <2>2. Serves(M, R, p, a) /\ R.brk = M.brk
    BY <1>2, <1>5, <1>6, PlaceSound
  <2> QED
    BY <2>1, <2>2 DEF Served
<1>7. ASSUME p = 0
      PROVE  Refused(M, r, a) \/ Served(M, r, a)
  <2>1. NoneHolds(M, a)
    BY <1>5, <1>7 DEF NoneHolds
  <2>2. IF M.brk + n > M.max THEN x = Result(M, 0) ELSE Grown(M, x, n)
    BY <1>3, ExtendSound
  <2> HIDE DEF x
  <2>3. CASE M.brk + n > M.max
    <3>1. r = Result(M, 0)
      BY <1>1, <1>7, <2>2, <2>3 DEF Result
    <3> QED
      BY <2>1, <2>3, <3>1 DEF Refused, n
  <2>4. CASE ~(M.brk + n > M.max)
    <3> DEFINE R == place(x.heap, x.ptr, a)
    <3>1. Grown(M, x, n)
      BY <2>2, <2>4
    <3>2. /\ Sound(x.heap) /\ x.ptr \in FreeBlocks(x.heap) /\ x.heap.brk = M.brk + n
          /\ Size(x.heap, x.ptr) >= n
      BY <3>1 DEF Grown
    <3>3. Block(x.heap, x.ptr) /\ Tiled(x.heap) /\ x.ptr # 0
      BY <3>2, FreeFacts DEF Sound, Calm
    <3>4. a <= Size(x.heap, x.ptr)
      BY <1>2, <1>3, <3>2, <3>3, NextFacts
    <3>5. Serves(x.heap, R, x.ptr, a) /\ R.brk = x.heap.brk
      BY <1>2, <3>2, <3>4, PlaceSound
    <3>6. Serves(M, R, x.ptr, a)
      BY <3>1, <3>5, ServesGrown
    <3>7. r.heap = R /\ r.ptr = x.ptr
      BY <1>1, <1>7, <3>3 DEF Result
    <3> QED
      BY <2>1, <3>2, <3>5, <3>6, <3>7 DEF Served, n
  <2> QED
    BY <2>3, <2>4
<1> QED
  BY <1>6, <1>7 DEF r, a

\* mm_malloc of a size that is not treated apart
THEOREM MallocSound ==
  ASSUME NEW M, Sound(M), NEW size \in Nat, size > 0, size \notin Special
  PROVE  LET r == mm_malloc(M, size)
         IN  Refused(M, r, asize(size)) \/ Served(M, r, asize(size))
<1>1. /\ size # 4095 /\ size # 8190 /\ size # 0 /\ size # 4092
      /\ size # 16 /\ size # 64 /\ size # 112 /\ size # 448
  BY DEF Special
<1>2. mm_malloc(M, size) = malloc_fit(M, size)
  BY <1>1 DEF mm_malloc
<1> QED
  BY <1>1, <1>2, MallocFitSound

----------------------------------------------------------------------------
(* mm_realloc *)

\* A client's block has a new size; no other has changed.
Resized(M, R, p, a) ==
  /\ Sound(R) /\ R.max = M.max
  /\ Used(R) = Used(M) /\ Keeps(M, R, Used(M) \ {p})
  /\ a <= Size(R, p) /\ Size(R, p) < a + MinBlock

\* Outside two blocks are all others.
LEMMA OuterOfTwo ==
  ASSUME NEW M, Tiled(M), NEW p, Block(M, p), Block(M, NEXT_BLKP(M, p)),
         NEW S, S \subseteq DOMAIN M.hdr
  PROVE  Outer(S, p, NEXT_BLKP(M, NEXT_BLKP(M, p))) = S \ {p, NEXT_BLKP(M, p)}
<1> DEFINE next == NEXT_BLKP(M, p)
           hi   == NEXT_BLKP(M, next)
<1>1. /\ p \in Nat /\ p < next /\ next \in Nat
      /\ \A q \in DOMAIN M.hdr : q \in Nat /\ (q <= p \/ next <= q)
  BY NextFacts
<1> HIDE DEF next
<1>2. /\ next < hi /\ hi \in Nat
      /\ \A q \in DOMAIN M.hdr : q <= next \/ hi <= q
  BY NextFacts DEF next
<1> HIDE DEF hi
<1>3. \A q \in S : q # p /\ q # next <=> q < p \/ q >= hi
  BY <1>1, <1>2
<1>4. \A q : q \in Outer(S, p, hi) <=> q \in S \ {p, next}
  BY <1>3 DEF Outer
<1>5. Outer(S, p, hi) = S \ {p, next}
  BY <1>4
<1> QED
  BY <1>5 DEF next, hi

\* What the region taken by a client's block leaves to the other clients
LEMMA GivesResized ==
  ASSUME NEW M, NEW N, SameTiles(M, N), NEW R, NEW p \in Used(M), NEW hi,
         Outer(Used(M), p, hi) = Used(M) \ {p},
         NEW a, NEW size, Gives(N, R, p, hi, size), a <= size, size < a + MinBlock
  PROVE  Resized(M, R, p, a) /\ R.brk = M.brk
<1>1. /\ Used(N) = Used(M) /\ N.brk = M.brk /\ N.max = M.max /\ N.hdr = M.hdr
  BY SameBlocks DEF SameTiles
<1>2. /\ Sound(R) /\ R.brk = M.brk /\ R.max = M.max /\ Size(R, p) = size
      /\ Used(R) = (Used(M) \ {p}) \cup {p} /\ Keeps(N, R, Used(M) \ {p})
  BY <1>1 DEF Gives
<1>3. Used(R) = Used(M)
  BY <1>2
<1>4. Keeps(M, R, Used(M) \ {p})
  BY <1>1, <1>2 DEF Keeps
<1> QED
  BY <1>2, <1>3, <1>4 DEF Resized

\* The block of a client with a free block behind it: both together are a
\* region that nothing has to be joined to.
LEMMA TwoFacts ==
  ASSUME NEW M, Sound(M), NEW p \in Used(M), NEXT_BLKP(M, p) \in FreeBlocks(M)
  PROVE  LET next == NEXT_BLKP(M, p)
             hi   == NEXT_BLKP(M, next)
         IN  /\ Room(M, p, hi) /\ hi - p = Size(M, p) + Size(M, next)
             /\ p \in Nat /\ hi \in Nat /\ next = p + Size(M, p) /\ next < hi
             /\ Size(M, p) \in Nat /\ Size(M, next) \in Nat
             /\ Outer(FreeBlocks(M), p, hi) = FreeBlocks(M) \ {next}
             /\ Outer(Used(M), p, hi) = Used(M) \ {p}
<1> DEFINE next == NEXT_BLKP(M, p)
           hi   == NEXT_BLKP(M, next)
<1>1. Tiled(M) /\ Separate(M)
  BY DEF Sound, Calm
<1>2. /\ p \in DOMAIN M.hdr /\ Block(M, p) /\ heap_listp < p /\ p \notin FreeBlocks(M)
      /\ Block(M, next) /\ Used(M) \subseteq DOMAIN M.hdr /\ FreeBlocks(M) \subseteq DOMAIN M.hdr
      /\ next \notin Used(M)
  BY <1>1, UsedFacts, FreeFacts DEF Used, FreeBlocks
<1>3. p \in Nat /\ next = p + Size(M, p) /\ p < next /\ next \in Nat /\ Size(M, p) \in Nat
  BY <1>1, <1>2, NextFacts
<1>4. /\ hi \in DOMAIN M.hdr /\ hi = next + Size(M, next) /\ next < hi /\ hi \in Nat
      /\ Size(M, next) \in Nat
  BY <1>1, <1>2, NextFacts
<1>5. /\ Outer(FreeBlocks(M), p, hi) = FreeBlocks(M) \ {p, next}
      /\ Outer(Used(M), p, hi) = Used(M) \ {p, next}
  BY <1>1, <1>2, OuterOfTwo
<1>6. Alloc(M, hi) /\ \A q \in FreeBlocks(M) : Alloc(M, NEXT_BLKP(M, q))
  BY <1>1 DEF Separate
<1> HIDE DEF hi, next
<1>7. Room(M, p, hi)
  <2>1. \A q \in Outer(FreeBlocks(M), p, hi) : Alloc(M, NEXT_BLKP(M, q))
    BY <1>5, <1>6
  <2> QED
    BY <1>2, <1>3, <1>4, <1>6, <2>1 DEF Room
<1> QED
  BY <1>2, <1>3, <1>4, <1>5, <1>7 DEF hi, next

\* absorb (mm.c:556): the block takes the free block behind it.
LEMMA AbsorbSound ==
  ASSUME NEW M, Sound(M), NEW p \in Used(M), NEXT_BLKP(M, p) \in FreeBlocks(M),
         NEW a \in Nat, a % 8 = 0, a >= MinBlock,
         a <= Size(M, p) + Size(M, NEXT_BLKP(M, p))
  PROVE  LET R == absorb(M, p, a)
         IN  Resized(M, R, p, a) /\ R.brk = M.brk
<1> DEFINE next == NEXT_BLKP(M, p)
           hi   == NEXT_BLKP(M, next)
           N    == remove_block(M, next)
           R    == absorb(M, p, a)
<1>1. /\ Room(M, p, hi) /\ hi - p = Size(M, p) + Size(M, next)
      /\ p \in Nat /\ hi \in Nat /\ next = p + Size(M, p) /\ next < hi
      /\ Size(M, p) \in Nat /\ Size(M, next) \in Nat
      /\ Outer(FreeBlocks(M), p, hi) = FreeBlocks(M) \ {next}
      /\ Outer(Used(M), p, hi) = Used(M) \ {p}
  BY TwoFacts
<1>2. Calm(M) /\ Listed(M, FreeBlocks(M))
  BY DEF Sound
<1> HIDE DEF hi, next
<1>3. Calm(N) /\ SameTiles(M, N) /\ Listed(N, FreeBlocks(M) \ {next})
  BY <1>2, RemoveCalm DEF next
<1>4. R = Taken(N, p, hi, a)
  <2>1. R = IF hi - p - a < MinBlock THEN Put(N, p, hi - p, TRUE)
            ELSE insert_block(Put(Put(N, p, a, TRUE), p + a, hi - p - a, FALSE), p + a)
    BY <1>1 DEF absorb, next
  <2> HIDE DEF N, R
  <2> QED
    BY <2>1 DEF Taken
<1> HIDE DEF N, R
<1>5. /\ FreeBlocks(N) = FreeBlocks(M)
      /\ DOMAIN N.hdr = DOMAIN M.hdr
      /\ \A q : NEXT_BLKP(N, q) = NEXT_BLKP(M, q) /\ Alloc(N, q) = Alloc(M, q)
  BY <1>3, SameBlocks
<1>6. Room(N, p, hi)
  BY <1>1, <1>5 DEF Room
<1>7. Listed(N, Outer(FreeBlocks(N), p, hi))
  BY <1>1, <1>3, <1>5
<1>8. a <= hi - p
  BY <1>1 DEF next
<1>9. PICK size \in Nat : Gives(N, R, p, hi, size) /\ a <= size /\ size < a + MinBlock
  BY <1>3, <1>4, <1>6, <1>7, <1>8, TakeFacts
<1>10. Resized(M, R, p, a) /\ R.brk = M.brk
  BY <1>1, <1>3, <1>9, GivesResized
<1> QED
  BY <1>10 DEF R

\* shrink (mm.c:507): what the block gives back joins a free block behind it.
LEMMA ShrinkSound ==
  ASSUME NEW M, Sound(M), NEW p \in Used(M),
         NEW a \in Nat, a % 8 = 0, a >= MinBlock, Size(M, p) >= a + MinBlock
  PROVE  LET R == shrink(M, p, a)
         IN  Resized(M, R, p, a) /\ R.brk = M.brk
<1> DEFINE next == NEXT_BLKP(M, p)
           F    == FreeBlocks(M)
           P    == Put(M, p, a, TRUE)
           R    == shrink(M, p, a)
           yes  == TRUE
<1>1. Calm(M) /\ Tiled(M) /\ Listed(M, F) /\ Separate(M)
  BY DEF Sound, Calm
<1>2. /\ p \in DOMAIN M.hdr /\ Block(M, p) /\ heap_listp < p /\ p \notin F
      /\ Used(M) \subseteq DOMAIN M.hdr /\ F \subseteq DOMAIN M.hdr
  BY <1>1, UsedFacts DEF Used, FreeBlocks
<1>3. /\ p \in Nat /\ next \in DOMAIN M.hdr /\ next = p + Size(M, p) /\ p < next
      /\ next \in Nat /\ Size(M, p) \in Nat
      /\ \A q \in DOMAIN M.hdr : q \in Nat /\ (q <= p \/ next <= q)
  BY <1>1, <1>2, NextFacts
<1>4. R = insert_block(IF Alloc(M, next) THEN Put(P, p + a, next - p - a, FALSE)
                       ELSE Put(remove_block(P, next), p + a,
                                Size(M, p) - a + Size(M, next), FALSE), p + a)
  <2>1. next - p - a = Size(M, p) - a
    BY <1>3
  <2> HIDE DEF next
  <2>2. R = insert_block(IF Alloc(M, next) THEN Put(P, p + a, Size(M, p) - a, FALSE)
                         ELSE Put(remove_block(P, next), p + a,
                                  Size(M, p) - a + Size(M, next), FALSE), p + a)
    BY Zenon DEF shrink, next
  <2> QED
    BY <2>1, <2>2
<1> HIDE DEF R, yes, next, F
<1>5. IsHeap(P) /\ P.marks = {} /\ Listed(P, F)
  <2>1. \A b \in F : b < p \/ b >= p + a
    BY <1>2, <1>3 DEF MinBlock
  <2>2. P = Put(M, p, a, yes)
    BY DEF yes
  <2> HIDE DEF P
  <2> QED
    BY <1>1, <1>2, <2>1, <2>2, PutKeepsLists
<1>6. SameTiles(Put(M, p, a, TRUE), P)
  BY DEF SameTiles
<1>7. SameTiles(M, M)
  BY DEF SameTiles
<1>8. a <= a /\ a < a + MinBlock
  BY DEF MinBlock
<1>9. ASSUME Alloc(M, next)
      PROVE  Resized(M, R, p, a) /\ R.brk = M.brk
  <2>1. Outer(FreeBlocks(M), p, next) = F /\ Outer(Used(M), p, next) = Used(M) \ {p}
    <3>1. /\ Outer(FreeBlocks(M), p, next) = FreeBlocks(M) \ {p}
          /\ Outer(Used(M), p, next) = Used(M) \ {p}
      BY <1>1, <1>2, OuterOfBlock DEF next, F
    <3> QED
      BY <1>2, <3>1 DEF F
  <2>2. Room(M, p, next)
    <3>1. \A q \in F : Alloc(M, NEXT_BLKP(M, q))
      BY <1>1 DEF Separate, F
    <3> QED
      BY <1>2, <1>3, <1>9, <2>1, <3>1 DEF Room
  <2>3. next - p - a >= MinBlock
    BY <1>3 DEF MinBlock
  <2>4. Listed(P, Outer(FreeBlocks(M), p, next))
    BY <1>5, <2>1
  <2>5. R = insert_block(Put(P, p + a, next - p - a, FALSE), p + a)
    BY <1>4, <1>9
  <2> HIDE DEF P
  <2>6. SameTiles(Put(M, p, a, TRUE), P)
    BY <1>6 DEF P
  <2>7. Gives(M, R, p, next, a)
    BY <1>1, <1>5, <2>2, <2>3, <2>4, <2>5, <2>6, TakePart
  <2> QED
    BY <1>7, <1>8, <2>1, <2>7, GivesResized
<1>10. ASSUME ~Alloc(M, next)
       PROVE  Resized(M, R, p, a) /\ R.brk = M.brk
  <2> DEFINE hi == NEXT_BLKP(M, next)
             N  == remove_block(P, next)
  <2>1. next \in FreeBlocks(M)
    BY <1>3, <1>10 DEF FreeBlocks
  <2>2. /\ Room(M, p, hi) /\ hi - p = Size(M, p) + Size(M, next)
        /\ hi \in Nat /\ next < hi /\ Size(M, next) \in Nat
        /\ Outer(FreeBlocks(M), p, hi) = F \ {next}
        /\ Outer(Used(M), p, hi) = Used(M) \ {p}
    BY <2>1, TwoFacts DEF next, F
  <2> HIDE DEF hi
  <2>3. hi - p - a = Size(M, p) - a + Size(M, next) /\ hi - p - a >= MinBlock
    BY <1>3, <2>2 DEF MinBlock
  <2>4. IsHeap(N) /\ SameTiles(P, N) /\ N.marks = {} /\ Listed(N, F \ {next})
    <3> HIDE DEF P
    <3>1. next \in F /\ next \in DOMAIN P.link
      BY <1>5, <2>1 DEF F, Listed
    <3>2. IsHeap(N) /\ SameTiles(P, N) /\ N.marks \subseteq P.marks
      BY <1>5, <3>1, RemoveWrites
    <3>3. Listed(N, F \ {next})
      BY <1>5, <3>1, RemoveLists
    <3> QED
      BY <1>5, <3>2, <3>3
  <2>5. R = insert_block(Put(N, p + a, hi - p - a, FALSE), p + a)
    BY <1>4, <1>10, <2>3
  <2>6. SameTiles(Put(M, p, a, TRUE), N) /\ Listed(N, Outer(FreeBlocks(M), p, hi))
    BY <2>2, <2>4
  <2> HIDE DEF N
  <2>7. Gives(M, R, p, hi, a)
    BY <1>1, <2>2, <2>3, <2>4, <2>5, <2>6, TakePart
  <2> QED
    BY <1>7, <1>8, <2>2, <2>7, GivesResized
<1> QED
  BY <1>9, <1>10 DEF R, next

\* What a sound heap says of its blocks
LEMMA SoundFacts ==
  ASSUME NEW M, Sound(M)
  PROVE  /\ Calm(M) /\ Tiled(M) /\ Separate(M) /\ Linked(M) /\ DOMAIN M.link = FreeBlocks(M)
         /\ M.state = "ok" /\ M.max \in Nat /\ M.brk <= M.max
         /\ Ends(M) /\ Places(M) /\ M.brk \in Nat
BY DEF Sound, Calm, Listed, Tiled, Ends, Places

\* The heap of N reaches as far as that of M.
Reaches(M, N) == M.brk \in Nat /\ N.brk \in Nat /\ M.brk <= N.brk

\* Whatever the heap has gained, no block has been moved, resized or freed.
Kept(M, N) ==
  /\ Sound(N) /\ N.max = M.max /\ Reaches(M, N)
  /\ Used(N) = Used(M) /\ Keeps(M, N, Used(M))
  /\ FreeBlocks(M) \subseteq FreeBlocks(N)

\* The block p has been exchanged for q, which may be p itself.
Exchanged(M, R, p, q, a) ==
  /\ Sound(R) /\ R.max = M.max /\ Reaches(M, R)
  /\ q = p \/ q \notin Used(M)
  /\ Used(R) = (Used(M) \ {p}) \cup {q} /\ Keeps(M, R, Used(M) \ {p})
  /\ a <= Size(R, q) /\ Size(R, q) < a + MinBlock

\* One step of realloc's after another
LEMMA KeptFacts ==
  ASSUME NEW M, NEW N, Kept(M, N)
  PROVE  /\ \A R : Kept(N, R) => Kept(M, R)
         /\ \A R, p, q, a : Exchanged(N, R, p, q, a) => Exchanged(M, R, p, q, a)
<1>1. ASSUME NEW R, Kept(N, R)
      PROVE  Kept(M, R)
  <2>1. Keeps(M, R, Used(M))
    BY <1>1 DEF Kept, Keeps
  <2>2. Reaches(M, R)
    BY <1>1 DEF Kept, Reaches
  <2> QED
    BY <1>1, <2>1, <2>2 DEF Kept
<1>2. ASSUME NEW R, NEW p, NEW q, NEW a, Exchanged(N, R, p, q, a)
      PROVE  Exchanged(M, R, p, q, a)
  <2>1. Keeps(M, R, Used(M) \ {p})
    BY <1>2 DEF Kept, Exchanged, Keeps
  <2>2. Reaches(M, R)
    BY <1>2 DEF Kept, Exchanged, Reaches
  <2> QED
    BY <1>2, <2>1, <2>2 DEF Kept, Exchanged
<1> QED
  BY <1>1, <1>2

\* A heap keeps what it has.
LEMMA KeptSame ==
  ASSUME NEW M, Sound(M)
  PROVE  Kept(M, M)
<1>1. \A p \in Used(M) : p \in DOMAIN M.hdr
  BY DEF Used
<1>2. Reaches(M, M)
  BY SoundFacts DEF Reaches
<1> QED
  BY <1>1, <1>2 DEF Kept, Keeps

\* One more chunk, or none
LEMMA ExtendIfKeeps ==
  ASSUME NEW M, Sound(M), NEW cond
  PROVE  LET r == ExtendIf(cond, M)
         IN  Kept(M, r.heap) /\ (r.ptr = 0 => r.heap = M)
<1> DEFINE r == ExtendIf(cond, M)
           x == extend_heap(M, CHUNKSIZE \div 4)
<1>1. Kept(M, M)
  BY KeptSame
<1>2. IF M.brk + CHUNKSIZE > M.max THEN x = Result(M, 0) ELSE Grown(M, x, CHUNKSIZE)
  BY ExtendSound, ChunkFacts
<1>3. r = x \/ r = Result(M, 1)
  BY DEF ExtendIf
<1> HIDE DEF r, x
<1>4. CASE r = x /\ Grown(M, x, CHUNKSIZE)
  <2>1. Kept(M, r.heap)
    <3>1. Reaches(M, r.heap)
      BY <1>4, ChunkFacts, SoundFacts DEF Grown, Reaches
    <3> QED
      BY <1>4, <3>1 DEF Grown, Kept
  <2>2. r.ptr # 0
    BY <1>4, FreeFacts DEF Grown, Sound, Calm
  <2> QED
    BY <2>1, <2>2 DEF r
<1>5. CASE r = Result(M, 0) \/ r = Result(M, 1)
  <2>1. r.heap = M
    BY <1>5 DEF Result
  <2> QED
    BY <1>1, <2>1 DEF r
<1> QED
  BY <1>2, <1>3, <1>4, <1>5

\* A client's block that has kept its place has kept its neighbour's.
LEMMA KeptBlock ==
  ASSUME NEW M, NEW N, Kept(M, N), NEW p \in Used(M)
  PROVE  /\ p \in Used(N) /\ N.hdr[p] = M.hdr[p] /\ Size(N, p) = Size(M, p)
         /\ NEXT_BLKP(N, p) = NEXT_BLKP(M, p)
<1>1. p \in Used(N) /\ N.hdr[p] = M.hdr[p]
  BY DEF Kept, Keeps
<1> QED
  BY <1>1, SameTile

\* In a heap without marks a copied payload leaves none.
LEMMA CopiedSame ==
  ASSUME NEW M, IsHeap(M), M.marks = {}, NEW p, NEW q, NEW n
  PROVE  Copied(M, p, q, n) = M
<1> DEFINE marks == {a \in M.marks : a < q \/ a >= q + n}
                      \cup {a - p + q : a \in {b \in M.marks : p <= b /\ b < p + n}}
<1>1. marks = {}
  OBVIOUS
<1>2. Copied(M, p, q, n) = [M EXCEPT !.marks = marks]
  BY DEF Copied
<1> HIDE DEF marks
<1> QED
  BY <1>1, <1>2 DEF IsHeap, Fields

\* move (mm.c:603): the old block is freed if there is a new one.
LEMMA MoveSound ==
  ASSUME NEW M, Sound(M), NEW p \in Used(M), NEW size \in Nat, size > 0, size \notin Special
  PROVE  LET r == move(M, p, size)
         IN  \/ r = Result(M, 0)
             \/ r.ptr # 0 /\ r.ptr # p /\ Exchanged(M, r.heap, p, r.ptr, asize(size))
<1> DEFINE a == asize(size)
           x == mm_malloc(M, size)
           r == move(M, p, size)
           C == Copied(x.heap, p, x.ptr, Size(M, p) - OVERHEAD)
<1>1. Refused(M, x, a) \/ Served(M, x, a)
  BY MallocSound
<1>2. r = IF x.ptr = 0 \/ x.heap.state # "ok" THEN x ELSE Result(mm_free(C, p), x.ptr)
  BY DEF move
<1> HIDE DEF a, x, r, C
<1>3. CASE Refused(M, x, a)
  <2>1. x = Result(M, 0)
    BY <1>3 DEF Refused
  <2>2. r = Result(M, 0)
    BY <1>2, <2>1 DEF Result
  <2> QED
    BY <2>2 DEF r
<1>4. CASE Served(M, x, a)
  <2> DEFINE N == x.heap
             q == x.ptr
             R == mm_free(N, p)
  <2>1. /\ Sound(N) /\ N.max = M.max /\ q \notin Used(M) /\ Used(N) = Used(M) \cup {q}
        /\ Keeps(M, N, Used(M)) /\ a <= Size(N, q) /\ Size(N, q) < a + MinBlock
    BY <1>4 DEF Served, Serves
  <2>2. q # p /\ p \in Used(N) /\ q \in Used(N)
    BY <2>1
  <2>3. IsHeap(N) /\ N.marks = {} /\ N.state = "ok" /\ Tiled(N)
    BY <2>1 DEF Sound, Calm
  <2>4. q # 0
    BY <2>2, <2>3, UsedFacts
  <2>5. C = N
    BY <2>3, CopiedSame DEF C
  <2>6. r = Result(R, q)
    BY <1>2, <2>3, <2>4, <2>5
  <2>7. Freed(N, R, p)
    BY <2>1, <2>2, FreeSound
  <2> HIDE DEF N, q, R
  <2>8. /\ Sound(R) /\ R.max = M.max /\ Used(R) = (Used(M) \ {p}) \cup {q}
        /\ Keeps(N, R, Used(N) \ {p})
    BY <2>1, <2>2, <2>7 DEF Freed
  <2>9. R.hdr[q] = N.hdr[q]
    BY <2>2, <2>8 DEF Keeps
  <2>10. Size(R, q) = Size(N, q)
    BY <2>9, SameTile
  <2>11. Keeps(M, R, Used(M) \ {p})
    BY <2>1, <2>8 DEF Keeps
  <2>12. Exchanged(M, R, p, q, a)
    <3>1. N.brk = M.brk \/ N.brk = M.brk + Bigger(a, CHUNKSIZE)
      BY <1>4 DEF Served, N
    <3>2. Bigger(a, CHUNKSIZE) \in Nat
      BY AsizeFacts, ChunkFacts DEF a
    <3>3. Reaches(M, R)
      BY <2>7, <3>1, <3>2, SoundFacts DEF Freed, Reaches
    <3> QED
      BY <2>1, <2>8, <2>10, <2>11, <3>3 DEF Exchanged
  <2>13. r.heap = R /\ r.ptr = q
    BY <2>6 DEF Result
  <2> QED
    BY <2>2, <2>4, <2>12, <2>13 DEF r, a, q
<1> QED
  BY <1>1, <1>3, <1>4

\* grow (mm.c:528): up to three more chunks, then the block behind or a new
\* one; every failure leaves all blocks as they are.
LEMMA GrowSound ==
  ASSUME NEW M, Sound(M), NEW p \in Used(M), NEW size \in Nat, size > 0, size \notin Special
  PROVE  LET r == grow(M, p, size)
         IN  \/ r.ptr = 0 /\ Kept(M, r.heap)
             \/ r.ptr # 0 /\ Exchanged(M, r.heap, p, r.ptr, asize(size))
<1> DEFINE a    == asize(size)
           r    == grow(M, p, size)
           r1   == ExtendIf(IsEpilogue(M, NEXT_BLKP(M, p)), M)
           r2   == ExtendIf(NearEnd(r1.heap, p), r1.heap)
           M2   == r2.heap
           next == NEXT_BLKP(M2, p)
           room(H) == Size(H, p) + Size(H, NEXT_BLKP(H, p))
           cond == /\ ~Alloc(M2, next) /\ room(M2) < a
                   /\ IsEpilogue(M2, NEXT_BLKP(M2, next))
           r3   == ExtendIf(cond, M2)
           M3   == r3.heap
<1>1. r = IF r1.ptr = 0 THEN r1
          ELSE IF r2.ptr = 0 THEN r2
          ELSE IF r3.ptr = 0 THEN r3
          ELSE IF ~Alloc(M2, next) /\ room(M3) >= a
               THEN Result(absorb(M3, p, a), p)
          ELSE move(M3, p, size)
  BY Zenon DEF grow
<1>2. a \in Nat /\ a % 8 = 0 /\ a >= MinBlock
  BY AsizeFacts
<1>3. Kept(M, r1.heap) /\ Sound(r1.heap)
  BY ExtendIfKeeps DEF Kept
<1> HIDE DEF r1, r, a
<1>4. Kept(r1.heap, M2) /\ Sound(M2)
  BY <1>3, ExtendIfKeeps DEF Kept
<1> HIDE DEF r2, cond
<1>5. Kept(M2, M3) /\ Sound(M3)
  BY <1>4, ExtendIfKeeps DEF Kept
<1> HIDE DEF r3
<1>6. Kept(M, M2)
  BY <1>3, <1>4, KeptFacts
<1>7. Kept(M, M3)
  BY <1>5, <1>6, KeptFacts
<1>8. ASSUME r1.ptr = 0 \/ r2.ptr = 0 \/ r3.ptr = 0
      PROVE  r.ptr = 0 /\ Kept(M, r.heap)
  BY <1>1, <1>3, <1>6, <1>7, <1>8
<1>9. ASSUME r = Result(absorb(M3, p, a), p), ~Alloc(M2, next), room(M3) >= a
      PROVE  r.ptr # 0 /\ Exchanged(M, r.heap, p, r.ptr, a)
  <2> DEFINE R == absorb(M3, p, a)
  <2>1. /\ p \in Used(M2) /\ p \in Used(M3)
        /\ NEXT_BLKP(M3, p) = next
    BY <1>5, <1>6, KeptBlock
  <2>2. Tiled(M2) /\ Tiled(M3)
    BY <1>4, <1>5 DEF Sound, Calm
  <2>3. Block(M2, p) /\ p # 0
    BY <2>1, <2>2, UsedFacts
  <2>4. next \in DOMAIN M2.hdr
    BY <2>2, <2>3, NextFacts
  <2>5. next \in FreeBlocks(M2)
    BY <1>9, <2>4 DEF FreeBlocks
  <2>6. NEXT_BLKP(M3, p) \in FreeBlocks(M3)
    BY <1>5, <2>1, <2>5 DEF Kept
  <2>7. /\ Size(M3, p) \in Nat /\ Size(M3, NEXT_BLKP(M3, p)) \in Nat
    BY <1>5, <2>1, <2>6, TwoFacts
  <2>8. a <= Size(M3, p) + Size(M3, NEXT_BLKP(M3, p))
    BY <1>2, <1>9, <2>7
  <2> HIDE DEF M3, M2, next, room
  <2>9. Resized(M3, R, p, a) /\ R.brk = M3.brk
    BY <1>2, <1>5, <2>1, <2>6, <2>8, AbsorbSound
  <2> HIDE DEF R
  <2>10. Exchanged(M3, R, p, p, a)
    <3>1. Used(M3) = (Used(M3) \ {p}) \cup {p}
      BY <2>1
    <3>2. Reaches(M3, R)
      BY <1>5, <2>9, SoundFacts DEF Reaches
    <3> QED
      BY <2>9, <3>1, <3>2 DEF Resized, Exchanged
  <2>11. Exchanged(M, R, p, p, a)
    BY <1>7, <2>10, KeptFacts
  <2>12. r.heap = R /\ r.ptr = p
    BY <1>9 DEF R, Result
  <2> QED
    BY <2>3, <2>11, <2>12
<1>10. ASSUME r = move(M3, p, size)
       PROVE  \/ r.ptr = 0 /\ Kept(M, r.heap)
              \/ r.ptr # 0 /\ Exchanged(M, r.heap, p, r.ptr, a)
  <2>1. p \in Used(M3)
    BY <1>7, KeptBlock
  <2> HIDE DEF M3
  <2>2. \/ r = Result(M3, 0)
        \/ r.ptr # 0 /\ Exchanged(M3, r.heap, p, r.ptr, a)
    BY <1>5, <1>10, <2>1, MoveSound DEF a
  <2>3. CASE r = Result(M3, 0)
    BY <1>7, <2>3 DEF Result
  <2>4. CASE r.ptr # 0 /\ Exchanged(M3, r.heap, p, r.ptr, a)
    BY <1>7, <2>4, KeptFacts
  <2> QED
    BY <2>2, <2>3, <2>4
<1>11. \/ r1.ptr = 0 \/ r2.ptr = 0 \/ r3.ptr = 0
       \/ r = Result(absorb(M3, p, a), p) /\ ~Alloc(M2, next) /\ room(M3) >= a
       \/ r = move(M3, p, size)
  <2> HIDE DEF M3, M2, next, room
  <2> QED
    BY <1>1
<1> HIDE DEF M3, M2, next, room
<1> QED
  BY <1>8, <1>9, <1>10, <1>11 DEF r, a

(***************************************************************************)
(* mm_realloc (mm.c:486) of a block in use: NULL, and then every block is  *)
(* where it was; or a block of the size asked for, and every other one is  *)
(* where it was.  A block that fits already is not touched.                *)
(***************************************************************************)
THEOREM ReallocSound ==
  ASSUME NEW M, Sound(M), NEW p \in Used(M), NEW size \in Nat, size > 0, size \notin Special
  PROVE  LET r == mm_realloc(M, p, size)
             a == asize(size)
         IN  /\ \/ r.ptr = 0 /\ Kept(M, r.heap)
                \/ r.ptr # 0 /\ Exchanged(M, r.heap, p, r.ptr, a)
             /\ a <= Size(M, p) /\ Size(M, p) < a + MinBlock => r = Result(M, p)
<1> DEFINE a == asize(size)
           c == Size(M, p)
           r == mm_realloc(M, p, size)
<1>1. Tiled(M)
  BY DEF Sound, Calm
<1>2. p \in DOMAIN M.hdr /\ Block(M, p) /\ p # 0
  BY <1>1, UsedFacts
<1>3. c \in Nat
  BY <1>1, <1>2, NextFacts
<1>4. a \in Nat /\ a % 8 = 0 /\ a >= MinBlock
  BY AsizeFacts
<1>5. r = IF c >= a + MinBlock THEN Result(shrink(M, p, a), p)
          ELSE IF c >= a THEN Result(M, p)
          ELSE grow(M, p, size)
  <2>1. size # 0
    OBVIOUS
  <2> QED
    BY <1>2, <2>1 DEF mm_realloc
<1> HIDE DEF r, a
<1>6. ASSUME c >= a + MinBlock
      PROVE  r.ptr # 0 /\ Exchanged(M, r.heap, p, r.ptr, a)
  <2> DEFINE R == shrink(M, p, a)
  <2>1. Resized(M, R, p, a) /\ R.brk = M.brk
    BY <1>4, <1>6, ShrinkSound
  <2> HIDE DEF R
  <2>2. Used(M) = (Used(M) \ {p}) \cup {p} /\ Reaches(M, R)
    BY <2>1, SoundFacts DEF Reaches
  <2>3. Exchanged(M, R, p, p, a)
    BY <2>1, <2>2 DEF Resized, Exchanged
  <2>4. r.heap = R /\ r.ptr = p
    BY <1>5, <1>6 DEF Result, R
  <2> QED
    BY <1>2, <2>3, <2>4
<1>7. ASSUME a <= c, c < a + MinBlock
      PROVE  r = Result(M, p) /\ r.ptr # 0 /\ Exchanged(M, r.heap, p, r.ptr, a)
  <2>1. r = Result(M, p)
    BY <1>3, <1>4, <1>5, <1>7 DEF MinBlock
  <2>2. r.heap = M /\ r.ptr = p
    BY <2>1 DEF Result
  <2>3. Used(M) = (Used(M) \ {p}) \cup {p} /\ Keeps(M, M, Used(M) \ {p})
    BY DEF Used, Keeps
  <2>4. Reaches(M, M)
    BY SoundFacts DEF Reaches
  <2>5. Exchanged(M, M, p, p, a)
    BY <1>7, <2>3, <2>4 DEF Exchanged, Sound, Calm
  <2> QED
    BY <1>2, <2>1, <2>2, <2>5
<1>8. ASSUME c < a
      PROVE  \/ r.ptr = 0 /\ Kept(M, r.heap)
             \/ r.ptr # 0 /\ Exchanged(M, r.heap, p, r.ptr, a)
  <2>1. r = grow(M, p, size)
    BY <1>3, <1>4, <1>5, <1>8 DEF MinBlock
  <2> QED
    BY <2>1, GrowSound DEF a
<1>9. c >= a + MinBlock \/ (a <= c /\ c < a + MinBlock) \/ c < a
  BY <1>3, <1>4 DEF MinBlock
<1>10. \/ r.ptr = 0 /\ Kept(M, r.heap)
       \/ r.ptr # 0 /\ Exchanged(M, r.heap, p, r.ptr, a)
  BY <1>6, <1>7, <1>8, <1>9
<1> HIDE DEF c
<1> QED
  BY <1>7, <1>10 DEF r, a, c

----------------------------------------------------------------------------
(* Who owns what. *)

\* The handles of H own the blocks of V, one each, and none is larger than
\* splitting leaves it.
Owns(M, L, S, H, V) ==
  /\ \A h \in H : /\ L[h].ptr \in V /\ L[h].size \in S
                  /\ asize(L[h].size) <= Size(M, L[h].ptr)
                  /\ Size(M, L[h].ptr) < asize(L[h].size) + MinBlock
  /\ \A h, k \in H : L[h].ptr = L[k].ptr => h = k
  /\ \A p \in V : \E h \in H : L[h].ptr = p

\* One handle gives its block back.
LEMMA OwnsLess ==
  ASSUME NEW M, NEW L, NEW S, NEW H, NEW V, Owns(M, L, S, H, V), NEW h \in H
  PROVE  Owns(M, L, S, H \ {h}, V \ {L[h].ptr})
BY DEF Owns

\* The blocks stay where they are.
LEMMA OwnsKeeps ==
  ASSUME NEW M, NEW L, NEW S, NEW H, NEW V, Owns(M, L, S, H, V),
         NEW R, Keeps(M, R, V), NEW K, \A h \in H : K[h] = L[h]
  PROVE  Owns(R, K, S, H, V)
<1>1. \A p \in V : Size(R, p) = Size(M, p)
  BY SameTile DEF Keeps
<1> QED
  BY <1>1 DEF Owns

\* One more handle is given a block.
LEMMA OwnsMore ==
  ASSUME NEW M, NEW L, NEW S, NEW H, NEW V, Owns(M, L, S, H, V),
         NEW h, h \notin H, NEW q, q \notin V, L[h].ptr = q, L[h].size \in S,
         asize(L[h].size) <= Size(M, q), Size(M, q) < asize(L[h].size) + MinBlock
  PROVE  Owns(M, L, S, H \cup {h}, V \cup {q})
BY DEF Owns

----------------------------------------------------------------------------
(* The inductive invariant. *)

\* A trace with none of the sizes treated apart, whose client fills no block
\* with the byte that marks one of those
Ordinary == Ones = {} /\ trace.sizes \cap Special = {}

Payloads == [ptr : Nat, size : Nat]

IInv ==
  /\ Ordinary /\ trace \in Traces
  /\ Sound(heap) /\ heap.max = trace.max
  /\ live \in [Handles -> Payloads]
  /\ Owns(heap, live, trace.sizes, A!InUse, Used(heap))

\* Every size of the trace is one that MallocSound and ReallocSound speak of.
LEMMA TraceSizes ==
  ASSUME trace \in Traces, Ordinary, NEW size \in trace.sizes
  PROVE  size \in Nat /\ size > 0 /\ size <= MaxHeap /\ size \notin Special
<1>1. trace.sizes \subseteq 1..MaxHeap /\ MaxHeap \in Nat
  BY TracesAssumption
<1> QED
  BY <1>1 DEF Ordinary

\* A handle in use has a block in use.
LEMMA InUseFacts ==
  ASSUME IInv, NEW h \in Handles, live[h] # A!Dead
  PROVE  /\ h \in A!InUse /\ live[h].ptr \in Used(heap) /\ live[h].size \in trace.sizes
         /\ asize(live[h].size) <= Size(heap, live[h].ptr)
         /\ Size(heap, live[h].ptr) < asize(live[h].size) + MinBlock
<1>1. h \in A!InUse
  BY DEF A!InUse
<1> QED
  BY <1>1 DEF IInv, Owns

\* A block in use has an address.
LEMMA UsedAddress ==
  ASSUME NEW M, Sound(M), NEW p \in Used(M)
  PROVE  p # 0 /\ p \in Nat
<1>1. Tiled(M)
  BY DEF Sound, Calm
<1>2. Block(M, p) /\ p # 0
  BY <1>1, UsedFacts
<1> QED
  BY <1>1, <1>2, NextFacts

\* The client's bytes leave no mark.
LEMMA WrittenSame ==
  ASSUME NEW M, Sound(M), Ones = {}, NEW h, NEW b
  PROVE  Written(M, h, b) = M
<1>1. IsHeap(M) /\ M.marks = {}
  BY DEF Sound, Calm
<1> DEFINE marks == {a \in M.marks : ~A!Holds(b, a)} \cup (IF h \in Ones THEN Fill(b) ELSE {})
<1>2. marks = {}
  BY <1>1
<1>3. Written(M, h, b) = [M EXCEPT !.marks = marks]
  BY DEF Written
<1> HIDE DEF marks
<1> QED
  BY <1>1, <1>2, <1>3 DEF IsHeap, Fields

\* What a call leaves behind, if its heap is sound
LEMMA DoneFacts ==
  ASSUME NEW h \in Handles, NEW size, NEW r, Done(h, size, r), Sound(r.heap), Ones = {}
  PROVE  /\ trace' = trace /\ heap' = r.heap
         /\ r.ptr = 0 => live' = live
         /\ r.ptr # 0 => live' = [live EXCEPT ![h] = [ptr |-> r.ptr, size |-> size]]
<1>1. r.heap.state = "ok"
  BY DEF Sound, Calm
<1>2. CASE r.ptr = 0
  BY <1>1, <1>2 DEF Done
<1>3. CASE r.ptr # 0
  <2>1. /\ live' = [live EXCEPT ![h] = [ptr |-> r.ptr, size |-> size]]
        /\ heap' = Written(r.heap, h, live'[h]) /\ trace' = trace
    BY <1>1, <1>3 DEF Done
  <2>2. Written(r.heap, h, live'[h]) = r.heap
    BY WrittenSame
  <2> QED
    BY <1>3, <2>1, <2>2
<1> QED
  BY <1>2, <1>3

----------------------------------------------------------------------------
(* The three calls, seen from the client. *)

\* h is given the block q.
Given(h, q, size) ==
  q # 0 /\ q \in Nat /\ live' = [live EXCEPT ![h] = [ptr |-> q, size |-> size]]

\* What a request for a new block does
LEMMA MallocStep ==
  ASSUME IInv, NEW h \in Handles, NEW size \in trace.sizes, Malloc(h, size)
  PROVE  /\ trace' = trace /\ live[h] = A!Dead
         /\ \/ /\ live' = live /\ heap' = heap
               /\ Refused(heap, Result(heap, 0), asize(size))
            \/ \E q : /\ Given(h, q, size)
                      /\ Served(heap, Result(heap', q), asize(size))
<1> DEFINE r == mm_malloc(heap, size)
           a == asize(size)
<1>1. Sound(heap) /\ Ones = {} /\ size \in Nat /\ size > 0 /\ size \notin Special
  BY TraceSizes DEF IInv, Ordinary
<1>2. Refused(heap, r, a) \/ Served(heap, r, a)
  BY <1>1, MallocSound
<1>3. Done(h, size, r) /\ live[h] = A!Dead
  BY DEF Malloc
<1> HIDE DEF r, a
<1>4. CASE Refused(heap, r, a)
  <2>1. r = Result(heap, 0)
    BY <1>4 DEF Refused
  <2>2. r.heap = heap /\ r.ptr = 0
    BY <2>1 DEF Result
  <2>3. trace' = trace /\ heap' = heap /\ live' = live
    BY <1>1, <1>3, <2>2, DoneFacts
  <2> QED
    BY <1>3, <1>4, <2>1, <2>3 DEF a
<1>5. CASE Served(heap, r, a)
  <2>1. Sound(r.heap) /\ r.ptr \in Used(r.heap)
    BY <1>5 DEF Served, Serves
  <2>2. r.ptr # 0 /\ r.ptr \in Nat
    BY <2>1, UsedAddress
  <2>3. /\ trace' = trace /\ heap' = r.heap
        /\ live' = [live EXCEPT ![h] = [ptr |-> r.ptr, size |-> size]]
    BY <1>1, <1>3, <2>1, <2>2, DoneFacts
  <2>4. Given(h, r.ptr, size)
    BY <2>2, <2>3 DEF Given
  <2>5. Served(heap, Result(heap', r.ptr), a)
    BY <1>5, <2>3 DEF Served, Result
  <2> QED
    BY <1>3, <2>3, <2>4, <2>5 DEF a
<1> QED
  BY <1>2, <1>4, <1>5

\* What a request for a new size does
LEMMA ReallocStep ==
  ASSUME IInv, NEW h \in Handles, NEW size \in trace.sizes, Realloc(h, size)
  PROVE  LET p == live[h].ptr
         IN  /\ trace' = trace /\ live[h] # A!Dead /\ p \in Used(heap)
             /\ \/ live' = live /\ Kept(heap, heap')
                \/ \E q : /\ Given(h, q, size)
                          /\ Exchanged(heap, heap', p, q, asize(size))
             /\ size = live[h].size => heap' = heap
<1> DEFINE p == live[h].ptr
           r == mm_realloc(heap, p, size)
           a == asize(size)
<1>1. Sound(heap) /\ Ones = {} /\ size \in Nat /\ size > 0 /\ size \notin Special
  BY TraceSizes DEF IInv, Ordinary
<1>2. Done(h, size, r) /\ live[h] # A!Dead
  BY DEF Realloc
<1>3. /\ p \in Used(heap) /\ asize(live[h].size) <= Size(heap, p)
      /\ Size(heap, p) < asize(live[h].size) + MinBlock
  BY <1>2, InUseFacts
<1> HIDE DEF p
<1>4. /\ \/ r.ptr = 0 /\ Kept(heap, r.heap)
         \/ r.ptr # 0 /\ Exchanged(heap, r.heap, p, r.ptr, a)
      /\ a <= Size(heap, p) /\ Size(heap, p) < a + MinBlock => r = Result(heap, p)
  BY <1>1, <1>3, ReallocSound
<1> HIDE DEF r
<1>5. Sound(r.heap)
  BY <1>4 DEF Kept, Exchanged
<1>6. /\ trace' = trace /\ heap' = r.heap
      /\ r.ptr = 0 => live' = live
      /\ r.ptr # 0 => live' = [live EXCEPT ![h] = [ptr |-> r.ptr, size |-> size]]
  BY <1>1, <1>2, <1>5, DoneFacts
<1>7. size = live[h].size => heap' = heap
  BY <1>3, <1>4, <1>6 DEF Result
<1> HIDE DEF a
<1>8. CASE r.ptr = 0 /\ Kept(heap, r.heap)
  BY <1>2, <1>3, <1>6, <1>7, <1>8 DEF p
<1>9. CASE r.ptr # 0 /\ Exchanged(heap, r.heap, p, r.ptr, a)
  <2>1. r.ptr \in Used(r.heap)
    BY <1>9 DEF Exchanged
  <2>2. Given(h, r.ptr, size)
    BY <1>5, <1>6, <1>9, <2>1, UsedAddress DEF Given
  <2> QED
    BY <1>2, <1>3, <1>6, <1>7, <1>9, <2>2 DEF p, a
<1> QED
  BY <1>4, <1>8, <1>9

\* What giving a block back does
LEMMA FreeStep ==
  ASSUME IInv, NEW h \in Handles, Free(h)
  PROVE  /\ trace' = trace /\ live[h] # A!Dead /\ live[h].ptr \in Used(heap)
         /\ live' = [live EXCEPT ![h] = A!Dead]
         /\ Freed(heap, heap', live[h].ptr)
<1> DEFINE p == live[h].ptr
           N == mm_free(heap, p)
<1>1. live[h] # A!Dead
  BY DEF Free
<1>2. p \in Used(heap) /\ Sound(heap)
  BY <1>1, InUseFacts DEF IInv
<1>3. Freed(heap, N, p)
  BY <1>2, FreeSound
<1>4. N.state = "ok"
  BY <1>3 DEF Freed, Sound, Calm
<1>5. heap' = N /\ live' = [live EXCEPT ![h] = A!Dead] /\ trace' = trace
  BY <1>4 DEF Free
<1> QED
  BY <1>1, <1>2, <1>3, <1>5

----------------------------------------------------------------------------
(* The invariant is inductive. *)

\* mm_init: no block is used, no handle is in use.
LEMMA InitIInv ==
  ASSUME Ordinary, Init
  PROVE  IInv
<1>1. trace \in Traces /\ heap = mm_init(trace.max) /\ live = [h \in Handles |-> A!Dead]
  BY DEF Init
<1>2. trace.max \in Nat /\ trace.max >= 16 + CHUNKSIZE
  BY <1>1, TracesAssumption DEF CHUNKSIZE
<1>3. Sound(heap) /\ Used(heap) = {} /\ heap.max = trace.max
  BY <1>1, <1>2, InitSound
<1>4. A!InUse = {} /\ live \in [Handles -> Payloads]
  BY <1>1 DEF A!InUse, A!Dead, Payloads
<1>5. Owns(heap, live, trace.sizes, A!InUse, Used(heap))
  BY <1>3, <1>4 DEF Owns
<1> QED
  BY <1>1, <1>3, <1>4, <1>5 DEF IInv

\* h takes the block q in place of those it had.
LEMMA GivenOwns ==
  ASSUME IInv, NEW h \in Handles, NEW q, NEW size \in trace.sizes, Given(h, q, size),
         trace' = trace,
         Owns(heap', live, trace.sizes, A!InUse \ {h}, Used(heap') \ {q}),
         q \in Used(heap'), asize(size) <= Size(heap', q),
         Size(heap', q) < asize(size) + MinBlock
  PROVE  /\ live' \in [Handles -> Payloads]
         /\ Owns(heap', live', trace'.sizes, (A!InUse)', Used(heap'))
<1> DEFINE H == A!InUse \ {h}
           V == Used(heap') \ {q}
           S == trace.sizes
<1>1. size \in Nat /\ q # 0 /\ q \in Nat
  BY TraceSizes DEF IInv, Given
<1>2. live' = [live EXCEPT ![h] = [ptr |-> q, size |-> size]] /\ live \in [Handles -> Payloads]
  BY DEF Given, IInv
<1>3. live' \in [Handles -> Payloads] /\ live'[h] = [ptr |-> q, size |-> size]
      /\ \A k \in Handles \ {h} : live'[k] = live[k]
  BY <1>1, <1>2 DEF Payloads
<1>4. (A!InUse)' = H \cup {h} /\ h \notin H
  BY <1>1, <1>3 DEF A!InUse, A!Dead
<1>5. live'[h].ptr = q /\ live'[h].size = size
  BY <1>3
<1>6. \A k \in H : live'[k] = live[k]
  BY <1>3 DEF A!InUse
<1>7. Keeps(heap', heap', V)
  BY DEF Used, Keeps
<1>8. Owns(heap', live, S, H, V)
  OBVIOUS
<1> HIDE DEF H, V, S
<1>9. Owns(heap', live', S, H, V)
  BY <1>6, <1>7, <1>8, OwnsKeeps
<1>10. q \notin V /\ Used(heap') = V \cup {q}
  BY DEF V
<1>11. Owns(heap', live', S, H \cup {h}, V \cup {q})
  <2>1. live'[h].size \in S
    BY <1>5 DEF S
  <2> QED
    BY <1>4, <1>5, <1>9, <1>10, <2>1, OwnsMore
<1> QED
  BY <1>3, <1>4, <1>10, <1>11 DEF S

\* Every step keeps the invariant.
LEMMA NextIInv ==
  ASSUME IInv, [Next]_vars
  PROVE  IInv'
<1> DEFINE S == trace.sizes
           H == A!InUse
<1>1. /\ Ordinary /\ trace \in Traces /\ Sound(heap) /\ heap.max = trace.max
      /\ live \in [Handles -> Payloads] /\ Owns(heap, live, S, H, Used(heap))
  BY DEF IInv
<1>2. ASSUME NEW h \in Handles, NEW size \in trace.sizes, Malloc(h, size)
      PROVE  IInv'
  <2>1. trace' = trace /\ live[h] = A!Dead
    BY <1>2, MallocStep
  <2>2. Ordinary'
    BY <1>1, <2>1 DEF Ordinary
  <2>3. CASE live' = live /\ heap' = heap
    <3>1. (A!InUse)' = A!InUse
      BY <2>3 DEF A!InUse
    <3> QED
      BY <1>1, <2>1, <2>2, <2>3, <3>1 DEF IInv
  <2>4. ASSUME NEW q, Given(h, q, size), Served(heap, Result(heap', q), asize(size))
        PROVE  IInv'
    <3>1. Serves(heap, heap', q, asize(size))
      BY <2>4 DEF Served, Result
    <3>2. /\ Sound(heap') /\ heap'.max = heap.max
          /\ q \notin Used(heap) /\ Used(heap') = Used(heap) \cup {q}
          /\ Keeps(heap, heap', Used(heap))
          /\ asize(size) <= Size(heap', q) /\ Size(heap', q) < asize(size) + MinBlock
      BY <3>1 DEF Serves
    <3>3. H \ {h} = H /\ Used(heap') \ {q} = Used(heap) /\ q \in Used(heap')
      BY <2>1, <3>2 DEF A!InUse
    <3>4. \A k \in H : live[k] = live[k]
      OBVIOUS
    <3> HIDE DEF S, H
    <3>5. Owns(heap', live, S, H, Used(heap))
      BY <1>1, <3>2, <3>4, OwnsKeeps
    <3>6. Owns(heap', live, trace.sizes, A!InUse \ {h}, Used(heap') \ {q})
      BY <3>3, <3>5 DEF S, H
    <3>7. /\ live' \in [Handles -> Payloads]
          /\ Owns(heap', live', trace'.sizes, (A!InUse)', Used(heap'))
      BY <2>1, <2>4, <3>2, <3>3, <3>6, GivenOwns
    <3> QED
      BY <1>1, <2>1, <2>2, <3>2, <3>7 DEF IInv
  <2> QED
    BY <1>2, <2>3, <2>4, MallocStep
<1>3. ASSUME NEW h \in Handles, NEW size \in trace.sizes, Realloc(h, size)
      PROVE  IInv'
  <2> DEFINE p == live[h].ptr
  <2>1. trace' = trace /\ live[h] # A!Dead /\ p \in Used(heap)
    BY <1>3, ReallocStep
  <2>2. Ordinary' /\ h \in H
    BY <1>1, <2>1 DEF Ordinary, A!InUse
  <2>3. \A k \in H : live[k] = live[k]
    OBVIOUS
  <2>4. CASE live' = live /\ Kept(heap, heap')
    <3>1. (A!InUse)' = A!InUse
      BY <2>4 DEF A!InUse
    <3>2. /\ Sound(heap') /\ heap'.max = heap.max /\ Used(heap') = Used(heap)
          /\ Keeps(heap, heap', Used(heap))
      BY <2>4 DEF Kept
    <3> HIDE DEF S, H
    <3>3. Owns(heap', live, S, H, Used(heap))
      BY <1>1, <2>3, <3>2, OwnsKeeps
    <3> QED
      BY <1>1, <2>1, <2>2, <2>4, <3>1, <3>2, <3>3 DEF IInv, S, H
  <2>5. ASSUME NEW q, Given(h, q, size), Exchanged(heap, heap', p, q, asize(size))
        PROVE  IInv'
    <3>1. /\ Sound(heap') /\ heap'.max = heap.max
          /\ q = p \/ q \notin Used(heap)
          /\ Used(heap') = (Used(heap) \ {p}) \cup {q}
          /\ Keeps(heap, heap', Used(heap) \ {p})
          /\ asize(size) <= Size(heap', q) /\ Size(heap', q) < asize(size) + MinBlock
      BY <2>5 DEF Exchanged
    <3>2. Used(heap') \ {q} = Used(heap) \ {p} /\ q \in Used(heap')
      BY <3>1
    <3>3. \A k \in H \ {h} : live[k] = live[k]
      OBVIOUS
    <3> HIDE DEF S, H
    <3>4. Owns(heap, live, S, H \ {h}, Used(heap) \ {p})
      BY <1>1, <2>2, OwnsLess
    <3>5. Owns(heap', live, S, H \ {h}, Used(heap) \ {p})
      BY <3>1, <3>3, <3>4, OwnsKeeps
    <3>6. Owns(heap', live, trace.sizes, A!InUse \ {h}, Used(heap') \ {q})
      BY <3>2, <3>5 DEF S, H
    <3>7. /\ live' \in [Handles -> Payloads]
          /\ Owns(heap', live', trace'.sizes, (A!InUse)', Used(heap'))
      BY <2>1, <2>5, <3>1, <3>2, <3>6, GivenOwns
    <3> QED
      BY <1>1, <2>1, <2>2, <3>1, <3>7 DEF IInv
  <2> QED
    BY <1>3, <2>4, <2>5, ReallocStep
<1>4. ASSUME NEW h \in Handles, Free(h)
      PROVE  IInv'
  <2> DEFINE p == live[h].ptr
  <2>1. /\ trace' = trace /\ live[h] # A!Dead /\ p \in Used(heap)
        /\ live' = [live EXCEPT ![h] = A!Dead] /\ Freed(heap, heap', p)
    BY <1>4, FreeStep
  <2>2. Ordinary' /\ h \in H
    BY <1>1, <2>1 DEF Ordinary, A!InUse
  <2>3. /\ Sound(heap') /\ heap'.max = heap.max
        /\ Used(heap') = Used(heap) \ {p} /\ Keeps(heap, heap', Used(heap) \ {p})
    BY <2>1 DEF Freed
  <2>4. live' \in [Handles -> Payloads] /\ live'[h] = A!Dead
        /\ \A k \in Handles \ {h} : live'[k] = live[k]
    BY <1>1, <2>1 DEF Payloads, A!Dead
  <2>5. (A!InUse)' = H \ {h} /\ \A k \in H \ {h} : live'[k] = live[k]
    BY <2>4 DEF A!InUse
  <2> HIDE DEF S, H
  <2>6. Owns(heap, live, S, H \ {h}, Used(heap) \ {p})
    BY <1>1, <2>2, OwnsLess
  <2>7. Owns(heap', live', S, H \ {h}, Used(heap) \ {p})
    BY <2>3, <2>5, <2>6, OwnsKeeps
  <2> QED
    BY <1>1, <2>1, <2>2, <2>3, <2>4, <2>5, <2>7 DEF IInv, S
<1>5. ASSUME UNCHANGED vars
      PROVE  IInv'
  <2>1. heap' = heap /\ live' = live /\ trace' = trace
    BY <1>5 DEF vars
  <2>2. (A!InUse)' = A!InUse /\ Ordinary'
    BY <1>1, <2>1 DEF A!InUse, Ordinary
  <2> QED
    BY <1>1, <2>1, <2>2 DEF IInv
<1> QED
  BY <1>2, <1>3, <1>4, <1>5 DEF Next

\* The invariant of every behaviour of an ordinary trace
LEMMA AlwaysIInv == Ordinary /\ Spec => []IInv
<1>1. Ordinary /\ Init => IInv
  BY InitIInv
<1>2. IInv /\ [Next]_vars => IInv'
  BY NextIInv
<1> QED
  BY <1>1, <1>2, PTL DEF Spec

----------------------------------------------------------------------------
(* The invariants. *)

(***************************************************************************)
(* No call goes wrong (mm_malloc, mm_free, mm_realloc): none takes a       *)
(* client's bytes for links or tags and none loops; the heap keeps its     *)
(* shape and its bounds.                                                   *)
(***************************************************************************)
THEOREM MallocTypeOK == Ordinary /\ Spec => []TypeOK
<1>1. IInv => TypeOK
  <2> SUFFICES ASSUME IInv PROVE TypeOK
    OBVIOUS
  <2>1. Sound(heap) /\ trace \in Traces /\ heap.max = trace.max
    BY DEF IInv
  <2>2. /\ heap.state = "ok" /\ heap.max \in Nat /\ heap.brk <= heap.max /\ heap.brk \in Nat
        /\ Linked(heap) /\ Ends(heap) /\ Places(heap) /\ DOMAIN heap.link = FreeBlocks(heap)
    BY <2>1, SoundFacts
  <2>3. heap.brk \in 16..heap.max
    <3>1. heap.brk % 8 = 0 /\ heap.brk >= 8 /\ heap.brk # 8
      BY <2>2 DEF Ends, Places, heap_listp
    <3> QED
      BY <2>2, <3>1
  <2>4. \A p \in DOMAIN heap.hdr : heap.hdr[p] \in Tags
    BY <2>2 DEF Places
  <2>5. \A i \in DOMAIN heap.head : heap.head[i] \in FreeBlocks(heap) \cup {0}
    BY <2>2 DEF Linked
  <2>6. \A h \in Handles : live[h] = A!Dead \/ live[h].size \in trace.sizes
    BY InUseFacts
  <2> QED
    BY <2>1, <2>2, <2>3, <2>4, <2>5, <2>6 DEF TypeOK
<1> QED
  BY <1>1, AlwaysIInv, PTL

(***************************************************************************)
(* The headers of place, coalesce, shrink and absorb always lead from the  *)
(* prologue to the epilogue, and footers agree with them.                  *)
(***************************************************************************)
THEOREM MallocBoundaryTags == Ordinary /\ Spec => []BoundaryTags
<1>1. ASSUME NEW M, Sound(M)
      PROVE  /\ {NEXT_BLKP(M, p) : p \in DOMAIN M.hdr \ {M.brk}} = DOMAIN M.hdr \ {heap_listp}
             /\ \A p \in DOMAIN M.hdr \ {M.brk} : M.ftr[NEXT_BLKP(M, p)] = M.hdr[p]
             /\ \A p \in Blocks(M) : Size(M, p) >= MinBlock /\ Size(M, p) % 8 = 0
             /\ M.brk \in DOMAIN M.hdr /\ IsEpilogue(M, M.brk)
  <2>1. Tiled(M) /\ Ends(M) /\ Places(M)
    BY <1>1, SoundFacts
  <2>2. ASSUME NEW p \in DOMAIN M.hdr \ {M.brk}
        PROVE  NEXT_BLKP(M, p) \in DOMAIN M.hdr \ {heap_listp}
    <3>1. NEXT_BLKP(M, p) \in DOMAIN M.hdr
      BY <2>1 DEF Tiled, Tile
    <3>2. p \in Nat /\ p < NEXT_BLKP(M, p) /\ NEXT_BLKP(M, p) \in Nat
      BY <2>1, BlockFacts
    <3>3. heap_listp <= p
      BY <2>1 DEF Places
    <3> QED
      BY <3>1, <3>2, <3>3 DEF heap_listp
  <2>3. \A q \in DOMAIN M.hdr \ {heap_listp} :
          \E p \in DOMAIN M.hdr \ {M.brk} : q = NEXT_BLKP(M, p)
    BY <2>1 DEF Tiled, Reached
  <2>4. \A p \in DOMAIN M.hdr \ {M.brk} : M.ftr[NEXT_BLKP(M, p)] = M.hdr[p]
    BY <2>1 DEF Tiled, Tile
  <2>5. \A p \in Blocks(M) : Size(M, p) >= MinBlock /\ Size(M, p) % 8 = 0
    BY <2>1 DEF Tiled, Tile, Blocks
  <2>6. M.brk \in DOMAIN M.hdr /\ IsEpilogue(M, M.brk)
    BY <2>1 DEF Ends, IsEpilogue, Size, Alloc
  <2>7. {NEXT_BLKP(M, p) : p \in DOMAIN M.hdr \ {M.brk}} = DOMAIN M.hdr \ {heap_listp}
    BY <2>2, <2>3
  <2> QED
    BY <2>4, <2>5, <2>6, <2>7
<1>2. IInv => BoundaryTags
  BY <1>1 DEF IInv, BoundaryTags
<1> QED
  BY <1>2, AlwaysIInv, PTL

(***************************************************************************)
(* "Contiguous free blocks are coalesced" (mm.c:8) on every path.          *)
(***************************************************************************)
THEOREM MallocNoContiguousFree == Ordinary /\ Spec => []NoContiguousFree
<1>1. IInv => NoContiguousFree
  BY SoundFacts DEF IInv, Separate, NoContiguousFree
<1> QED
  BY <1>1, AlwaysIInv, PTL

(***************************************************************************)
(* The allocated blocks are exactly the live ones, and large enough: the   *)
(* calls neither lose a block nor give one out twice.                      *)
(***************************************************************************)
THEOREM MallocOwnedExactly == Ordinary /\ Spec => []OwnedExactly
<1>1. IInv => OwnedExactly
  <2> SUFFICES ASSUME IInv PROVE OwnedExactly
    OBVIOUS
  <2>1. Sound(heap) /\ Owns(heap, live, trace.sizes, A!InUse, Used(heap))
        /\ Ordinary /\ trace \in Traces
    BY DEF IInv
  <2>2. Blocks(heap) \ FreeBlocks(heap) = Used(heap)
    BY DEF Blocks, FreeBlocks, Used
  <2>3. Used(heap) = {live[h].ptr : h \in A!InUse}
    BY <2>1 DEF Owns
  <2>4. ASSUME NEW h \in A!InUse
        PROVE  /\ live[h].ptr \in Blocks(heap) /\ Alloc(heap, live[h].ptr)
               /\ live[h].size + OVERHEAD <= Size(heap, live[h].ptr)
    <3> DEFINE p == live[h].ptr
               n == live[h].size
    <3>1. p \in Used(heap) /\ n \in trace.sizes /\ asize(n) <= Size(heap, p)
      BY <2>1 DEF Owns
    <3>2. Tiled(heap)
      BY <2>1, SoundFacts
    <3>3. p \in Blocks(heap) /\ Alloc(heap, p) /\ Block(heap, p)
      BY <3>1, <3>2, UsedFacts DEF Used, Blocks
    <3>4. Size(heap, p) \in Nat
      BY <3>2, <3>3, NextFacts
    <3> HIDE DEF p, n
    <3>5. n \in Nat /\ n > 0
      BY <2>1, <3>1, TraceSizes
    <3>6. asize(n) \in Nat /\ n + OVERHEAD <= asize(n)
      BY <3>5, AsizeFacts
    <3>7. n + OVERHEAD <= Size(heap, p)
      BY <3>1, <3>4, <3>5, <3>6 DEF OVERHEAD
    <3> QED
      BY <3>3, <3>7 DEF p, n
  <2> QED
    BY <2>2, <2>3, <2>4 DEF OwnedExactly
<1> QED
  BY <1>1, AlwaysIInv, PTL

\* The blocks that the links lead to from each block
IsChain(M, from) ==
  from = [p \in DOMAIN M.link \cup {0} |-> IF p = 0 THEN {} ELSE {p} \cup from[M.link[p].succ]]

\* Along a list the links lead to every block of the class of a lower rank.
LEMMA ChainFacts ==
  ASSUME NEW M, NEW F, Listed(M, F)
  PROVE  /\ \E from : IsChain(M, from)
         /\ \A from : IsChain(M, from) =>
              UNION {from[M.head[i]] : i \in DOMAIN M.head} = F
<1>1. Linked(M) /\ DOMAIN M.link = F
  BY DEF Listed
<1>2. PICK rank, n : Ranked(M, rank, n)
  BY DEF Listed
<1>3. /\ \A b \in F : /\ rank[b] \in Nat
                      /\ Succ(M, b) # 0 => rank[Succ(M, b)] < rank[b]
                      /\ M.head[Class(M, b)] # 0 /\ rank[b] <= rank[M.head[Class(M, b)]]
      /\ \A b, c \in F : rank[b] = rank[c] => b = c
      /\ \A b, c \in F : Class(M, b) = Class(M, c) /\ rank[c] < rank[b]
                           => Succ(M, b) # 0 /\ rank[c] <= rank[Succ(M, b)]
  BY <1>1, <1>2 DEF Ranked
<1>4. /\ 0 \notin F /\ DOMAIN M.head = Classes
      /\ \A i \in Classes : /\ M.head[i] \in F \cup {0}
                            /\ M.head[i] # 0 => Class(M, M.head[i]) = i
      /\ \A b \in F : /\ Succ(M, b) \in F \cup {0}
                      /\ Succ(M, b) # 0 => Class(M, Succ(M, b)) = Class(M, b)
  BY <1>1 DEF Linked
<1> DEFINE low(b) == {c \in F : Class(M, c) = Class(M, b) /\ rank[c] <= rank[b]}
           g == [b \in F \cup {0} |-> IF b = 0 THEN {} ELSE low(b)]
<1>5. ASSUME NEW b \in F
      PROVE  low(b) = {b} \cup g[Succ(M, b)]
  <2>1. b \in low(b)
    BY <1>3
  <2>2. CASE Succ(M, b) = 0
    <3>1. \A c \in low(b) : c = b
      BY <1>3, <2>2
    <3> QED
      BY <2>1, <2>2, <3>1
  <2>3. CASE Succ(M, b) # 0
    <3> DEFINE s == Succ(M, b)
    <3>1. s \in F /\ Class(M, s) = Class(M, b) /\ rank[s] < rank[b] /\ s # 0
      BY <1>3, <1>4, <2>3
    <3>2. g[s] = low(s)
      BY <3>1
    <3> HIDE DEF s, g
    <3>3. \A c \in low(b) : c = b \/ c \in low(s)
      BY <1>3, <3>1 DEF s
    <3>4. \A c \in low(s) : c \in low(b)
      BY <1>3, <3>1
    <3> HIDE DEF low
    <3>5. low(b) = {b} \cup low(s)
      BY <2>1, <3>3, <3>4
    <3> QED
      BY <3>2, <3>5 DEF s
  <2> QED
    BY <2>2, <2>3
<1>6. IsChain(M, g)
  <2> DEFINE e == [b \in F \cup {0} |-> IF b = 0 THEN {} ELSE {b} \cup g[M.link[b].succ]]
  <2>1. \A b \in F \cup {0} : g[b] = e[b]
    <3>1. \A b \in F : e[b] = {b} \cup g[Succ(M, b)]
      <4> HIDE DEF g
      <4> QED
        BY <1>4 DEF Succ
    <3>2. \A b \in F : g[b] = low(b)
      BY <1>4
    <3>3. g[0] = {} /\ e[0] = {}
      OBVIOUS
    <3> HIDE DEF g, low, e
    <3> QED
      BY <1>5, <3>1, <3>2, <3>3
  <2>2. g = [b \in F \cup {0} |-> g[b]]
    OBVIOUS
  <2>3. e = [b \in F \cup {0} |-> e[b]]
    OBVIOUS
  <2> HIDE DEF g
  <2>4. g = e
    <3> HIDE DEF e
    <3> QED
      BY <2>1, <2>2, <2>3
  <2> QED
    BY <1>1, <2>4 DEF IsChain
<1>7. ASSUME NEW from, IsChain(M, from)
      PROVE  \A b \in F : from[b] = low(b)
  <2>1. /\ from[0] = {}
        /\ \A b \in F : from[b] = {b} \cup from[Succ(M, b)]
    BY <1>1, <1>4, <1>7 DEF IsChain, Succ
  <2> DEFINE Bad == {b \in F : from[b] # low(b)}
  <2>2. Bad = {}
    <3> SUFFICES ASSUME Bad # {} PROVE FALSE
      OBVIOUS
    <3> DEFINE T == {rank[b] : b \in Bad}
    <3>1. T \subseteq Nat /\ T # {}
      BY <1>3
    <3>2. PICK x \in T : \A y \in T : x <= y
      <4> HIDE DEF T
      <4> QED
        BY <3>1, NatMin
    <3>3. PICK b \in Bad : rank[b] = x
      OBVIOUS
    <3>4. b \in F /\ from[b] # low(b) /\ \A c \in F : rank[c] < rank[b] => from[c] = low(c)
      BY <1>3, <3>2, <3>3
    <3> DEFINE s == Succ(M, b)
    <3>5. from[b] = {b} \cup from[s] /\ low(b) = {b} \cup g[s]
      BY <1>5, <2>1, <3>4
    <3>6. CASE s = 0
      <4>1. from[s] = {} /\ g[s] = {}
        BY <2>1, <3>6
      <4> HIDE DEF low, g, s
      <4> QED
        BY <3>4, <3>5, <4>1
    <3>7. CASE s # 0
      <4>1. s \in F /\ rank[s] < rank[b]
        BY <1>3, <1>4, <3>4, <3>7
      <4>2. g[s] = low(s)
        BY <3>7, <4>1
      <4> HIDE DEF low, g, s
      <4> QED
        BY <3>4, <3>5, <4>1, <4>2
    <3> QED
      BY <3>6, <3>7
  <2> HIDE DEF low
  <2> QED
    BY <2>2
<1>8. ASSUME NEW from, IsChain(M, from)
      PROVE  UNION {from[M.head[i]] : i \in DOMAIN M.head} = F
  <2>1. from[0] = {} /\ \A b \in F : from[b] = low(b)
    BY <1>1, <1>4, <1>7, <1>8 DEF IsChain
  <2>2. ASSUME NEW i \in Classes
        PROVE  from[M.head[i]] \subseteq F
    <3>1. CASE M.head[i] = 0
      BY <2>1, <3>1
    <3>2. CASE M.head[i] # 0
      BY <1>4, <2>1, <3>2
    <3> QED
      BY <3>1, <3>2
  <2>3. ASSUME NEW b \in F
        PROVE  \E i \in Classes : b \in from[M.head[i]]
    <3>1. Class(M, b) \in Classes
      BY <1>1, ClassOf
    <3>2. M.head[Class(M, b)] # 0 /\ rank[b] <= rank[M.head[Class(M, b)]]
      BY <1>3
    <3>3. /\ M.head[Class(M, b)] \in F
          /\ Class(M, M.head[Class(M, b)]) = Class(M, b)
      BY <1>4, <3>1, <3>2
    <3>4. b \in low(M.head[Class(M, b)])
      BY <3>2, <3>3
    <3> HIDE DEF low
    <3> QED
      BY <2>1, <3>1, <3>3, <3>4
  <2> QED
    BY <1>4, <2>2, <2>3
<1> QED
  BY <1>6, <1>8

(***************************************************************************)
(* insert_block and remove_block keep every free block, and no other, on   *)
(* the list of its class, with links that agree both ways.                 *)
(***************************************************************************)
THEOREM MallocFreeListsExact == Ordinary /\ Spec => []FreeListsExact
<1>1. ASSUME NEW M, Sound(M)
      PROVE  LET from == CHOOSE f : IsChain(M, f)
             IN  UNION {from[M.head[i]] : i \in DOMAIN M.head} = DOMAIN M.link
  <2> DEFINE from == CHOOSE f : IsChain(M, f)
  <2>1. Listed(M, FreeBlocks(M)) /\ DOMAIN M.link = FreeBlocks(M)
    BY <1>1, SoundFacts DEF Sound
  <2>2. IsChain(M, from)
    BY <2>1, ChainFacts
  <2> HIDE DEF from
  <2>3. UNION {from[M.head[i]] : i \in DOMAIN M.head} = FreeBlocks(M)
    BY <2>1, <2>2, ChainFacts
  <2> QED
    BY <2>1, <2>3 DEF from
<1>2. ASSUME NEW M, Sound(M)
      PROVE  /\ DOMAIN M.link = FreeBlocks(M)
             /\ \A p \in DOMAIN M.link :
                  LET prev == Pred(M, p)
                      next == Succ(M, p)
                  IN  /\ next # 0 => /\ next \in DOMAIN M.link /\ Class(M, next) = Class(M, p)
                                     /\ Pred(M, next) = p
                      /\ prev # 0 => prev \in DOMAIN M.link /\ Succ(M, prev) = p
                      /\ prev = 0 => M.head[Class(M, p)] = p
             /\ \A i \in DOMAIN M.head :
                  M.head[i] # 0 => Class(M, M.head[i]) = i /\ Pred(M, M.head[i]) = 0
  <2>1. Linked(M) /\ DOMAIN M.link = FreeBlocks(M)
    BY <1>2, SoundFacts
  <2> QED
    BY <2>1 DEF Linked
<1>3. IInv => FreeListsExact
  <2> SUFFICES ASSUME IInv PROVE FreeListsExact
    OBVIOUS
  <2>1. Sound(heap)
    BY DEF IInv
  <2> QED
    BY <1>1, <1>2, <2>1 DEF FreeListsExact, IsChain, Class, Pred, Succ
<1> QED
  BY <1>3, AlwaysIInv, PTL

----------------------------------------------------------------------------
(* The action properties. *)

(***************************************************************************)
(* "If no suitable block is found, then increase the brk pointer" (mm.c:6) *)
(* and only then, by what the request needs; NULL only at mem_max_addr.    *)
(***************************************************************************)
THEOREM MallocExtendsWhenNeeded == Ordinary /\ Spec => ExtendsWhenNeeded
<1>1. ASSUME IInv, NEW h \in Handles, NEW size \in trace.sizes, Malloc(h, size)
      PROVE  MallocExtends(h, size)
  <2> DEFINE a == asize(size)
  <2>1. heap.brk \in Nat /\ live \in [Handles -> Payloads]
    BY <1>1, SoundFacts DEF IInv
  <2>2. NoneHolds(heap, a) => NoFit(size)
    BY DEF NoneHolds, NoFit
  <2>3. CASE live' = live /\ heap' = heap /\ Refused(heap, Result(heap, 0), a)
    BY <2>2, <2>3 DEF Refused, MallocExtends
  <2>4. ASSUME NEW q, Given(h, q, size), Served(heap, Result(heap', q), a)
        PROVE  MallocExtends(h, size)
    <3>1. live'[h] # A!Dead
      BY <2>1, <2>4 DEF Given, A!Dead
    <3>2. \/ heap'.brk = heap.brk
          \/ NoneHolds(heap, a) /\ heap'.brk = heap.brk + Bigger(a, CHUNKSIZE)
      BY <2>4 DEF Served, Result
    <3>3. a \in Nat /\ a % 8 = 0 /\ a >= MinBlock
      BY <1>1, TraceSizes, AsizeFacts DEF IInv
    <3>4. Bigger(a, CHUNKSIZE) \in Nat
      BY <3>3, ChunkFacts
    <3> QED
      BY <2>1, <2>2, <3>1, <3>2, <3>4 DEF MallocExtends
  <2> QED
    BY <1>1, <2>3, <2>4, MallocStep
<1>2. IInv /\ [Next]_vars =>
        [\A h \in Handles, size \in trace.sizes \ {112, 448} :
           Malloc(h, size) => MallocExtends(h, size)]_vars
  BY <1>1
<1> QED
  BY <1>2, AlwaysIInv, PTL DEF Spec, ExtendsWhenNeeded

(***************************************************************************)
(* A realloc that returns NULL has moved and resized no block; one that    *)
(* succeeds touches no block of another handle, nor its own if it keeps    *)
(* place and size.                                                         *)
(***************************************************************************)
THEOREM MallocReallocSparesOthers == Ordinary /\ Spec => ReallocSparesOthers
<1>1. ASSUME IInv, NEW h \in Handles, NEW size \in trace.sizes, Realloc(h, size),
             NEW k \in A!InUse, k # h \/ live'[h] = live[h]
      PROVE  /\ live[k].ptr \in DOMAIN heap'.hdr
             /\ heap'.hdr[live[k].ptr] = heap.hdr[live[k].ptr]
  <2> DEFINE p == live[h].ptr
  <2>1. k \in Handles /\ live[k] # A!Dead
    BY <1>1 DEF A!InUse
  <2>2. live[k].ptr \in Used(heap) /\ live \in [Handles -> Payloads]
    BY <1>1, <2>1, InUseFacts DEF IInv
  <2>3. live[h] # A!Dead /\ p \in Used(heap) /\ (size = live[h].size => heap' = heap)
    BY <1>1, ReallocStep
  <2>4. CASE Kept(heap, heap')
    BY <2>2, <2>4 DEF Kept, Keeps
  <2>5. ASSUME NEW q, Given(h, q, size), Exchanged(heap, heap', p, q, asize(size))
        PROVE  /\ live[k].ptr \in DOMAIN heap'.hdr
               /\ heap'.hdr[live[k].ptr] = heap.hdr[live[k].ptr]
    <3>1. live'[h] = [ptr |-> q, size |-> size]
      BY <2>2, <2>5 DEF Given
    <3>2. CASE k = h
      <4>1. size = live[h].size
        BY <1>1, <3>1, <3>2
      <4>2. heap' = heap
        BY <2>3, <4>1
      <4> QED
        BY <2>2, <4>2 DEF Used
    <3>3. CASE k # h
      <4>1. live[k].ptr # p
        BY <1>1, <2>1, <2>3, <3>3 DEF IInv, Owns, A!InUse
      <4>2. live[k].ptr \in Used(heap) \ {p}
        BY <2>2, <4>1
      <4> QED
        BY <2>5, <4>2 DEF Exchanged, Keeps
    <3> QED
      BY <3>2, <3>3
  <2> QED
    BY <1>1, <2>4, <2>5, ReallocStep
<1>2. IInv /\ [Next]_vars =>
        [\A h \in Handles, size \in trace.sizes : Realloc(h, size) =>
           \A k \in A!InUse : k # h \/ live'[h] = live[h] =>
             /\ live[k].ptr \in DOMAIN heap'.hdr
             /\ heap'.hdr[live[k].ptr] = heap.hdr[live[k].ptr]]_vars
  BY <1>1
<1> QED
  BY <1>2, AlwaysIInv, PTL DEF Spec, ReallocSparesOthers

----------------------------------------------------------------------------
(* The refinement. *)

\* What the blocks in use say of the payloads in them
LEMMA PayloadFacts ==
  ASSUME NEW M, Sound(M), NEW S, S \subseteq Nat \ {0},
         NEW L, NEW H, Owns(M, L, S, H, Used(M)),
         NEW h \in H, L[h] = [ptr |-> L[h].ptr, size |-> L[h].size]
  PROVE  /\ L[h] \in A!Payload /\ A!Fits(L[h], M.brk)
         /\ L[h].ptr + L[h].size <= NEXT_BLKP(M, L[h].ptr)
         /\ \A k \in H : k # h => NEXT_BLKP(M, L[h].ptr) <= L[k].ptr \/ L[k].ptr < L[h].ptr
<1> DEFINE p == L[h].ptr
           n == L[h].size
<1>1. /\ p \in Used(M) /\ n \in S /\ asize(n) <= Size(M, p)
      /\ \A k \in H : L[k].ptr \in Used(M) /\ (k # h => L[k].ptr # p)
  BY DEF Owns
<1>2. Tiled(M)
  BY SoundFacts
<1>3. Block(M, p) /\ p # 0
  BY <1>1, <1>2, UsedFacts
<1> HIDE DEF p, n
<1>4. /\ p \in Nat /\ p % 8 = 0 /\ NEXT_BLKP(M, p) = p + Size(M, p) /\ Size(M, p) \in Nat
      /\ NEXT_BLKP(M, p) <= M.brk /\ M.brk \in Nat
      /\ \A q \in DOMAIN M.hdr : q \in Nat /\ (q <= p \/ NEXT_BLKP(M, p) <= q)
  BY <1>2, <1>3, NextFacts
<1>5. n \in Nat /\ n > 0
  BY <1>1
<1>6. asize(n) \in Nat /\ n + OVERHEAD <= asize(n)
  BY <1>5, AsizeFacts
<1>7. p + n <= NEXT_BLKP(M, p) /\ p + n <= M.brk
  BY <1>1, <1>4, <1>5, <1>6 DEF OVERHEAD
<1>8. ASSUME NEW k \in H, k # h
      PROVE  NEXT_BLKP(M, p) <= L[k].ptr \/ L[k].ptr < p
  <2>1. L[k].ptr \in DOMAIN M.hdr /\ L[k].ptr # p
    BY <1>1, <1>8 DEF Used
  <2> QED
    BY <1>4, <2>1
<1>9. L[h] = [ptr |-> p, size |-> n]
  BY DEF p, n
<1>10. L[h] \in A!Payload
  BY <1>3, <1>4, <1>5, <1>9 DEF A!Payload
<1>11. A!Fits(L[h], M.brk)
  BY <1>4, <1>7 DEF A!Fits, p, n
<1> QED
  BY <1>7, <1>8, <1>10, <1>11 DEF p, n

\* Two payloads of different handles are apart.
LEMMA PayloadsApart ==
  ASSUME NEW M, Sound(M), NEW S, S \subseteq Nat \ {0},
         NEW L, NEW H, Owns(M, L, S, H, Used(M)),
         \A h \in H : L[h] = [ptr |-> L[h].ptr, size |-> L[h].size],
         NEW h \in H, NEW k \in H, h # k
  PROVE  /\ L[h] \in A!Payload /\ A!Fits(L[h], M.brk) /\ A!Apart(L[h], L[k])
         /\ ~A!Holds(L[k], L[h].ptr) /\ ~A!Holds(L[k], L[h].ptr + L[h].size - 1)
<1>1. /\ L[h] \in A!Payload /\ A!Fits(L[h], M.brk)
      /\ L[h].ptr + L[h].size <= NEXT_BLKP(M, L[h].ptr)
      /\ NEXT_BLKP(M, L[h].ptr) <= L[k].ptr \/ L[k].ptr < L[h].ptr
  BY PayloadFacts
<1>2. /\ L[k] \in A!Payload
      /\ L[k].ptr + L[k].size <= NEXT_BLKP(M, L[k].ptr)
      /\ NEXT_BLKP(M, L[k].ptr) <= L[h].ptr \/ L[h].ptr < L[k].ptr
  BY PayloadFacts
<1>3. /\ L[h].ptr \in Nat /\ L[h].size \in Nat /\ L[h].size > 0
      /\ L[k].ptr \in Nat /\ L[k].size \in Nat /\ L[k].size > 0
  BY <1>1, <1>2 DEF A!Payload
<1>4. NEXT_BLKP(M, L[h].ptr) \in Int /\ NEXT_BLKP(M, L[k].ptr) \in Int
  <2>1. Tiled(M) /\ L[h].ptr \in Used(M) /\ L[k].ptr \in Used(M)
    BY SoundFacts DEF Owns
  <2>2. Block(M, L[h].ptr) /\ Block(M, L[k].ptr)
    BY <2>1, UsedFacts
  <2> QED
    BY <2>1, <2>2, NextFacts
<1>5. L[h].ptr + L[h].size <= L[k].ptr \/ L[k].ptr + L[k].size <= L[h].ptr
  BY <1>1, <1>2, <1>3, <1>4
<1> QED
  BY <1>1, <1>3, <1>5 DEF A!Apart, A!Holds

\* The break has moved, if at all, up, and not beyond mem_max_addr.
LEMMA BreakMoves ==
  ASSUME IInv', Reaches(heap, heap')
  PROVE  A!mem_sbrk
<1>1. Sound(heap') /\ heap'.max = trace'.max /\ trace' \in Traces
  BY DEF IInv
<1>2. MaxHeap \in Nat /\ trace'.max \in Nat /\ trace'.max <= MaxHeap
  BY <1>1, TracesAssumption DEF CHUNKSIZE
<1>3. heap'.brk <= heap'.max
  BY <1>1, SoundFacts
<1>4. heap.brk \in Nat /\ heap'.brk \in Nat /\ heap.brk <= heap'.brk
  BY DEF Reaches
<1>5. heap'.brk \in heap.brk..MaxHeap
  BY <1>1, <1>2, <1>3, <1>4
<1> QED
  BY <1>5 DEF A!mem_sbrk

\* A new or moved block is one that the driver's add_range accepts.
LEMMA GivenAccepted ==
  ASSUME IInv, IInv', NEW h \in Handles, NEW q, NEW size, Given(h, q, size),
         Reaches(heap, heap')
  PROVE  A!Give(h)
<1> DEFINE H == (A!InUse)'
           S == trace'.sizes
           N == heap'
           L == live'
<1>1. live \in [Handles -> Payloads] /\ q # 0
      /\ live' = [live EXCEPT ![h] = [ptr |-> q, size |-> size]]
  BY DEF IInv, Given
<1>2. /\ live' = [live EXCEPT ![h] = live'[h]] /\ live'[h] # A!Dead
      /\ \A k \in Handles \ {h} : live'[k] = live[k]
  BY <1>1 DEF A!Dead
<1>3. h \in H /\ H \subseteq Handles /\ \A k \in A!InUse \ {h} : k \in H /\ live[k] = live'[k]
  BY <1>2 DEF A!InUse, A!Dead
<1>4. /\ Sound(N) /\ N.max = trace'.max /\ trace' \in Traces
      /\ L \in [Handles -> Payloads] /\ Owns(N, L, S, H, Used(N))
  BY DEF IInv
<1>5. S \subseteq Nat \ {0}
  BY <1>4, TracesAssumption
<1> HIDE DEF H, S, N, L
<1>6. \A k \in H : L[k] = [ptr |-> L[k].ptr, size |-> L[k].size]
  BY <1>3, <1>4 DEF Payloads
<1>7. L[h] \in A!Payload /\ A!Fits(L[h], N.brk)
  BY <1>3, <1>4, <1>5, <1>6, PayloadFacts
<1>8. \A k \in A!InUse \ {h} :
        /\ A!Apart(L[h], live[k])
        /\ ~A!Holds(live[k], L[h].ptr) /\ ~A!Holds(live[k], L[h].ptr + L[h].size - 1)
  <2> SUFFICES ASSUME NEW k \in A!InUse \ {h}
               PROVE  /\ A!Apart(L[h], live[k])
                      /\ ~A!Holds(live[k], L[h].ptr)
                      /\ ~A!Holds(live[k], L[h].ptr + L[h].size - 1)
    OBVIOUS
  <2>1. k \in H /\ live[k] = L[k] /\ k # h
    BY <1>3 DEF L
  <2>2. /\ A!Apart(L[h], L[k])
        /\ ~A!Holds(L[k], L[h].ptr) /\ ~A!Holds(L[k], L[h].ptr + L[h].size - 1)
    BY <1>3, <1>4, <1>5, <1>6, <2>1, PayloadsApart
  <2> QED
    BY <2>1, <2>2
<1>9. A!Accepts(h, L[h], N.brk)
  BY <1>7, <1>8 DEF A!Accepts, A!add_range, A!Overlaps
<1>10. A!mem_sbrk
  BY BreakMoves
<1> QED
  BY <1>2, <1>9, <1>10 DEF A!Give, L, N

(***************************************************************************)
(* The allocator implements Allocator: a payload that mm_malloc or         *)
(* mm_realloc hands out is aligned, in the heap as far as its break has    *)
(* come (mem_heap_hi) and apart from all others; nothing but mm_free and   *)
(* mm_realloc takes one back; and the break never goes back.               *)
(***************************************************************************)
THEOREM MallocImplementsAllocator == Ordinary /\ Spec => ImplementsAllocator
<1>1. Init => A!Init
  <2> SUFFICES ASSUME Init PROVE A!Init
    OBVIOUS
  <2>1. /\ trace \in Traces /\ heap = mm_init(trace.max)
        /\ live = [h \in Handles |-> A!Dead]
    BY DEF Init
  <2>2. /\ trace.max \in Nat /\ trace.max >= 16 + CHUNKSIZE /\ trace.max <= MaxHeap
        /\ MaxHeap \in Nat
    BY <2>1, TracesAssumption DEF CHUNKSIZE
  <2>3. heap.brk = 16 + CHUNKSIZE
    BY <2>1, <2>2, InitSound
  <2>4. heap.brk \in 0..MaxHeap
    BY <2>2, <2>3 DEF CHUNKSIZE
  <2> QED
    BY <2>1, <2>4 DEF A!Init
<1>2. IInv /\ IInv' /\ [Next]_vars => [A!Next]_<<live, heap.brk>>
  <2> SUFFICES ASSUME IInv, IInv', [Next]_vars
               PROVE  A!Next \/ UNCHANGED <<live, heap.brk>>
    OBVIOUS
  <2>1. ASSUME NEW h \in Handles, NEW size \in trace.sizes, Malloc(h, size)
        PROVE  A!Next \/ UNCHANGED <<live, heap.brk>>
    <3>1. CASE live' = live /\ heap' = heap
      BY <3>1
    <3>2. ASSUME NEW q, Given(h, q, size), Served(heap, Result(heap', q), asize(size))
          PROVE  A!Next
      <4>1. /\ Sound(heap) /\ Sound(heap') /\ size \in Nat /\ size > 0
        BY TraceSizes DEF IInv
      <4>2. heap.brk \in Nat /\ heap'.brk \in Nat /\ Bigger(asize(size), CHUNKSIZE) \in Nat
        BY <4>1, SoundFacts, AsizeFacts, ChunkFacts
      <4>3. Reaches(heap, heap')
        BY <3>2, <4>2 DEF Served, Result, Reaches
      <4> QED
        BY <3>2, <4>3, GivenAccepted DEF A!Next
    <3> QED
      BY <2>1, <3>1, <3>2, MallocStep
  <2>2. ASSUME NEW h \in Handles, NEW size \in trace.sizes, Realloc(h, size)
        PROVE  A!Next
    <3>1. CASE live' = live /\ Kept(heap, heap')
      <4>1. A!mem_sbrk
        BY <3>1, BreakMoves DEF Kept
      <4> QED
        BY <3>1, <4>1 DEF A!Next, A!Fail
    <3>2. ASSUME NEW q, Given(h, q, size),
                 Exchanged(heap, heap', live[h].ptr, q, asize(size))
          PROVE  A!Next
      <4>1. Reaches(heap, heap')
        BY <3>2 DEF Exchanged
      <4> QED
        BY <3>2, <4>1, GivenAccepted DEF A!Next
    <3> QED
      BY <2>2, <3>1, <3>2, ReallocStep
  <2>3. ASSUME NEW h \in Handles, Free(h)
        PROVE  A!Next
    <3>1. live[h] # A!Dead /\ live' = [live EXCEPT ![h] = A!Dead]
          /\ heap'.brk = heap.brk
      BY <2>3, FreeStep DEF Freed
    <3> QED
      BY <3>1 DEF A!Next, A!Free, A!InUse
  <2> QED
    BY <2>1, <2>2, <2>3 DEF Next, vars
<1>3. Ordinary /\ Spec => []IInv
  BY AlwaysIInv
<1> QED
  BY <1>1, <1>2, <1>3, PTL DEF Spec, ImplementsAllocator, A!Spec
=============================================================================
