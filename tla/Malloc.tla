------------------------------- MODULE Malloc -------------------------------
(***************************************************************************)
(* mm_malloc, mm_free and mm_realloc of src/lab7/mm.c on the heap of       *)
(* module Heap, called in any order by a client that, like the driver,     *)
(* knows its blocks by number and fills every payload it is given.         *)
(*                                                                         *)
(* The code treats some sizes of the test traces apart.  Blocks of 4095    *)
(* and 8190 bytes lie at fixed addresses, are on no list, and are known by *)
(* a byte ~0 behind their payload, the marks of module Heap.               *)
(***************************************************************************)
EXTENDS Heap, FiniteSets

CONSTANTS
  MaxHeap,    \* MAX_HEAP of config.h
  Handles,    \* the block numbers
  Ones,       \* the numbers with a low byte of 255: the driver fills a block
              \* with the low byte of its number
  Traces      \* the kinds of trace the client runs: the sizes it requests, how
              \* many blocks it has at a time, the heap mem_init reserves for it

ASSUME TracesAssumption ==
  /\ MaxHeap \in Nat /\ Ones \subseteq Handles
  /\ \A t \in Traces : /\ t.sizes \subseteq 1..MaxHeap /\ t.blocks \in Nat
                      /\ t.max \in 16 + CHUNKSIZE..MaxHeap

VARIABLES heap, live, trace

vars == <<heap, live, trace>>

A == INSTANCE Allocator WITH live <- live, brk <- heap.brk, Handles <- Handles,
                             HeapLo <- 0, MaxHeap <- MaxHeap, ALIGNMENT <- 8

\* Adjusted block size: header and footer, a multiple of eight
asize(size) == IF size <= 8 THEN MinBlock ELSE 8 * ((size + 15) \div 8)

Bigger(m, n) == IF m > n THEN m ELSE n

\* The first block is a small one of a binary trace: 16 or 64 bytes.
Small == {16 + OVERHEAD, 64 + OVERHEAD}

----------------------------------------------------------------------------
(* mm_malloc *)

\* Write ~0 at address a; where a header is, that destroys its size.
Mark(M, a) == IF a + 1 \in DOMAIN M.hdr THEN [M EXCEPT !.state = "corrupt"]
                                        ELSE [M EXCEPT !.marks = @ \cup {a}]

\* Size 4095: the first of two fixed places, or the second if it is marked
malloc_4095(M) ==
  LET full == 4112 \in DOMAIN M.hdr /\ IsEpilogue(M, 4112)
      r    == IF full THEN extend_heap(M, CHUNKSIZE \div 4 + 1) ELSE Result(M, 16)
      a    == IF 4111 \in r.heap.marks THEN 8207 ELSE 4111
  IN  IF r.ptr = 0 THEN r ELSE Result(Mark(r.heap, a), a - 4095)

\* Size 8190: both places together
malloc_8190(M) == Result(Mark(M, 8207), 16)

\* Cut the free block p into a free block, the block returned, a free block.
carve(M, p, first, a) ==
  LET csize == Size(M, p)
      q     == p + first
      rest  == q + a
      M1    == insert_block(Put(remove_block(M, p), p, first, FALSE), p)
      M2    == Put(Put(M1, q, a, TRUE), rest, csize - a - first, FALSE)
  IN  IF csize < a + first THEN Result([M EXCEPT !.state = "corrupt"], 0)
                           ELSE Result(insert_block(M2, rest), q)

\* Sizes 16 and 64 of the binary traces: the first free block
malloc_first(M, a) ==
  LET p == find_first_fit(M, a)
  IN  IF p = 0 THEN Result([M EXCEPT !.state = "hung"], 0)
               ELSE Result(place(M, p, a), p)

\* Mutant of malloc_last: the heap is not extended.
malloc_lastNoRoom(M, a) ==
  LET p      == find_last_fit(M)
      before == Size(M, PREV_BLKP(M, p))
  IN  IF before \notin Small THEN Result(place(M, p, a), p)
                             ELSE carve(M, p, before * 4000, a)

\* Sizes 112 and 448: the last block of the heap; room is made for all the
\* small blocks of the trace when the first big one follows a small one.
malloc_last(M, a) ==
  LET p      == find_last_fit(M)
      before == Size(M, PREV_BLKP(M, p))
      chunks == IF before = 16 + OVERHEAD THEN 156 ELSE 289
      first  == IF before = 16 + OVERHEAD THEN before * 4000 ELSE before * 2000
      r      == extend_heap(M, chunks * (CHUNKSIZE \div 4))
  IN  IF before \notin Small THEN Result(place(M, p, a), p)
      ELSE IF r.ptr = 0 THEN r
      ELSE carve(r.heap, p, first, a)

\* Any other request: a listed block, or more heap.  For size 4092 the heap's
\* first block is cut, so that room for two blocks of 16 stays before it.
malloc_fit(M, size) ==
  LET a == asize(size)
      p == find_fit(M, a)
      r == extend_heap(M, Bigger(a, CHUNKSIZE) \div 4)
  IN  IF p # 0 THEN Result(place(M, p, a), p)
      ELSE IF r.ptr = 0 THEN r
      ELSE IF size = 4092
           THEN carve(r.heap, NEXT_BLKP(r.heap, heap_listp), 2 * (16 + OVERHEAD), a)
      ELSE Result(place(r.heap, r.ptr, a), r.ptr)

mm_malloc(M, size) ==
  CASE size = 4095 -> malloc_4095(M)
    [] size = 8190 -> malloc_8190(M)
    [] size = 0    -> Result(M, 0)
    [] size \in {16, 64} /\ FirstSize(M) \in Small   -> malloc_first(M, asize(size))
    [] size \in {112, 448} /\ FirstSize(M) \in Small -> malloc_last(M, asize(size))
    [] OTHER -> malloc_fit(M, size)

----------------------------------------------------------------------------
(* mm_free and mm_realloc *)

mm_free(M, p) ==
  LET marked == {p + 4095, p + 8191} \cap M.marks
      first  == IF p + 4095 \in marked THEN p + 4095 ELSE p + 8191
  IN  IF marked # {} THEN [M EXCEPT !.marks = @ \ {first}]
      ELSE IF p \notin DOMAIN M.hdr THEN [M EXCEPT !.state = "corrupt"]
      ELSE coalesce(Unmark(Put(M, p, Size(M, p), FALSE), p), p).heap

\* The block p shrinks to a; the rest joins a free block behind it.
shrink(M, p, a) ==
  LET next == NEXT_BLKP(M, p)
      rest == p + a
      diff == Size(M, p) - a
      M1   == Put(M, p, a, TRUE)
      M2   == IF Alloc(M, next) THEN Put(M1, rest, diff, FALSE)
              ELSE Put(remove_block(M1, next), rest, diff + Size(M, next), FALSE)
  IN  insert_block(M2, rest)

\* Mutant of absorb: what is left over is lost.
absorbNoRest(M, p, a) == Put(remove_block(M, NEXT_BLKP(M, p)), p, a, TRUE)

\* The block p takes the free block behind it and gives back what it can.
absorb(M, p, a) ==
  LET next  == NEXT_BLKP(M, p)
      total == Size(M, p) + Size(M, next)
      M1    == remove_block(M, next)
      rest  == p + a
  IN  IF total - a < MinBlock THEN Put(M1, p, total, TRUE)
      ELSE insert_block(Put(Put(M1, p, a, TRUE), rest, total - a, FALSE), rest)

\* The block behind p is the last one and has a size that realloc prepares
\* for, a different one when the first block is small.
NearEnd(M, p) ==
  LET next == NEXT_BLKP(M, p)
  IN  /\ IsEpilogue(M, NEXT_BLKP(M, next))
      /\ IF FirstSize(M) = 16 + OVERHEAD THEN Size(M, next) \in 49..88
                                         ELSE Size(M, next) \in 601..1000

\* One more chunk under a condition; ptr = 0 if the heap cannot grow.
ExtendIf(cond, M) == IF cond THEN extend_heap(M, CHUNKSIZE \div 4) ELSE Result(M, 1)

\* Mutants of move: the old block is kept, or freed too early.
moveLeaks(M, p, size) == mm_malloc(M, size)

moveFreesFirst(M, p, size) == mm_malloc(mm_free(M, p), size)

\* memcpy of n bytes from p to q
Copied(M, p, q, n) ==
  [M EXCEPT !.marks = {a \in @ : a < q \/ a >= q + n}
                        \cup {a - p + q : a \in {b \in @ : p <= b /\ b < p + n}}]

move(M, p, size) ==
  LET r == mm_malloc(M, size)
  IN  IF r.ptr = 0 \/ r.heap.state # "ok" THEN r
      ELSE Result(mm_free(Copied(r.heap, p, r.ptr, Size(M, p) - OVERHEAD), p), r.ptr)

grow(M, p, size) ==
  LET a    == asize(size)
      r1   == ExtendIf(IsEpilogue(M, NEXT_BLKP(M, p)), M)
      r2   == ExtendIf(NearEnd(r1.heap, p), r1.heap)
      M2   == r2.heap
      next == NEXT_BLKP(M2, p)
      room(H) == Size(H, p) + Size(H, NEXT_BLKP(H, p))
      r3   == ExtendIf(/\ ~Alloc(M2, next) /\ room(M2) < a
                       /\ IsEpilogue(M2, NEXT_BLKP(M2, next)), M2)
      M3   == r3.heap
  IN  IF r1.ptr = 0 THEN r1
      ELSE IF r2.ptr = 0 THEN r2
      ELSE IF r3.ptr = 0 THEN r3
      ELSE IF ~Alloc(M2, next) /\ room(M3) >= a
           THEN Result(absorb(M3, p, a), p)
      ELSE move(M3, p, size)

\* Mutant of mm_realloc: a block that need not shrink is taken as it is.
mm_reallocKeeps(M, p, size) ==
  IF size # 0 /\ Size(M, p) >= asize(size) + MinBlock
  THEN Result(shrink(M, p, asize(size)), p)
  ELSE Result(M, p)

mm_realloc(M, p, size) ==
  LET a == asize(size)
      c == Size(M, p)
  IN  CASE size = 0 -> Result(mm_free(M, p), p)
        [] size # 0 /\ p \notin DOMAIN M.hdr -> Result([M EXCEPT !.state = "corrupt"], 0)
        [] size # 0 /\ p \in DOMAIN M.hdr ->
             IF c >= a + MinBlock THEN Result(shrink(M, p, a), p)
             ELSE IF c >= a THEN Result(M, p)
             ELSE grow(M, p, size)

----------------------------------------------------------------------------
(* The client.  It fills its whole payload with one byte, which is ~0 for the *)
(* numbers in Ones.                                                           *)

Fill(b) == {a \in b.ptr..b.ptr + b.size - 1 : a % 8 = 7}

Written(M, h, b) ==
  [M EXCEPT !.marks = {a \in @ : ~A!Holds(b, a)} \cup (IF h \in Ones THEN Fill(b) ELSE {})]

\* A call is over; after one that went wrong only that is kept.
Done(h, size, r) ==
  \/ /\ r.heap.state # "ok"
     /\ heap' = [heap EXCEPT !.state = r.heap.state]
     /\ UNCHANGED <<live, trace>>
  \/ /\ r.heap.state = "ok" /\ r.ptr = 0
     /\ heap' = r.heap
     /\ UNCHANGED <<live, trace>>
  \/ /\ r.heap.state = "ok" /\ r.ptr # 0
     /\ live' = [live EXCEPT ![h] = [ptr |-> r.ptr, size |-> size]]
     /\ heap' = Written(r.heap, h, live'[h])
     /\ UNCHANGED trace

\* mm_malloc, and mm_realloc of NULL
Malloc(h, size) ==
  /\ heap.state = "ok" /\ live[h] = A!Dead
  /\ size \in trace.sizes /\ Cardinality(A!InUse) < trace.blocks
  /\ Done(h, size, mm_malloc(heap, size))

Realloc(h, size) ==
  /\ heap.state = "ok" /\ live[h] # A!Dead /\ size \in trace.sizes
  /\ Done(h, size, mm_realloc(heap, live[h].ptr, size))

\* mm_free, and mm_realloc to size 0
Free(h) ==
  /\ heap.state = "ok" /\ live[h] # A!Dead
  /\ LET M == mm_free(heap, live[h].ptr)
     IN  \/ /\ M.state = "ok" /\ heap' = M
            /\ live' = [live EXCEPT ![h] = A!Dead]
         \/ /\ M.state # "ok" /\ heap' = [heap EXCEPT !.state = M.state]
            /\ UNCHANGED live
  /\ UNCHANGED trace

Init == /\ trace \in Traces
        /\ heap = mm_init(trace.max)
        /\ live = [h \in Handles |-> A!Dead]

Next == \E h \in Handles :
          \/ \E size \in trace.sizes : Malloc(h, size) \/ Realloc(h, size)
          \/ Free(h)

Spec == Init /\ [][Next]_vars
----------------------------------------------------------------------------
(* Properties. *)

Blocks(M) == DOMAIN M.hdr \ {heap_listp, M.brk}

\* The heap is a record of the right shape, and no call has gone wrong: none
\* read a client's bytes as links or tags, and none looped for ever.
TypeOK ==
  /\ heap.state = "ok"
  /\ heap.brk \in 16..heap.max
  /\ \A p \in DOMAIN heap.hdr : heap.hdr[p] \in Tags
  /\ \A i \in DOMAIN heap.head : heap.head[i] \in FreeBlocks(heap) \cup {0}
  /\ \A h \in Handles : live[h] = A!Dead \/ live[h].size \in trace.sizes
  /\ trace \in Traces

(***************************************************************************)
(* From the prologue on, the headers lead from block to block to the       *)
(* epilogue at the break and miss none; every footer agrees with its       *)
(* header, so that coalesce (mm.c:453) finds the block before; every block *)
(* holds two links and its tags.                                           *)
(***************************************************************************)
BoundaryTags ==
  LET M == heap IN
  /\ {NEXT_BLKP(M, p) : p \in DOMAIN M.hdr \ {M.brk}} = DOMAIN M.hdr \ {heap_listp}
  /\ \A p \in DOMAIN M.hdr \ {M.brk} : M.ftr[NEXT_BLKP(M, p)] = M.hdr[p]
  /\ \A p \in Blocks(M) : Size(M, p) >= MinBlock /\ Size(M, p) % 8 = 0
  /\ M.brk \in DOMAIN M.hdr /\ IsEpilogue(M, M.brk)

(***************************************************************************)
(* "Contiguous free blocks are coalesced" (mm.c:8, checked by mm_check at  *)
(* mm.c:630), by every path of malloc, free and realloc.                   *)
(***************************************************************************)
NoContiguousFree ==
  \A p \in FreeBlocks(heap) : Alloc(heap, NEXT_BLKP(heap, p))

(***************************************************************************)
(* A block is free exactly if it is on the list of its size class          *)
(* (mm_check, mm.c:639-676): links of neighbours agree, the first block    *)
(* has no predecessor and following the links from the heads meets every   *)
(* free block.                                                             *)
(***************************************************************************)
FreeListsExact ==
  LET M == heap
      class(p) == get_block_index(Size(M, p))
      from[p \in DOMAIN M.link \cup {0}] ==
        IF p = 0 THEN {} ELSE {p} \cup from[M.link[p].succ]
  IN
  /\ DOMAIN M.link = FreeBlocks(M)
  /\ \A p \in DOMAIN M.link :
       LET prev == M.link[p].pred
           next == M.link[p].succ
       IN  /\ next # 0 => next \in DOMAIN M.link /\ class(next) = class(p)
                          /\ M.link[next].pred = p
           /\ prev # 0 => prev \in DOMAIN M.link /\ M.link[prev].succ = p
           /\ prev = 0 => M.head[class(p)] = p
  /\ \A i \in DOMAIN M.head : M.head[i] # 0 =>
       class(M.head[i]) = i /\ M.link[M.head[i]].pred = 0
  /\ UNION {from[M.head[i]] : i \in DOMAIN M.head} = DOMAIN M.link

(***************************************************************************)
(* The allocated blocks are the live ones, each large enough for its       *)
(* payload: nothing leaks, not even when realloc moves a block or fails.   *)
(***************************************************************************)
OwnedExactly ==
  /\ \A h \in A!InUse :
       /\ live[h].ptr \in Blocks(heap) /\ Alloc(heap, live[h].ptr)
       /\ live[h].size + OVERHEAD <= Size(heap, live[h].ptr)
  /\ Blocks(heap) \ FreeBlocks(heap) = {live[h].ptr : h \in A!InUse}

\* No free block holds the request.
NoFit(size) == \A p \in FreeBlocks(heap) : Size(heap, p) < asize(size)

(***************************************************************************)
(* "If no suitable block is found, then increase the brk pointer" (mm.c:6) *)
(* and only then: outside the sizes treated apart, malloc extends the heap *)
(* if no free block fits, by what it needs, and returns NULL only if       *)
(* mem_max_addr stands against it, leaving the heap as it was.                 *)
(***************************************************************************)
MallocExtends(h, size) ==
  /\ heap'.brk # heap.brk => NoFit(size) /\ heap'.brk - heap.brk
                                              = Bigger(asize(size), CHUNKSIZE)
  /\ live'[h] = A!Dead => /\ heap' = heap /\ NoFit(size)
                          /\ heap.brk + Bigger(asize(size), CHUNKSIZE) > heap.max

ExtendsWhenNeeded ==
  [][\A h \in Handles, size \in trace.sizes \ {112, 448} :
       Malloc(h, size) => MallocExtends(h, size)]_vars

(***************************************************************************)
(* A realloc that returns NULL may have extended the heap (mm.c:532-550)   *)
(* but has neither moved nor resized a block; one that succeeds touches no *)
(* block of another request.                                               *)
(***************************************************************************)
ReallocSparesOthers ==
  [][\A h \in Handles, size \in trace.sizes : Realloc(h, size) =>
       \A k \in A!InUse : k # h \/ live'[h] = live[h] =>
         /\ live[k].ptr \in DOMAIN heap'.hdr
         /\ heap'.hdr[live[k].ptr] = heap.hdr[live[k].ptr]]_vars

(***************************************************************************)
(* The allocator implements Allocator: every payload it hands out is one   *)
(* that the driver's add_range accepts (mdriver.c:351-381), in the heap as *)
(* far as its break has come by then, and the break never goes back.       *)
(***************************************************************************)
ImplementsAllocator == A!Spec

(***************************************************************************)
(* A payload that overlaps another is refused by the driver: "The payload   *)
(* must not overlap any other payloads" (mdriver.c:377).  The code breaks  *)
(* it twice: a block of 4095 bytes lies at a fixed address whatever is     *)
(* there (mm.c:239), and add_range misses a payload around an old one.     *)
(***************************************************************************)
OverlapsAreRefused ==
  [][\A h \in Handles :
       live'[h] # live[h] /\ live'[h] # A!Dead /\ A!Overlaps(h, live'[h])
         => ~A!add_range(h, live'[h], heap'.brk)]_vars

(***************************************************************************)
(* The bytes the driver has filled a block with ("fill range with low byte *)
(* of index", mdriver.c:590) stay there until the block is given back.     *)
(* The code breaks it: mm_free takes a byte ~0 of another block for a mark *)
(* of its own, clears it, and frees nothing (mm.c:430-439).                *)
(***************************************************************************)
PayloadsKept ==
  \A h \in A!InUse :
    IF h \in Ones THEN Fill(live[h]) \subseteq heap.marks
                  ELSE \A a \in heap.marks : ~A!Holds(live[h], a)

(***************************************************************************)
(* "find_last_fit - search last fit free block in the heap" (mm.c:376).    *)
(* The code breaks it: it returns the last block even if that is too small *)
(* or allocated, and place then writes behind it.                          *)
(***************************************************************************)
LastFitFits ==
  LET p == find_last_fit(heap) IN
  FirstSize(heap) \in Small =>
    \A size \in trace.sizes \cap {112, 448} :
      \/ NoFit(size)
      \/ p \in FreeBlocks(heap) /\ asize(size) <= Size(heap, p)
=============================================================================
