-------------------------------- MODULE Heap --------------------------------
(***************************************************************************)
(* The memory that the allocator of src/lab7/mm.c manages: blocks with a   *)
(* header and a footer, sixteen doubly linked lists of free blocks, and    *)
(* the break of memlib.c.  Addresses count from the start of the heap.     *)
(*                                                                         *)
(* A heap is a record and a routine of the code an operator from heaps to  *)
(* heaps.  Only the words the routines read are kept:                      *)
(*   hdr[p]     size and allocated bit in the word below block pointer p   *)
(*   ftr[p]     the same in the footer of the block that ends at p         *)
(*   link[p]    predecessor and successor in the free block p, 0 is NULL   *)
(*   head[i]    free_listp[i]                                              *)
(*   brk, max   mem_brk, where the epilogue header is, and mem_max_addr     *)
(*   marks      the addresses whose byte is ~0 (see Malloc), among those   *)
(*              that are 7 modulo 8, the only ones that are read           *)
(*   state      "ok"; "corrupt" once a routine has taken bytes of a client *)
(*              for links or tags, or has overwritten a header; "hung" in  *)
(*              a loop without end.  The model stops in the last two.      *)
(***************************************************************************)
EXTENDS Integers

CHUNKSIZE == 4096
LIST_NUM  == 16
OVERHEAD  == 8
MinBlock  == 24
heap_listp == 8     \* the prologue block

Tags == [size : Nat, alloc : BOOLEAN]

Size(M, p)  == M.hdr[p].size
Alloc(M, p) == M.hdr[p].alloc

NEXT_BLKP(M, p) == p + M.hdr[p].size
PREV_BLKP(M, p) == p - M.ftr[p].size

\* The header of a block that ends the heap: size 0, allocated.
IsEpilogue(M, p) == Size(M, p) = 0 /\ Alloc(M, p)

FirstSize(M) == Size(M, NEXT_BLKP(M, heap_listp))

\* Header and footer of the block at p; what was tagged inside it is forgotten.
Put(M, p, size, alloc) ==
  LET tag == [size |-> size, alloc |-> alloc]
      hs  == {a \in DOMAIN M.hdr : a < p \/ a >= p + size} \cup {p}
      fs  == {a \in DOMAIN M.ftr : a <= p \/ a > p + size} \cup {p + size}
  IN  [M EXCEPT !.hdr   = [a \in hs |-> IF a = p THEN tag ELSE M.hdr[a]],
                !.ftr   = [a \in fs |-> IF a = p + size THEN tag ELSE M.ftr[a]],
                !.marks = @ \ {p - 1}]

\* get_block_index; the k-th list ends at the k-th limit, the last has none.
Limit == [i \in 0..LIST_NUM - 2 |-> IF i = 0 THEN 40 ELSE 64 * 2^i]

get_block_index(size) ==
  LET over == {i \in DOMAIN Limit : size <= Limit[i]}
  IN  IF over = {} THEN LIST_NUM - 1
      ELSE CHOOSE i \in over : \A k \in over : i <= k

\* The bytes of two link words lose their marks.
Unmark(M, p) == [M EXCEPT !.marks = @ \ {p + 7, p + 15}]

insert_block(M, p) ==
  LET i    == get_block_index(Size(M, p))
      next == M.head[i]
      L    == [b \in DOMAIN M.link \cup {p} |->
                 IF b = p THEN [pred |-> 0, succ |-> next]
                 ELSE IF b = next THEN [M.link[b] EXCEPT !.pred = p]
                 ELSE M.link[b]]
  IN  [Unmark(M, p) EXCEPT !.link = L, !.head[i] = p]

\* Mutant of remove_block: the head of any list whose first block goes is cleared.
remove_blockDropsList(M, p) ==
  LET i == get_block_index(Size(M, p))
      L == [b \in DOMAIN M.link \ {p} |-> M.link[b]]
  IN  [M EXCEPT !.link = L, !.head[i] = IF M.link[p].pred = 0 THEN 0 ELSE @]

\* The four cases of remove_block: each neighbour, or the head, skips p.
remove_block(M, p) ==
  LET i    == get_block_index(Size(M, p))
      prev == M.link[p].pred
      next == M.link[p].succ
      L    == [b \in DOMAIN M.link \ {p} |->
                 [pred |-> IF b = next THEN prev ELSE M.link[b].pred,
                  succ |-> IF b = prev THEN next ELSE M.link[b].succ]]
  IN  IF p \notin DOMAIN M.link
      THEN [M EXCEPT !.state = "corrupt"]
      ELSE [Unmark(M, p) EXCEPT !.link = L, !.head[i] = IF prev = 0 THEN next ELSE @]

\* A heap and the pointer a routine returns with it
Result(M, p) == [heap |-> M, ptr |-> p]

\* Mutant of coalesce: it looks behind the block only.
coalesceForward(M, p) ==
  LET next == NEXT_BLKP(M, p)
      M1   == Put(remove_block(M, next), p, Size(M, p) + Size(M, next), FALSE)
  IN  Result(insert_block(IF Alloc(M, next) THEN M ELSE M1, p), p)

\* Join the free block p with its free neighbours and list the result.
coalesce(M, p) ==
  LET prev     == PREV_BLKP(M, p)
      next     == NEXT_BLKP(M, p)
      prevFree == ~M.ftr[prev + Size(M, prev)].alloc
      nextFree == ~Alloc(M, next)
      start    == IF prevFree THEN prev ELSE p
      size     == Size(M, p) + (IF prevFree THEN Size(M, prev) ELSE 0)
                             + (IF nextFree THEN Size(M, next) ELSE 0)
      M1       == IF prevFree THEN remove_block(M, prev) ELSE M
      M2       == IF nextFree THEN remove_block(M1, next) ELSE M1
  IN  Result(insert_block(Put(M2, start, size, FALSE), start), start)

\* mem_sbrk fails above mem_max_addr and extend_heap then returns NULL.
extend_heap(M, words) ==
  LET size == IF words % 2 = 1 THEN (words + 1) * 4 ELSE words * 4
      p    == M.brk
      M1   == Unmark(Put([M EXCEPT !.brk = p + size], p, size, FALSE), p)
      hs   == DOMAIN M1.hdr \cup {p + size}
      M2   == [M1 EXCEPT !.hdr = [a \in hs |-> IF a = p + size
                                                THEN [size |-> 0, alloc |-> TRUE]
                                                ELSE M1.hdr[a]]]
  IN  IF p + size > M.max THEN Result(M, 0)
      ELSE coalesce([M2 EXCEPT !.marks = @ \ {p + size - 1}], p)

\* mem_init reserves max bytes; mm_init
mm_init(max) ==
  LET prologue == [size |-> 8, alloc |-> TRUE]
      epilogue == [size |-> 0, alloc |-> TRUE]
      empty    == [hdr   |-> [a \in {8, 16} |-> IF a = 8 THEN prologue ELSE epilogue],
                   ftr   |-> [a \in {16} |-> prologue],
                   link  |-> [a \in {} |-> [pred |-> 0, succ |-> 0]],
                   head  |-> [i \in 0..LIST_NUM - 1 |-> 0],
                   brk   |-> 16, max |-> max, marks |-> {}, state |-> "ok"]
  IN  extend_heap(empty, CHUNKSIZE \div 4).heap

\* The first block from p on along the list of p that holds size bytes
FirstFit(M, size, p) ==
  LET fit[b \in DOMAIN M.link \cup {0}] ==
        IF b = 0 \/ size <= Size(M, b) THEN b ELSE fit[M.link[b].succ]
  IN  fit[p]

\* Mutant of find_fit: it skips the list of the size's own class.
find_fitNextClass(M, size) ==
  LET S == {i \in get_block_index(size) + 1 .. LIST_NUM - 1 :
              FirstFit(M, size, M.head[i]) # 0}
  IN  IF S = {} THEN 0
      ELSE FirstFit(M, size, M.head[CHOOSE i \in S : \A k \in S : i <= k])

\* find_fit: the lists from that of the size upwards
find_fit(M, size) ==
  LET from[i \in 0..LIST_NUM] ==
        IF i = LIST_NUM THEN 0
        ELSE LET p == FirstFit(M, size, M.head[i])
             IN  IF p # 0 THEN p ELSE from[i + 1]
  IN  from[get_block_index(size)]

FreeBlocks(M) == {p \in DOMAIN M.hdr : ~Alloc(M, p)}

\* find_first_fit scans the blocks by address and does not stop at the
\* epilogue, the successor of which is itself: 0 stands for that loop.
find_first_fit(M, size) ==
  LET S == {p \in FreeBlocks(M) : size <= Size(M, p)}
  IN  IF S = {} THEN 0 ELSE CHOOSE p \in S : \A q \in S : p <= q

\* find_last_fit tests neither the size nor the allocated bit.
find_last_fit(M) == PREV_BLKP(M, M.brk)

\* place; csize - asize is unsigned, so a block too small is split as well.
place(M, p, asize) ==
  LET csize == Size(M, p)
      M1    == remove_block(M, p)
      rest  == p + asize
  IN  IF csize < asize THEN [M1 EXCEPT !.state = "corrupt"]
      ELSE IF csize - asize < MinBlock THEN Put(M1, p, csize, TRUE)
      ELSE insert_block(Put(Put(M1, p, asize, TRUE), rest, csize - asize, FALSE), rest)
=============================================================================
