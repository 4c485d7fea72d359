----------------------------- MODULE Allocator -----------------------------
(***************************************************************************)
(* What mm.c promises its clients: the driver src/lab7/mdriver.c keeps the *)
(* range of every payload and refuses one that is not aligned, is not in   *)
(* the heap as far as it reaches after the call (mem_heap_lo() up to       *)
(* mem_heap_hi(), the byte before the break of memlib.c) or overlaps       *)
(* another (add_range).  A request may fail.                               *)
(*                                                                         *)
(* The promise is Accepts.  The test that the driver makes of it,          *)
(* add_range, looks only whether an end of the new payload lies in an old  *)
(* one, and so overlooks a new payload around an old one.                  *)
(***************************************************************************)
EXTENDS Integers

CONSTANTS Handles,    \* the block numbers of a trace
          HeapLo,     \* mem_start_brk, the first address of the heap
          MaxHeap,    \* mem_max_addr, above which mem_sbrk fails
          ALIGNMENT

VARIABLES live,       \* live[h]: the payload of block h, or Dead
          brk         \* mem_brk: the heap is HeapLo..brk - 1

Dead    == [ptr |-> 0, size |-> 0]
Payload == [ptr : Nat \ {0}, size : Nat \ {0}]
InUse   == {h \in Handles : live[h] # Dead}

Apart(a, b) == a.ptr + a.size <= b.ptr \/ b.ptr + b.size <= a.ptr

\* b is aligned and lies in the heap that ends at the break end.
Fits(b, end) == /\ b.ptr % ALIGNMENT = 0
                /\ HeapLo <= b.ptr /\ b.ptr + b.size <= end

\* lo..hi of the payload b
Holds(b, address) == b.ptr <= address /\ address < b.ptr + b.size

\* add_range takes b as the payload of h when the break is at end.
add_range(h, b, end) ==
  /\ Fits(b, end)
  /\ \A k \in InUse \ {h} : /\ ~Holds(live[k], b.ptr)
                            /\ ~Holds(live[k], b.ptr + b.size - 1)

Overlaps(h, b) == \E k \in InUse \ {h} : ~Apart(b, live[k])

Accepts(h, b, end) ==
  b \in Payload /\ add_range(h, b, end) /\ ~Overlaps(h, b)

\* The initialization may have moved the break.
Init == /\ live = [h \in Handles |-> Dead]
        /\ brk \in HeapLo..MaxHeap

\* "In this model, the heap cannot be shrunk" (memlib.c:55-56).
mem_sbrk == brk' \in brk..MaxHeap

\* malloc, or realloc of a block that may move
Give(h) == /\ mem_sbrk
           /\ Accepts(h, live'[h], brk')
           /\ live' = [live EXCEPT ![h] = live'[h]]

Free(h) == /\ h \in InUse
           /\ live' = [live EXCEPT ![h] = Dead]
           /\ UNCHANGED brk

\* A request that fails may have moved the break.
Fail == mem_sbrk /\ UNCHANGED live

Next == Fail \/ \E h \in Handles : Give(h) \/ Free(h)

Spec == Init /\ [][Next]_<<live, brk>>
=============================================================================
