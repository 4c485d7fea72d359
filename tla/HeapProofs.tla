----------------------------- MODULE HeapProofs -----------------------------
(***************************************************************************)
(* Lemmas about the routines of module Heap: what each does to the tiling  *)
(* of the heap by its blocks, and to the lists of the free ones.           *)
(***************************************************************************)
EXTENDS Heap, TLAPS, NatLemmas

----------------------------------------------------------------------------
(* The record. *)

Fields == {"hdr", "ftr", "link", "head", "brk", "max", "marks", "state"}

IsHeap(M) == M = [f \in Fields |-> M[f]]

\* What a routine that works on headers and footers leaves alone
SameLists(M, N) == /\ N.link = M.link /\ N.head = M.head
                   /\ N.max = M.max /\ N.state = M.state

\* What a routine that works on links leaves alone
SameTiles(M, N) == /\ N.hdr = M.hdr /\ N.ftr = M.ftr /\ N.brk = M.brk
                   /\ N.max = M.max /\ N.state = M.state

\* Put writes one header and one footer, and forgets those inside the block.
LEMMA PutWrites ==
  ASSUME NEW M, IsHeap(M), NEW p, NEW size, NEW alloc
  PROVE  LET R   == Put(M, p, size, alloc)
             tag == [size |-> size, alloc |-> alloc]
         IN  /\ IsHeap(R) /\ SameLists(M, R) /\ R.brk = M.brk
             /\ R.marks = M.marks \ {p - 1}
             /\ DOMAIN R.hdr = {a \in DOMAIN M.hdr : a < p \/ a >= p + size} \cup {p}
             /\ R.hdr[p] = tag
             /\ \A a \in DOMAIN R.hdr : a # p => R.hdr[a] = M.hdr[a]
             /\ DOMAIN R.ftr = {a \in DOMAIN M.ftr : a <= p \/ a > p + size} \cup {p + size}
             /\ R.ftr[p + size] = tag
             /\ \A a \in DOMAIN R.ftr : a # p + size => R.ftr[a] = M.ftr[a]
<1> DEFINE tag == [size |-> size, alloc |-> alloc]
           hs  == {a \in DOMAIN M.hdr : a < p \/ a >= p + size} \cup {p}
           fs  == {a \in DOMAIN M.ftr : a <= p \/ a > p + size} \cup {p + size}
           H   == [a \in hs |-> IF a = p THEN tag ELSE M.hdr[a]]
           F   == [a \in fs |-> IF a = p + size THEN tag ELSE M.ftr[a]]
           R   == Put(M, p, size, alloc)
<1>1. R = [M EXCEPT !.hdr = H, !.ftr = F, !.marks = @ \ {p - 1}]
  BY DEF Put
<1>2. /\ DOMAIN H = hs /\ H[p] = tag /\ \A a \in hs : a # p => H[a] = M.hdr[a]
      /\ DOMAIN F = fs /\ F[p + size] = tag /\ \A a \in fs : a # p + size => F[a] = M.ftr[a]
  OBVIOUS
<1> HIDE DEF H, F, R
<1>3. /\ IsHeap(R) /\ R.hdr = H /\ R.ftr = F /\ R.marks = M.marks \ {p - 1}
      /\ R.link = M.link /\ R.head = M.head /\ R.brk = M.brk /\ R.max = M.max
      /\ R.state = M.state
  BY <1>1 DEF IsHeap, Fields
<1> QED
  BY <1>2, <1>3 DEF SameLists, R

\* insert_block makes p the head of its list.
LEMMA InsertWrites ==
  ASSUME NEW M, IsHeap(M), NEW p
  PROVE  LET R    == insert_block(M, p)
             i    == get_block_index(Size(M, p))
             next == M.head[i]
         IN  /\ IsHeap(R) /\ SameTiles(M, R) /\ R.marks \subseteq M.marks
             /\ DOMAIN R.link = DOMAIN M.link \cup {p}
             /\ R.link[p] = [pred |-> 0, succ |-> next]
             /\ \A b \in DOMAIN M.link :
                  b # p => R.link[b] = IF b = next THEN [M.link[b] EXCEPT !.pred = p]
                                       ELSE M.link[b]
             /\ R.head = [M.head EXCEPT ![i] = p]
<1> DEFINE i    == get_block_index(Size(M, p))
           next == M.head[i]
           L    == [b \in DOMAIN M.link \cup {p} |->
                      IF b = p THEN [pred |-> 0, succ |-> next]
                      ELSE IF b = next THEN [M.link[b] EXCEPT !.pred = p]
                      ELSE M.link[b]]
           U    == Unmark(M, p)
           R    == insert_block(M, p)
<1>1. /\ DOMAIN L = DOMAIN M.link \cup {p} /\ L[p] = [pred |-> 0, succ |-> next]
      /\ \A b \in DOMAIN M.link :
           b # p => L[b] = IF b = next THEN [M.link[b] EXCEPT !.pred = p] ELSE M.link[b]
  OBVIOUS
<1>2. R = [U EXCEPT !.link = L, !.head[i] = p]
  BY DEF insert_block
<1>3. /\ IsHeap(U) /\ SameTiles(M, U) /\ U.marks \subseteq M.marks
      /\ U.link = M.link /\ U.head = M.head
  BY DEF Unmark, IsHeap, Fields, SameTiles
<1> HIDE DEF L, U, R
<1>4. /\ IsHeap(R) /\ SameTiles(U, R) /\ R.marks = U.marks
      /\ R.link = L /\ R.head = [U.head EXCEPT ![i] = p]
  BY <1>2, <1>3 DEF IsHeap, Fields, SameTiles
<1> QED
  BY <1>1, <1>3, <1>4 DEF SameTiles, R

\* remove_block takes a listed block p off its list.
LEMMA RemoveWrites ==
  ASSUME NEW M, IsHeap(M), NEW p \in DOMAIN M.link
  PROVE  LET R    == remove_block(M, p)
             i    == get_block_index(Size(M, p))
             prev == M.link[p].pred
             next == M.link[p].succ
         IN  /\ IsHeap(R) /\ SameTiles(M, R) /\ R.marks \subseteq M.marks
             /\ DOMAIN R.link = DOMAIN M.link \ {p}
             /\ \A b \in DOMAIN R.link :
                  R.link[b] = [pred |-> IF b = next THEN prev ELSE M.link[b].pred,
                               succ |-> IF b = prev THEN next ELSE M.link[b].succ]
             /\ R.head = [M.head EXCEPT ![i] = IF prev = 0 THEN next ELSE M.head[i]]
<1> DEFINE i    == get_block_index(Size(M, p))
           prev == M.link[p].pred
           next == M.link[p].succ
           L    == [b \in DOMAIN M.link \ {p} |->
                      [pred |-> IF b = next THEN prev ELSE M.link[b].pred,
                       succ |-> IF b = prev THEN next ELSE M.link[b].succ]]
           U    == Unmark(M, p)
           R    == remove_block(M, p)
<1>1. /\ DOMAIN L = DOMAIN M.link \ {p}
      /\ \A b \in DOMAIN L : L[b] = [pred |-> IF b = next THEN prev ELSE M.link[b].pred,
                                     succ |-> IF b = prev THEN next ELSE M.link[b].succ]
  OBVIOUS
<1>2. R = [U EXCEPT !.link = L, !.head[i] = IF prev = 0 THEN next ELSE @]
  BY DEF remove_block
<1>3. /\ IsHeap(U) /\ SameTiles(M, U) /\ U.marks \subseteq M.marks
      /\ U.link = M.link /\ U.head = M.head
  BY DEF Unmark, IsHeap, Fields, SameTiles
<1> HIDE DEF L, U, R
<1>4. /\ IsHeap(R) /\ SameTiles(U, R) /\ R.marks = U.marks /\ R.link = L
      /\ R.head = [U.head EXCEPT ![i] = IF prev = 0 THEN next ELSE U.head[i]]
  BY <1>2, <1>3 DEF IsHeap, Fields, SameTiles
<1> QED
  BY <1>1, <1>3, <1>4 DEF SameTiles, R

----------------------------------------------------------------------------
(* The blocks tile the heap from the prologue to the epilogue. *)

Ends(M) ==
  /\ heap_listp \in DOMAIN M.hdr /\ M.hdr[heap_listp] = [size |-> 8, alloc |-> TRUE]
  /\ M.brk \in DOMAIN M.hdr /\ M.hdr[M.brk] = [size |-> 0, alloc |-> TRUE]
  /\ M.brk # heap_listp

Places(M) == \A p \in DOMAIN M.hdr :
               /\ p \in Nat /\ p % 8 = 0 /\ heap_listp <= p /\ p <= M.brk
               /\ M.hdr[p] \in Tags

\* The block at p ends where the next one begins, with a footer like its header.
Tile(M, p) ==
  /\ Size(M, p) % 8 = 0 /\ Size(M, p) >= IF p = heap_listp THEN 8 ELSE MinBlock
  /\ NEXT_BLKP(M, p) \in DOMAIN M.hdr \cap DOMAIN M.ftr
  /\ M.ftr[NEXT_BLKP(M, p)] = M.hdr[p]
  /\ \A q \in DOMAIN M.hdr : q <= p \/ NEXT_BLKP(M, p) <= q

Reached(M, q) == \E p \in DOMAIN M.hdr \ {M.brk} : q = NEXT_BLKP(M, p)

Tiled(M) == /\ Ends(M) /\ Places(M)
            /\ \A p \in DOMAIN M.hdr \ {M.brk} : Tile(M, p)
            /\ \A q \in DOMAIN M.hdr \ {heap_listp} : Reached(M, q)

\* A block that holds the heap's data
Block(M, p) == p \in DOMAIN M.hdr \ {heap_listp, M.brk}

\* A block ends behind its beginning and not behind the break.
LEMMA BlockFacts ==
  ASSUME NEW M, Tiled(M), NEW p \in DOMAIN M.hdr, p # M.brk
  PROVE  /\ p \in Nat /\ Size(M, p) \in Nat /\ Alloc(M, p) \in BOOLEAN
         /\ NEXT_BLKP(M, p) \in Nat /\ NEXT_BLKP(M, p) = p + Size(M, p)
         /\ p < NEXT_BLKP(M, p) /\ NEXT_BLKP(M, p) <= M.brk
         /\ M.brk \in Nat /\ p < M.brk
         /\ M.hdr[p] = [size |-> Size(M, p), alloc |-> Alloc(M, p)]
<1>1. /\ p \in Nat /\ M.hdr[p] \in Tags /\ M.brk \in Nat /\ Tile(M, p) /\ p <= M.brk
      /\ \A q \in DOMAIN M.hdr : q <= M.brk
  BY DEF Tiled, Places, Ends
<1>2. /\ Size(M, p) \in Nat /\ Alloc(M, p) \in BOOLEAN
      /\ M.hdr[p] = [size |-> Size(M, p), alloc |-> Alloc(M, p)]
  BY <1>1 DEF Size, Alloc, Tags
<1>3. NEXT_BLKP(M, p) = p + Size(M, p) /\ Size(M, p) > 0
  BY <1>1, <1>2 DEF NEXT_BLKP, Size, Tile, MinBlock
<1>4. NEXT_BLKP(M, p) <= M.brk
  BY <1>1 DEF Tile
<1> QED
  BY <1>1, <1>2, <1>3, <1>4

\* Blocks that agree in their tags
LEMMA SameTile ==
  ASSUME NEW M, NEW N, NEW p, N.hdr[p] = M.hdr[p]
  PROVE  /\ Size(N, p) = Size(M, p) /\ Alloc(N, p) = Alloc(M, p)
         /\ NEXT_BLKP(N, p) = NEXT_BLKP(M, p)
BY DEF Size, Alloc, NEXT_BLKP

\* A routine that works on links leaves the tiling.
LEMMA TiledStays ==
  ASSUME NEW M, NEW N, Tiled(M), SameTiles(M, N)
  PROVE  Tiled(N)
<1>1. N.hdr = M.hdr /\ N.ftr = M.ftr /\ N.brk = M.brk
  BY DEF SameTiles
<1>2. \A p : Tile(M, p) => Tile(N, p)
  BY <1>1 DEF Tile, Size, NEXT_BLKP
<1>3. \A q : Reached(M, q) => Reached(N, q)
  BY <1>1 DEF Reached, NEXT_BLKP
<1> QED
  BY <1>1, <1>2, <1>3 DEF Tiled, Ends, Places

\* The blocks of M between lo and hi have given way to those of I.
Refit(M, N, lo, hi, I) ==
  /\ N.brk = M.brk
  /\ DOMAIN N.hdr = {q \in DOMAIN M.hdr : q < lo \/ q >= hi} \cup I
  /\ \A q \in DOMAIN M.hdr : q < lo \/ q >= hi => N.hdr[q] = M.hdr[q]
  /\ \A q \in DOMAIN M.hdr \cap DOMAIN M.ftr :
       q <= lo \/ q > hi => q \in DOMAIN N.ftr /\ N.ftr[q] = M.ftr[q]

\* The blocks of I tile lo..hi.
Fills(N, lo, hi, I) ==
  /\ lo \in I /\ Reached(N, hi)
  /\ \A q \in I : /\ q \in Nat /\ q % 8 = 0 /\ lo <= q /\ q < hi
                  /\ N.hdr[q] \in Tags /\ Tile(N, q)
                  /\ q = lo \/ Reached(N, q)

\* If the blocks of I tile lo..hi in place of those of M, all is tiled again.
LEMMA Retile ==
  ASSUME NEW M, Tiled(M), NEW N, NEW I,
         NEW lo \in DOMAIN M.hdr, NEW hi \in DOMAIN M.hdr,
         heap_listp < lo, lo < hi, Refit(M, N, lo, hi, I), Fills(N, lo, hi, I)
  PROVE  Tiled(N)
<1>1. /\ Ends(M) /\ Places(M) /\ lo \in Nat /\ hi \in Nat /\ hi <= M.brk
      /\ \A q \in DOMAIN M.hdr : q \in Nat /\ heap_listp <= q /\ q <= M.brk
      /\ N.brk = M.brk /\ M.brk \in Nat
  BY DEF Tiled, Places, Ends, Refit
<1> DEFINE Old == {q \in DOMAIN M.hdr : q < lo \/ q >= hi}
<1>2. /\ DOMAIN N.hdr = Old \cup I
      /\ \A q \in Old : q \in DOMAIN M.hdr /\ N.hdr[q] = M.hdr[q]
      /\ \A q \in DOMAIN M.hdr : q < lo \/ q >= hi => q \in Old
      /\ \A q \in Old : q \in Nat /\ q <= M.brk /\ heap_listp <= q /\ (q < lo \/ q >= hi)
      /\ \A q \in I : q \in Nat /\ lo <= q /\ q < hi
  BY <1>1 DEF Refit, Fills
<1> HIDE DEF Old
<1>3. Ends(N)
  BY <1>1, <1>2 DEF Ends, heap_listp
<1>4. Places(N)
  <2> SUFFICES ASSUME NEW p \in DOMAIN N.hdr
               PROVE  /\ p \in Nat /\ p % 8 = 0 /\ heap_listp <= p /\ p <= N.brk
                      /\ N.hdr[p] \in Tags
    BY DEF Places
  <2>1. CASE p \in Old
    BY <1>1, <1>2, <2>1 DEF Places
  <2>2. CASE p \in I
    BY <1>1, <1>2, <2>2 DEF Fills, heap_listp
  <2> QED
    BY <1>2, <2>1, <2>2
<1>5. ASSUME NEW p \in Old, p # M.brk
      PROVE  /\ Tile(M, p) /\ NEXT_BLKP(N, p) = NEXT_BLKP(M, p) /\ Size(N, p) = Size(M, p)
             /\ NEXT_BLKP(M, p) \in Old \cup {lo} /\ NEXT_BLKP(M, p) \in Nat
             /\ p < lo => NEXT_BLKP(M, p) <= lo
             /\ p >= hi => NEXT_BLKP(M, p) > hi
  <2>1. p \in DOMAIN M.hdr /\ Tile(M, p) /\ N.hdr[p] = M.hdr[p]
    BY <1>2, <1>5 DEF Tiled
  <2>2. /\ NEXT_BLKP(N, p) = NEXT_BLKP(M, p) /\ Size(N, p) = Size(M, p)
    BY <2>1, SameTile
  <2>3. NEXT_BLKP(M, p) \in DOMAIN M.hdr /\ NEXT_BLKP(M, p) \in Nat /\ p < NEXT_BLKP(M, p)
    BY <1>1, <1>5, <2>1, BlockFacts DEF Tile
  <2>4. \A q \in DOMAIN M.hdr : q <= p \/ NEXT_BLKP(M, p) <= q
    BY <2>1 DEF Tile
  <2>5. p < lo => NEXT_BLKP(M, p) <= lo
    BY <1>1, <1>2, <2>4
  <2>6. p >= hi => NEXT_BLKP(M, p) > hi
    BY <1>1, <1>2, <2>3
  <2>7. NEXT_BLKP(M, p) \in Old \cup {lo}
    BY <1>1, <1>2, <2>3, <2>5, <2>6
  <2> QED
    BY <2>1, <2>2, <2>3, <2>5, <2>6, <2>7
<1>6. ASSUME NEW p \in DOMAIN N.hdr \ {N.brk}
      PROVE  Tile(N, p)
  <2>1. CASE p \in I
    BY <2>1 DEF Fills
  <2>2. CASE p \in Old
    <3> DEFINE next == NEXT_BLKP(M, p)
    <3>1. /\ Tile(M, p) /\ NEXT_BLKP(N, p) = next /\ Size(N, p) = Size(M, p)
          /\ next \in Old \cup {lo} /\ next \in Nat
          /\ p < lo => next <= lo
          /\ p >= hi => next > hi
      BY <1>1, <1>5, <2>2
    <3>2. next \in DOMAIN N.hdr
      BY <1>2, <3>1 DEF Fills
    <3>3. next \in DOMAIN M.hdr \cap DOMAIN M.ftr /\ M.ftr[next] = M.hdr[p]
      BY <3>1 DEF Tile
    <3>4. next <= lo \/ next > hi
      BY <1>2, <2>2, <1>5, <1>1
    <3>5. next \in DOMAIN N.ftr /\ N.ftr[next] = N.hdr[p]
      BY <1>2, <2>2, <3>3, <3>4 DEF Refit
    <3>6. \A q \in DOMAIN N.hdr : q <= p \/ next <= q
      <4>1. \A q \in Old : q <= p \/ next <= q
        BY <1>2, <3>1 DEF Tile
      <4>2. \A q \in I : q <= p \/ next <= q
        BY <1>1, <1>2, <2>2, <1>5
      <4> QED
        BY <1>2, <4>1, <4>2
    <3> HIDE DEF next
    <3> QED
      BY <3>1, <3>2, <3>5, <3>6 DEF Tile
  <2> QED
    BY <1>2, <2>1, <2>2
<1>7. ASSUME NEW q \in DOMAIN N.hdr \ {heap_listp}
      PROVE  Reached(N, q)
  <2>1. ASSUME q \in DOMAIN M.hdr, q <= lo \/ q > hi
        PROVE  Reached(N, q)
    <3>1. PICK p \in DOMAIN M.hdr \ {M.brk} : q = NEXT_BLKP(M, p)
      BY <1>7, <2>1 DEF Tiled, Reached
    <3>2. p \in Nat /\ p < q /\ q \in Nat /\ Tile(M, p)
      BY <3>1, BlockFacts DEF Tiled
    <3>3. p < lo \/ p >= hi
      BY <1>1, <2>1, <3>1, <3>2 DEF Tile
    <3>4. p \in Old /\ p # N.brk
      BY <1>1, <1>2, <3>1, <3>3
    <3>5. q = NEXT_BLKP(N, p)
      BY <1>1, <1>5, <3>1, <3>4
    <3> QED
      BY <1>2, <3>4, <3>5 DEF Reached
  <2>2. CASE q \in I
    <3>1. lo # heap_listp
      BY <1>1 DEF heap_listp
    <3> QED
      BY <2>1, <2>2, <1>1 DEF Fills
  <2>3. CASE q \in Old
    <3>1. CASE q = hi
      BY <3>1 DEF Fills
    <3> QED
      BY <1>1, <1>2, <2>1, <2>3, <3>1
  <2> QED
    BY <1>2, <2>2, <2>3
<1> QED
  BY <1>3, <1>4, <1>6, <1>7 DEF Tiled

\* A region of whole blocks has room for at least one block.
LEMMA RegionFacts ==
  ASSUME NEW M, Tiled(M), NEW lo \in DOMAIN M.hdr, NEW hi \in DOMAIN M.hdr,
         heap_listp < lo, lo < hi
  PROVE  /\ lo \in Nat /\ hi \in Nat /\ lo % 8 = 0 /\ hi % 8 = 0
         /\ hi - lo >= MinBlock /\ (hi - lo) % 8 = 0 /\ hi - lo \in Nat
         /\ lo + (hi - lo) = hi /\ lo # M.brk /\ hi <= M.brk /\ M.brk \in Nat
<1>1. /\ lo \in Nat /\ hi \in Nat /\ lo % 8 = 0 /\ hi % 8 = 0 /\ hi <= M.brk /\ M.brk \in Nat
  BY DEF Tiled, Places, Ends
<1>2. lo # M.brk
  BY <1>1
<1>3. NEXT_BLKP(M, lo) <= hi /\ Size(M, lo) >= MinBlock
  BY <1>1, <1>2 DEF Tiled, Tile
<1>4. NEXT_BLKP(M, lo) = lo + Size(M, lo) /\ Size(M, lo) \in Nat
  BY <1>2, BlockFacts
<1>5. hi - lo >= MinBlock
  BY <1>1, <1>3, <1>4 DEF MinBlock
<1>6. (hi - lo) % 8 = 0
  BY <1>1
<1> QED
  BY <1>1, <1>2, <1>5, <1>6

\* One Put over a region of whole blocks
LEMMA PutOne ==
  ASSUME NEW M, IsHeap(M), Tiled(M), NEW lo \in DOMAIN M.hdr, NEW hi \in DOMAIN M.hdr,
         heap_listp < lo, lo < hi, NEW alloc \in BOOLEAN
  PROVE  LET R == Put(M, lo, hi - lo, alloc)
         IN  /\ IsHeap(R) /\ Tiled(R) /\ SameLists(M, R) /\ R.marks \subseteq M.marks
             /\ Refit(M, R, lo, hi, {lo})
             /\ R.hdr[lo] = [size |-> hi - lo, alloc |-> alloc]
<1> DEFINE R == Put(M, lo, hi - lo, alloc)
           tag == [size |-> hi - lo, alloc |-> alloc]
<1>1. /\ lo \in Nat /\ hi \in Nat /\ lo % 8 = 0 /\ hi - lo >= MinBlock
      /\ (hi - lo) % 8 = 0 /\ hi - lo \in Nat /\ lo + (hi - lo) = hi
  BY RegionFacts
<1>2. /\ IsHeap(R) /\ SameLists(M, R) /\ R.brk = M.brk
      /\ R.marks = M.marks \ {lo - 1}
      /\ DOMAIN R.hdr = {a \in DOMAIN M.hdr : a < lo \/ a >= lo + (hi - lo)} \cup {lo}
      /\ R.hdr[lo] = tag
      /\ \A a \in DOMAIN R.hdr : a # lo => R.hdr[a] = M.hdr[a]
      /\ DOMAIN R.ftr = {a \in DOMAIN M.ftr : a <= lo \/ a > lo + (hi - lo)} \cup {lo + (hi - lo)}
      /\ R.ftr[lo + (hi - lo)] = tag
      /\ \A a \in DOMAIN R.ftr : a # lo + (hi - lo) => R.ftr[a] = M.ftr[a]
  BY PutWrites
<1> HIDE DEF R
<1>3. \A q \in DOMAIN M.hdr : q \in Nat
  BY DEF Tiled, Places
<1>4. Refit(M, R, lo, hi, {lo})
  BY <1>1, <1>2, <1>3 DEF Refit
<1>5. tag \in Tags
  BY <1>1 DEF Tags
<1>6. Size(R, lo) = hi - lo /\ NEXT_BLKP(R, lo) = hi
  BY <1>1, <1>2 DEF Size, NEXT_BLKP
<1>7. hi \in DOMAIN R.hdr /\ hi \in DOMAIN R.ftr /\ R.ftr[hi] = R.hdr[lo]
  BY <1>1, <1>2
<1>8. \A q \in DOMAIN R.hdr : q <= lo \/ hi <= q
  BY <1>1, <1>2, <1>3
<1>9. lo # heap_listp
  BY <1>1 DEF heap_listp
<1>10. Tile(R, lo)
  BY <1>1, <1>6, <1>7, <1>8, <1>9 DEF Tile
<1>11. lo \in DOMAIN R.hdr \ {R.brk}
  BY <1>2, RegionFacts
<1>12. Reached(R, hi)
  BY <1>6, <1>11 DEF Reached
<1>13. Fills(R, lo, hi, {lo})
  BY <1>1, <1>2, <1>5, <1>10, <1>12 DEF Fills
<1>14. Tiled(R)
  BY <1>4, <1>13, Retile
<1>15. R.marks \subseteq M.marks
  BY <1>2
<1> QED
  BY <1>2, <1>4, <1>14, <1>15 DEF R

\* Two Puts, between which links may change, cut lo..hi at rest.
Cut(M, N, R, lo, rest, hi, alloc, alloc2) ==
  /\ lo \in DOMAIN M.hdr /\ hi \in DOMAIN M.hdr /\ heap_listp < lo
  /\ rest \in Nat /\ rest % 8 = 0 /\ rest - lo >= MinBlock /\ hi - rest >= MinBlock
  /\ alloc \in BOOLEAN /\ alloc2 \in BOOLEAN
  /\ IsHeap(N) /\ SameTiles(Put(M, lo, rest - lo, alloc), N)
  /\ R = Put(N, rest, hi - rest, alloc2)

\* Two Puts that cut a region of whole blocks keep the tiling.
LEMMA PutTwo ==
  ASSUME NEW M, IsHeap(M), Tiled(M), NEW N, NEW R, NEW lo, NEW rest, NEW hi,
         NEW alloc, NEW alloc2, Cut(M, N, R, lo, rest, hi, alloc, alloc2)
  PROVE  /\ IsHeap(R) /\ Tiled(R) /\ SameLists(N, R) /\ R.marks \subseteq N.marks
         /\ Refit(M, R, lo, hi, {lo, rest})
         /\ R.hdr[lo] = [size |-> rest - lo, alloc |-> alloc]
         /\ R.hdr[rest] = [size |-> hi - rest, alloc |-> alloc2]
<1> DEFINE x    == rest - lo
           left == hi - rest
           P    == Put(M, lo, x, alloc)
           tag  == [size |-> x, alloc |-> alloc]
           tag2 == [size |-> left, alloc |-> alloc2]
           I    == {lo, rest}
<1>0. /\ lo \in DOMAIN M.hdr /\ hi \in DOMAIN M.hdr /\ heap_listp < lo
      /\ rest \in Nat /\ rest % 8 = 0 /\ x >= MinBlock /\ left >= MinBlock
      /\ alloc \in BOOLEAN /\ alloc2 \in BOOLEAN
      /\ IsHeap(N) /\ SameTiles(P, N)
      /\ R = Put(N, rest, left, alloc2)
  BY DEF Cut
<1>1. /\ lo \in Nat /\ hi \in Nat /\ lo % 8 = 0 /\ hi % 8 = 0 /\ lo < hi /\ lo # M.brk
  <2>1. lo \in Nat /\ hi \in Nat
    BY <1>0 DEF Tiled, Places
  <2>2. lo < hi
    BY <1>0, <2>1 DEF MinBlock
  <2> QED
    BY <1>0, <2>2, RegionFacts
<1>2. /\ rest \in Nat /\ left \in Nat /\ rest + left = hi /\ lo < rest /\ rest < hi
      /\ x \in Nat /\ x % 8 = 0 /\ x >= MinBlock /\ lo + x = rest
      /\ rest % 8 = 0 /\ left % 8 = 0 /\ left >= MinBlock
  BY <1>0, <1>1 DEF MinBlock
<1>3. /\ IsHeap(P) /\ SameLists(M, P) /\ P.brk = M.brk
      /\ DOMAIN P.hdr = {a \in DOMAIN M.hdr : a < lo \/ a >= rest} \cup {lo}
      /\ P.hdr[lo] = tag
      /\ \A a \in DOMAIN P.hdr : a # lo => P.hdr[a] = M.hdr[a]
      /\ DOMAIN P.ftr = {a \in DOMAIN M.ftr : a <= lo \/ a > rest} \cup {rest}
      /\ P.ftr[rest] = tag
      /\ \A a \in DOMAIN P.ftr : a # rest => P.ftr[a] = M.ftr[a]
  BY <1>2, PutWrites
<1>4. N.hdr = P.hdr /\ N.ftr = P.ftr /\ N.brk = P.brk
  BY <1>0 DEF SameTiles
<1>5. /\ IsHeap(R) /\ SameLists(N, R) /\ R.brk = N.brk
      /\ R.marks = N.marks \ {rest - 1}
      /\ DOMAIN R.hdr = {a \in DOMAIN N.hdr : a < rest \/ a >= rest + left} \cup {rest}
      /\ R.hdr[rest] = tag2
      /\ \A a \in DOMAIN R.hdr : a # rest => R.hdr[a] = N.hdr[a]
      /\ DOMAIN R.ftr = {a \in DOMAIN N.ftr : a <= rest \/ a > rest + left} \cup {rest + left}
      /\ R.ftr[rest + left] = tag2
      /\ \A a \in DOMAIN R.ftr : a # rest + left => R.ftr[a] = N.ftr[a]
  BY <1>0, PutWrites
<1>6. \A q \in DOMAIN M.hdr : q \in Nat
  BY DEF Tiled, Places
<1>7. DOMAIN R.hdr = {q \in DOMAIN M.hdr : q < lo \/ q >= hi} \cup {lo, rest}
  <2>1. \A a \in DOMAIN P.hdr : a \in Nat
    BY <1>1, <1>3, <1>6
  <2>2. \A a \in DOMAIN R.hdr : a \in {q \in DOMAIN M.hdr : q < lo \/ q >= hi} \cup {lo, rest}
    BY <1>1, <1>2, <1>3, <1>4, <1>5, <1>6, <2>1
  <2>3. \A a \in {q \in DOMAIN M.hdr : q < lo \/ q >= hi} \cup {lo, rest} : a \in DOMAIN R.hdr
    BY <1>1, <1>2, <1>3, <1>4, <1>5, <1>6, <2>1
  <2> QED
    BY <2>2, <2>3
<1>8. /\ R.hdr[lo] = tag /\ R.hdr[rest] = tag2
      /\ \A q \in DOMAIN M.hdr : q < lo \/ q >= hi => R.hdr[q] = M.hdr[q]
  BY <1>1, <1>2, <1>3, <1>4, <1>5, <1>6
<1>9. rest \in DOMAIN R.ftr /\ R.ftr[rest] = tag /\ hi \in DOMAIN R.ftr /\ R.ftr[hi] = tag2
  BY <1>1, <1>2, <1>3, <1>4, <1>5
<1>10. \A q \in DOMAIN M.hdr \cap DOMAIN M.ftr :
         q <= lo \/ q > hi => q \in DOMAIN R.ftr /\ R.ftr[q] = M.ftr[q]
  BY <1>1, <1>2, <1>3, <1>4, <1>5, <1>6
<1>11. Refit(M, R, lo, hi, I)
  BY <1>3, <1>4, <1>5, <1>7, <1>8, <1>10 DEF Refit
<1>12. tag \in Tags /\ tag2 \in Tags
  BY <1>0, <1>2 DEF Tags
<1>13. /\ Size(R, lo) = x /\ NEXT_BLKP(R, lo) = rest
       /\ Size(R, rest) = left /\ NEXT_BLKP(R, rest) = hi
  BY <1>1, <1>2, <1>8 DEF Size, NEXT_BLKP
<1>14. lo # heap_listp /\ rest # heap_listp
  BY <1>0, <1>1, <1>2 DEF heap_listp
<1>15. \A q \in DOMAIN R.hdr : (q <= lo \/ rest <= q) /\ (q <= rest \/ hi <= q)
  BY <1>1, <1>2, <1>6, <1>7
<1>16. hi \in DOMAIN R.hdr /\ rest \in DOMAIN R.hdr /\ lo \in DOMAIN R.hdr
  BY <1>0, <1>1, <1>7
<1>17. Tile(R, lo)
  BY <1>2, <1>8, <1>9, <1>13, <1>14, <1>15, <1>16 DEF Tile
<1>18. Tile(R, rest)
  BY <1>2, <1>8, <1>9, <1>13, <1>14, <1>15, <1>16 DEF Tile
<1>19. R.brk = M.brk /\ M.brk \in Nat /\ hi <= M.brk
  BY <1>0, <1>1, <1>3, <1>4, <1>5, RegionFacts
<1>20. lo \in DOMAIN R.hdr \ {R.brk} /\ rest \in DOMAIN R.hdr \ {R.brk}
  BY <1>1, <1>2, <1>16, <1>19
<1>21. Reached(R, hi) /\ Reached(R, rest)
  BY <1>13, <1>20 DEF Reached
<1>22. Fills(R, lo, hi, I)
  <2> HIDE DEF tag, tag2, x, left
  <2> QED
    BY <1>1, <1>2, <1>8, <1>12, <1>17, <1>18, <1>21 DEF Fills
<1>23. Tiled(R)
  BY <1>0, <1>1, <1>11, <1>22, Retile
<1>24. R.marks \subseteq N.marks
  BY <1>5
<1> QED
  BY <1>5, <1>8, <1>11, <1>23, <1>24

----------------------------------------------------------------------------
(* More heap: a free block in front of a new epilogue. *)

Extended(M, size) ==
  LET p  == M.brk
      M1 == Unmark(Put([M EXCEPT !.brk = p + size], p, size, FALSE), p)
      hs == DOMAIN M1.hdr \cup {p + size}
      M2 == [M1 EXCEPT !.hdr = [a \in hs |-> IF a = p + size
                                              THEN [size |-> 0, alloc |-> TRUE]
                                              ELSE M1.hdr[a]]]
  IN  [M2 EXCEPT !.marks = @ \ {p + size - 1}]

\* extend_heap of a multiple of eight bytes asks for exactly those.
LEMMA ExtendsBy ==
  ASSUME NEW M, NEW size \in Nat, size % 8 = 0
  PROVE  extend_heap(M, size \div 4) =
           IF M.brk + size > M.max THEN Result(M, 0) ELSE coalesce(Extended(M, size), M.brk)
<1> DEFINE words == size \div 4
           n     == IF words % 2 = 1 THEN (words + 1) * 4 ELSE words * 4
<1>1. n = size
  OBVIOUS
<1>2. extend_heap(M, words) =
        IF M.brk + n > M.max THEN Result(M, 0) ELSE coalesce(Extended(M, n), M.brk)
  BY DEF extend_heap, Extended
<1> QED
  BY <1>1, <1>2

\* What is written to extend the heap
LEMMA ExtendedWrites ==
  ASSUME NEW M, IsHeap(M), NEW size
  PROVE  LET R == Extended(M, size)
             p == M.brk
             T == [size |-> size, alloc |-> FALSE]
         IN  /\ IsHeap(R) /\ SameLists(M, R) /\ R.brk = p + size
             /\ R.marks \subseteq M.marks
             /\ DOMAIN R.hdr = {a \in DOMAIN M.hdr : a < p \/ a >= p + size} \cup {p, p + size}
             /\ R.hdr[p + size] = [size |-> 0, alloc |-> TRUE]
             /\ p # p + size => R.hdr[p] = T
             /\ \A a \in DOMAIN R.hdr : a \notin {p, p + size} => R.hdr[a] = M.hdr[a]
             /\ DOMAIN R.ftr = {a \in DOMAIN M.ftr : a <= p \/ a > p + size} \cup {p + size}
             /\ R.ftr[p + size] = T
             /\ \A a \in DOMAIN R.ftr : a # p + size => R.ftr[a] = M.ftr[a]
<1> DEFINE p  == M.brk
           no == FALSE
           T  == [size |-> size, alloc |-> no]
           E  == [size |-> 0, alloc |-> TRUE]
           M0 == [M EXCEPT !.brk = p + size]
           P  == Put(M0, p, size, no)
           M1 == Unmark(P, p)
           H  == [a \in DOMAIN M1.hdr \cup {p + size} |->
                    IF a = p + size THEN E ELSE M1.hdr[a]]
           M2 == [M1 EXCEPT !.hdr = H]
           R  == Extended(M, size)
<1>1. R = [M2 EXCEPT !.marks = @ \ {p + size - 1}]
  BY DEF Extended
<1>2. IsHeap(M0) /\ SameLists(M, M0) /\ M0.hdr = M.hdr /\ M0.ftr = M.ftr
      /\ M0.brk = p + size /\ M0.marks = M.marks
  BY DEF IsHeap, Fields, SameLists
<1> HIDE DEF M0, no
<1>3. /\ IsHeap(P) /\ SameLists(M0, P) /\ P.brk = M0.brk
      /\ P.marks = M0.marks \ {p - 1}
      /\ DOMAIN P.hdr = {a \in DOMAIN M0.hdr : a < p \/ a >= p + size} \cup {p}
      /\ P.hdr[p] = T
      /\ \A a \in DOMAIN P.hdr : a # p => P.hdr[a] = M0.hdr[a]
      /\ DOMAIN P.ftr = {a \in DOMAIN M0.ftr : a <= p \/ a > p + size} \cup {p + size}
      /\ P.ftr[p + size] = T
      /\ \A a \in DOMAIN P.ftr : a # p + size => P.ftr[a] = M0.ftr[a]
  BY <1>2, PutWrites
<1> HIDE DEF P
<1>4. IsHeap(M1) /\ SameLists(P, M1) /\ M1.hdr = P.hdr /\ M1.ftr = P.ftr
      /\ M1.brk = P.brk /\ M1.marks \subseteq P.marks
  BY <1>3 DEF Unmark, IsHeap, Fields, SameLists
<1> HIDE DEF M1
<1>5. DOMAIN H = DOMAIN M1.hdr \cup {p + size} /\ H[p + size] = E
      /\ \A a \in DOMAIN M1.hdr : a # p + size => H[a] = M1.hdr[a]
  OBVIOUS
<1> HIDE DEF H
<1>6. IsHeap(M2) /\ SameLists(M1, M2) /\ M2.hdr = H /\ M2.ftr = M1.ftr
      /\ M2.brk = M1.brk /\ M2.marks = M1.marks
  BY <1>4 DEF IsHeap, Fields, SameLists
<1> HIDE DEF M2, R
<1>7. IsHeap(R) /\ SameLists(M2, R) /\ R.hdr = M2.hdr /\ R.ftr = M2.ftr
      /\ R.brk = M2.brk /\ R.marks \subseteq M2.marks
  BY <1>1, <1>6 DEF IsHeap, Fields, SameLists
<1>8. IsHeap(R) /\ SameLists(M, R) /\ R.brk = p + size /\ R.marks \subseteq M.marks
  BY <1>2, <1>3, <1>4, <1>6, <1>7 DEF SameLists
<1>9. /\ DOMAIN R.hdr = {a \in DOMAIN M.hdr : a < p \/ a >= p + size} \cup {p, p + size}
      /\ R.hdr[p + size] = E
      /\ p # p + size => R.hdr[p] = T
      /\ \A a \in DOMAIN R.hdr : a \notin {p, p + size} => R.hdr[a] = M.hdr[a]
  BY <1>2, <1>3, <1>4, <1>5, <1>6, <1>7
<1>10. /\ DOMAIN R.ftr = {a \in DOMAIN M.ftr : a <= p \/ a > p + size} \cup {p + size}
       /\ R.ftr[p + size] = T
       /\ \A a \in DOMAIN R.ftr : a # p + size => R.ftr[a] = M.ftr[a]
  BY <1>2, <1>3, <1>4, <1>6, <1>7
<1> QED
  BY <1>8, <1>9, <1>10 DEF R, no

\* A longer heap is tiled: the old epilogue has become a free block.
LEMMA ExtendedTiled ==
  ASSUME NEW M, IsHeap(M), Tiled(M), NEW size \in Nat, size % 8 = 0, size >= MinBlock
  PROVE  LET R == Extended(M, size)
             p == M.brk
         IN  /\ IsHeap(R) /\ Tiled(R) /\ SameLists(M, R) /\ R.brk = p + size
             /\ R.marks \subseteq M.marks /\ Block(R, p)
             /\ DOMAIN R.hdr = DOMAIN M.hdr \cup {p + size}
             /\ R.hdr[p] = [size |-> size, alloc |-> FALSE]
             /\ \A a \in DOMAIN M.hdr : a # p => R.hdr[a] = M.hdr[a]
<1> DEFINE p == M.brk
           R == Extended(M, size)
           T == [size |-> size, alloc |-> FALSE]
           end == p + size
<1>1. /\ p \in Nat /\ p % 8 = 0 /\ p \in DOMAIN M.hdr /\ p # heap_listp /\ heap_listp <= p
      /\ \A q \in DOMAIN M.hdr : q \in Nat /\ q <= p
  BY DEF Tiled, Places, Ends
<1>2. end \in Nat /\ p < end /\ end % 8 = 0 /\ end # p
  BY <1>1 DEF MinBlock
<1>3. /\ IsHeap(R) /\ SameLists(M, R) /\ R.brk = end /\ R.marks \subseteq M.marks
      /\ DOMAIN R.hdr = {a \in DOMAIN M.hdr : a < p \/ a >= end} \cup {p, end}
      /\ R.hdr[end] = [size |-> 0, alloc |-> TRUE]
      /\ p # end => R.hdr[p] = T
      /\ \A a \in DOMAIN R.hdr : a \notin {p, end} => R.hdr[a] = M.hdr[a]
      /\ DOMAIN R.ftr = {a \in DOMAIN M.ftr : a <= p \/ a > end} \cup {end}
      /\ R.ftr[end] = T
      /\ \A a \in DOMAIN R.ftr : a # end => R.ftr[a] = M.ftr[a]
  BY ExtendedWrites
<1> HIDE DEF R
<1>4. DOMAIN R.hdr = DOMAIN M.hdr \cup {end}
  BY <1>1, <1>2, <1>3
<1>5. \A a \in DOMAIN M.hdr : a # p => R.hdr[a] = M.hdr[a]
  BY <1>1, <1>2, <1>3, <1>4
<1>6. R.hdr[p] = T /\ T \in Tags
  BY <1>2, <1>3 DEF Tags
<1> HIDE DEF end
<1>7. Ends(R)
  BY <1>1, <1>2, <1>3, <1>4, <1>5 DEF Tiled, Ends, heap_listp
<1>8. Places(R)
  <2> SUFFICES ASSUME NEW q \in DOMAIN R.hdr
               PROVE  /\ q \in Nat /\ q % 8 = 0 /\ heap_listp <= q /\ q <= end
                      /\ R.hdr[q] \in Tags
    BY <1>3 DEF Places
  <2>1. CASE q = end
    <3>1. [size |-> 0, alloc |-> TRUE] \in Tags
      BY DEF Tags
    <3>2. heap_listp <= end
      BY <1>1, <1>2 DEF heap_listp
    <3> QED
      BY <1>2, <1>3, <2>1, <3>1, <3>2
  <2>2. CASE q = p
    BY <1>1, <1>2, <1>6, <2>2
  <2>3. CASE q \in DOMAIN M.hdr /\ q # p
    BY <1>1, <1>2, <1>5, <2>3 DEF Tiled, Places
  <2> QED
    BY <1>4, <2>1, <2>2, <2>3
<1>9. NEXT_BLKP(R, p) = end /\ Size(R, p) = size
  BY <1>6 DEF NEXT_BLKP, Size, end
<1>10. Tile(R, p)
  <2>1. end \in DOMAIN R.ftr /\ R.ftr[end] = R.hdr[p] /\ end \in DOMAIN R.hdr
    BY <1>3, <1>4, <1>6
  <2>2. \A q \in DOMAIN R.hdr : q <= p \/ end <= q
    BY <1>1, <1>2, <1>4
  <2> QED
    BY <1>1, <1>9, <2>1, <2>2 DEF Tile
<1>11. ASSUME NEW q \in DOMAIN M.hdr, q # p
       PROVE  Tile(R, q) /\ NEXT_BLKP(R, q) = NEXT_BLKP(M, q)
  <2> HIDE DEF p
  <2>1. q \in DOMAIN M.hdr \ {M.brk}
    BY <1>11 DEF p
  <2>2. Tile(M, q)
    BY <2>1 DEF Tiled
  <2>3. q < NEXT_BLKP(M, q) /\ NEXT_BLKP(M, q) <= p /\ NEXT_BLKP(M, q) \in Nat
    BY <2>1, BlockFacts DEF p
  <2>4. /\ NEXT_BLKP(R, q) = NEXT_BLKP(M, q) /\ Size(R, q) = Size(M, q)
        /\ R.hdr[q] = M.hdr[q]
    BY <1>5, <1>11, SameTile
  <2> DEFINE next == NEXT_BLKP(M, q)
  <2>5. next \in DOMAIN M.hdr /\ next \in DOMAIN M.ftr /\ M.ftr[next] = M.hdr[q]
        /\ \A s \in DOMAIN M.hdr : s <= q \/ next <= s
    BY <2>2 DEF Tile
  <2>6. next \in DOMAIN R.ftr /\ R.ftr[next] = R.hdr[q] /\ next \in DOMAIN R.hdr
    BY <1>1, <1>2, <1>3, <1>4, <2>3, <2>4, <2>5
  <2>7. \A s \in DOMAIN R.hdr : s <= q \/ next <= s
    BY <1>1, <1>2, <1>4, <2>3, <2>5
  <2> HIDE DEF next
  <2> QED
    BY <2>2, <2>4, <2>6, <2>7 DEF Tile, next
<1>12. \A q \in DOMAIN R.hdr \ {R.brk} : Tile(R, q)
  BY <1>3, <1>4, <1>10, <1>11
<1>13. ASSUME NEW q \in DOMAIN R.hdr \ {heap_listp}
       PROVE  Reached(R, q)
  <2>1. CASE q = end
    BY <1>1, <1>2, <1>3, <1>4, <1>9, <2>1 DEF Reached
  <2>2. CASE q \in DOMAIN M.hdr
    <3>1. PICK s \in DOMAIN M.hdr \ {p} : q = NEXT_BLKP(M, s)
      BY <2>2 DEF Tiled, Reached
    <3>2. s \in DOMAIN R.hdr \ {R.brk} /\ q = NEXT_BLKP(R, s)
      BY <1>1, <1>2, <1>3, <1>4, <1>11, <3>1
    <3> QED
      BY <3>2 DEF Reached
  <2> QED
    BY <1>4, <2>1, <2>2
<1>14. Tiled(R)
  BY <1>7, <1>8, <1>12, <1>13 DEF Tiled
<1>15. Block(R, p)
  BY <1>1, <1>2, <1>3, <1>4 DEF Block
<1> QED
  BY <1>3, <1>4, <1>5, <1>6, <1>14, <1>15 DEF R, end

----------------------------------------------------------------------------
(* The size classes. *)

Classes == 0..LIST_NUM - 1

\* get_block_index finds the first class with a limit that is not below.
LEMMA ClassFacts ==
  ASSUME NEW size \in Nat
  PROVE  /\ get_block_index(size) \in Classes
         /\ \A k \in DOMAIN Limit : size <= Limit[k] => get_block_index(size) <= k
         /\ \/ get_block_index(size) = LIST_NUM - 1
            \/ /\ get_block_index(size) \in DOMAIN Limit
               /\ size <= Limit[get_block_index(size)]
<1> DEFINE over == {i \in DOMAIN Limit : size <= Limit[i]}
           c    == get_block_index(size)
<1>1. c = IF over = {} THEN LIST_NUM - 1 ELSE CHOOSE i \in over : \A k \in over : i <= k
  BY DEF get_block_index
<1>2. DOMAIN Limit = 0..LIST_NUM - 2 /\ over \subseteq Nat
  BY DEF Limit, LIST_NUM
<1> HIDE DEF c
<1>3. CASE over = {}
  <2>1. c = LIST_NUM - 1
    BY <1>1, <1>3
  <2>2. \A k \in DOMAIN Limit : ~(size <= Limit[k])
    BY <1>3
  <2> QED
    BY <2>1, <2>2 DEF c, Classes, LIST_NUM
<1>4. CASE over # {}
  <2> HIDE DEF over
  <2>1. \E i \in over : \A k \in over : i <= k
    BY <1>2, <1>4, NatMin
  <2>2. c \in over /\ \A k \in over : c <= k
    BY <1>1, <1>4, <2>1
  <2> QED
    BY <1>2, <2>2 DEF over, c, Classes, LIST_NUM
<1> QED
  BY <1>3, <1>4

\* A larger size is in no lower class.
LEMMA ClassOrder ==
  ASSUME NEW small \in Nat, NEW large \in Nat, small <= large
  PROVE  get_block_index(small) <= get_block_index(large)
<1> DEFINE c == get_block_index(small)
           d == get_block_index(large)
<1>1. /\ c \in Classes /\ d \in Classes
      /\ \A k \in DOMAIN Limit : small <= Limit[k] => c <= k
      /\ d = LIST_NUM - 1 \/ (d \in DOMAIN Limit /\ large <= Limit[d])
  BY ClassFacts
<1> HIDE DEF c, d
<1>2. CASE d = LIST_NUM - 1
  BY <1>1, <1>2 DEF c, d, Classes, LIST_NUM
<1>3. CASE d \in DOMAIN Limit /\ large <= Limit[d]
  <2>1. \A i \in DOMAIN Limit : Limit[i] \in Int
    <3>1. \A i \in Nat : 2^i \in Int
      BY SMT
    <3> QED
      BY <3>1 DEF Limit, LIST_NUM
  <2>2. small <= Limit[d]
    BY <1>3, <2>1
  <2> QED
    BY <1>1, <1>3, <2>2 DEF c, d
<1> QED
  BY <1>1, <1>2, <1>3

----------------------------------------------------------------------------
(* The lists.  That a list has no loop and misses no block of its class is *)
(* said with ranks, the order in which its blocks were inserted: a list    *)
(* runs from the highest rank of its class to the lowest and skips none.   *)

Pred(M, b)  == M.link[b].pred
Succ(M, b)  == M.link[b].succ
Class(M, b) == get_block_index(Size(M, b))

\* Neighbours agree, and a head is a block without predecessor.
Linked(M) ==
  LET D == DOMAIN M.link IN
  /\ 0 \notin D
  /\ M.head \in [Classes -> D \cup {0}]
  /\ \A b \in D : /\ Size(M, b) \in Nat
                  /\ M.link[b] = [pred |-> Pred(M, b), succ |-> Succ(M, b)]
                  /\ Pred(M, b) \in D \cup {0} /\ Succ(M, b) \in D \cup {0}
                  /\ Succ(M, b) # 0 => /\ Class(M, Succ(M, b)) = Class(M, b)
                                       /\ Pred(M, Succ(M, b)) = b
                  /\ Pred(M, b) # 0 => Succ(M, Pred(M, b)) = b
                  /\ Pred(M, b) = 0 => M.head[Class(M, b)] = b
  /\ \A i \in Classes :
       M.head[i] # 0 => Class(M, M.head[i]) = i /\ Pred(M, M.head[i]) = 0

Ranked(M, rank, n) ==
  LET D == DOMAIN M.link IN
  /\ n \in Nat
  /\ \A b \in D : /\ rank[b] \in Nat /\ rank[b] < n
                  /\ Succ(M, b) # 0 => rank[Succ(M, b)] < rank[b]
                  /\ M.head[Class(M, b)] # 0 /\ rank[b] <= rank[M.head[Class(M, b)]]
  /\ \A b, c \in D : rank[b] = rank[c] => b = c
  /\ \A b, c \in D : Class(M, b) = Class(M, c) /\ rank[c] < rank[b]
                       => Succ(M, b) # 0 /\ rank[c] <= rank[Succ(M, b)]

\* The blocks of F are the listed ones.
Listed(M, F) == /\ DOMAIN M.link = F /\ Linked(M)
                /\ \E rank, n : Ranked(M, rank, n)

\* A listed block has a class.
LEMMA ClassOf ==
  ASSUME NEW M, Linked(M), NEW b \in DOMAIN M.link
  PROVE  Class(M, b) \in Classes
BY ClassFacts DEF Linked, Class

\* What insert_block does to links
LEMMA InsertLinks ==
  ASSUME NEW M, IsHeap(M), Linked(M), NEW p, p # 0, p \notin DOMAIN M.link
  PROVE  LET R == insert_block(M, p)
             i == Class(M, p)
         IN  /\ DOMAIN R.link = DOMAIN M.link \cup {p}
             /\ \A b \in DOMAIN R.link :
                  R.link[b] = [pred |-> Pred(R, b), succ |-> Succ(R, b)]
             /\ Pred(R, p) = 0 /\ Succ(R, p) = M.head[i]
             /\ \A b \in DOMAIN M.link :
                  /\ Pred(R, b) = IF b = M.head[i] THEN p ELSE Pred(M, b)
                  /\ Succ(R, b) = Succ(M, b)
             /\ R.head = [M.head EXCEPT ![i] = p]
             /\ \A b : Size(R, b) = Size(M, b) /\ Class(R, b) = Class(M, b)
<1> DEFINE R == insert_block(M, p)
           i == Class(M, p)
           h == M.head[i]
<1>1. /\ SameTiles(M, R)
      /\ DOMAIN R.link = DOMAIN M.link \cup {p}
      /\ R.link[p] = [pred |-> 0, succ |-> h]
      /\ \A b \in DOMAIN M.link :
           b # p => R.link[b] = IF b = h THEN [M.link[b] EXCEPT !.pred = p] ELSE M.link[b]
      /\ R.head = [M.head EXCEPT ![i] = p]
  <2>1. IsHeap(M)
    OBVIOUS
  <2>2. i = get_block_index(Size(M, p))
    BY DEF Class
  <2> HIDE DEF i
  <2> QED
    BY ONLY <2>1, <2>2, InsertWrites
<1> HIDE DEF R, h
<1>2. \A b \in DOMAIN M.link : M.link[b] = [pred |-> Pred(M, b), succ |-> Succ(M, b)]
  BY DEF Linked
<1>3. /\ Pred(R, p) = 0 /\ Succ(R, p) = h
      /\ R.link[p] = [pred |-> Pred(R, p), succ |-> Succ(R, p)]
  BY <1>1 DEF Pred, Succ
<1>4. ASSUME NEW b \in DOMAIN M.link
      PROVE  /\ Pred(R, b) = IF b = h THEN p ELSE Pred(M, b)
             /\ Succ(R, b) = Succ(M, b)
             /\ R.link[b] = [pred |-> Pred(R, b), succ |-> Succ(R, b)]
  <2>1. R.link[b] = [pred |-> IF b = h THEN p ELSE Pred(M, b), succ |-> Succ(M, b)]
    <3>1. R.link[b] = IF b = h THEN [M.link[b] EXCEPT !.pred = p] ELSE M.link[b]
      BY <1>1, <1>4
    <3>2. M.link[b] = [pred |-> Pred(M, b), succ |-> Succ(M, b)]
      BY <1>2, <1>4
    <3> HIDE DEF i
    <3> DEFINE x == Pred(M, b)
               y == Succ(M, b)
               l == M.link[b]
    <3>3. l = [pred |-> x, succ |-> y]
      BY <3>2
    <3> HIDE DEF x, y, l
    <3>4. [l EXCEPT !.pred = p] = [pred |-> p, succ |-> y]
      BY <3>3
    <3> QED
      BY <3>1, <3>3, <3>4 DEF l, x, y
  <2> QED
    BY <2>1 DEF Pred, Succ
<1>5. \A b : Size(R, b) = Size(M, b) /\ Class(R, b) = Class(M, b)
  BY <1>1 DEF SameTiles, Size, Class
<1> QED
  BY <1>1, <1>3, <1>4, <1>5 DEF R, h

\* What remove_block does to links
LEMMA RemoveLinks ==
  ASSUME NEW M, IsHeap(M), Linked(M), NEW p \in DOMAIN M.link
  PROVE  LET R == remove_block(M, p)
             i == Class(M, p)
         IN  /\ DOMAIN R.link = DOMAIN M.link \ {p}
             /\ \A b \in DOMAIN R.link :
                  /\ R.link[b] = [pred |-> Pred(R, b), succ |-> Succ(R, b)]
                  /\ Pred(R, b) = IF b = Succ(M, p) THEN Pred(M, p) ELSE Pred(M, b)
                  /\ Succ(R, b) = IF b = Pred(M, p) THEN Succ(M, p) ELSE Succ(M, b)
             /\ R.head = [M.head EXCEPT ![i] = IF Pred(M, p) = 0 THEN Succ(M, p)
                                               ELSE M.head[i]]
             /\ \A b : Size(R, b) = Size(M, b) /\ Class(R, b) = Class(M, b)
<1> DEFINE R == remove_block(M, p)
           i == Class(M, p)
<1>1. /\ SameTiles(M, R)
      /\ DOMAIN R.link = DOMAIN M.link \ {p}
      /\ \A b \in DOMAIN R.link :
           R.link[b] = [pred |-> IF b = Succ(M, p) THEN Pred(M, p) ELSE Pred(M, b),
                        succ |-> IF b = Pred(M, p) THEN Succ(M, p) ELSE Succ(M, b)]
      /\ R.head = [M.head EXCEPT ![i] = IF Pred(M, p) = 0 THEN Succ(M, p) ELSE M.head[i]]
  BY RemoveWrites DEF Class, Pred, Succ
<1> HIDE DEF R, i
<1>2. ASSUME NEW b \in DOMAIN R.link
      PROVE  /\ R.link[b] = [pred |-> Pred(R, b), succ |-> Succ(R, b)]
             /\ Pred(R, b) = IF b = Succ(M, p) THEN Pred(M, p) ELSE Pred(M, b)
             /\ Succ(R, b) = IF b = Pred(M, p) THEN Succ(M, p) ELSE Succ(M, b)
  <2> DEFINE x == IF b = Succ(M, p) THEN Pred(M, p) ELSE Pred(M, b)
             y == IF b = Pred(M, p) THEN Succ(M, p) ELSE Succ(M, b)
  <2>1. R.link[b] = [pred |-> x, succ |-> y]
    BY <1>1, <1>2
  <2> HIDE DEF x, y
  <2>2. Pred(R, b) = x /\ Succ(R, b) = y
    BY <2>1 DEF Pred, Succ
  <2> QED
    BY <2>1, <2>2 DEF x, y
<1>3. \A b : Size(R, b) = Size(M, b) /\ Class(R, b) = Class(M, b)
  BY <1>1 DEF SameTiles, Size, Class
<1> QED
  BY <1>1, <1>2, <1>3 DEF R, i

\* A block put at the head of its list has a rank above all others.
LEMMA InsertLists ==
  ASSUME NEW M, IsHeap(M), NEW F, Listed(M, F), NEW p, p # 0, p \notin F, Size(M, p) \in Nat
  PROVE  Listed(insert_block(M, p), F \cup {p})
<1> DEFINE R == insert_block(M, p)
           i == Class(M, p)
           h == M.head[i]
           D == DOMAIN M.link
<1>1. D = F /\ Linked(M) /\ p \notin D
  BY DEF Listed
<1>2. /\ DOMAIN R.link = D \cup {p}
      /\ \A b \in DOMAIN R.link : R.link[b] = [pred |-> Pred(R, b), succ |-> Succ(R, b)]
      /\ Pred(R, p) = 0 /\ Succ(R, p) = h
      /\ \A b \in D : /\ Pred(R, b) = IF b = h THEN p ELSE Pred(M, b)
                      /\ Succ(R, b) = Succ(M, b)
      /\ R.head = [M.head EXCEPT ![i] = p]
      /\ \A b : Size(R, b) = Size(M, b) /\ Class(R, b) = Class(M, b)
  BY <1>1, InsertLinks
<1>3. i \in Classes
  BY ClassFacts DEF Class
<1> HIDE DEF R, i
<1>4. /\ 0 \notin D /\ M.head \in [Classes -> D \cup {0}]
      /\ \A b \in D : /\ Size(M, b) \in Nat
                      /\ Pred(M, b) \in D \cup {0} /\ Succ(M, b) \in D \cup {0}
                      /\ Succ(M, b) # 0 => /\ Class(M, Succ(M, b)) = Class(M, b)
                                           /\ Pred(M, Succ(M, b)) = b
                      /\ Pred(M, b) # 0 => Succ(M, Pred(M, b)) = b
                      /\ Pred(M, b) = 0 => M.head[Class(M, b)] = b
      /\ \A k \in Classes :
           M.head[k] # 0 => Class(M, M.head[k]) = k /\ Pred(M, M.head[k]) = 0
  BY <1>1 DEF Linked
<1>5. h \in D \cup {0}
  BY <1>3, <1>4
<1>6. /\ R.head \in [Classes -> D \cup {p, 0}] /\ R.head[i] = p
      /\ \A k \in Classes : k # i => R.head[k] = M.head[k]
  BY <1>2, <1>3, <1>4
<1>7. \A b \in D : Class(M, b) \in Classes
  BY <1>1, ClassOf
<1> HIDE DEF h, D
<1>8. ASSUME NEW b \in D \cup {p}
      PROVE  /\ Pred(R, b) \in D \cup {p, 0} /\ Succ(R, b) \in D \cup {p, 0}
             /\ Succ(R, b) # 0 => /\ Class(R, Succ(R, b)) = Class(R, b)
                                  /\ Pred(R, Succ(R, b)) = b
             /\ Pred(R, b) # 0 => Succ(R, Pred(R, b)) = b
             /\ Pred(R, b) = 0 => R.head[Class(R, b)] = b
  <2>1. CASE b = p
    <3>1. h # 0 => Class(M, h) = i /\ Pred(R, h) = p
      BY <1>2, <1>3, <1>4, <1>5 DEF h
    <3> QED
      BY <1>2, <1>5, <1>6, <2>1, <3>1 DEF i
  <2>2. CASE b \in D
    <3>1. b # p /\ b # 0
      BY <1>1, <1>4, <2>2 DEF D
    <3>2. Succ(R, b) = Succ(M, b) /\ Succ(M, b) \in D \cup {0}
      BY <1>2, <1>4, <2>2
    <3>3. Succ(M, b) # 0 => Pred(M, Succ(M, b)) = b /\ Succ(M, b) # h
      BY <1>3, <1>4, <2>2, <3>1 DEF h
    <3>4. Succ(R, b) # 0 => /\ Class(R, Succ(R, b)) = Class(R, b)
                            /\ Pred(R, Succ(R, b)) = b
      BY <1>2, <1>4, <2>2, <3>2, <3>3
    <3>5. CASE b = h
      <4>1. Pred(R, b) = p /\ Succ(R, p) = b
        BY <1>2, <2>2, <3>5
      <4> QED
        BY <3>2, <3>4, <4>1
    <3>6. CASE b # h
      <4>1. Pred(R, b) = Pred(M, b) /\ Pred(M, b) \in D \cup {0}
        BY <1>2, <1>4, <2>2, <3>6
      <4>2. Pred(M, b) # 0 => Succ(R, Pred(M, b)) = b
        BY <1>2, <1>4, <2>2
      <4>3. Pred(M, b) = 0 => Class(M, b) # i /\ M.head[Class(M, b)] = b
        BY <1>4, <2>2, <3>6 DEF h
      <4>4. Pred(M, b) = 0 => R.head[Class(R, b)] = b
        BY <1>2, <1>6, <1>7, <2>2, <4>3
      <4> QED
        BY <3>2, <3>4, <4>1, <4>2, <4>4
    <3> QED
      BY <3>5, <3>6
  <2> QED
    BY <2>1, <2>2
<1>9. ASSUME NEW k \in Classes, R.head[k] # 0
      PROVE  Class(R, R.head[k]) = k /\ Pred(R, R.head[k]) = 0
  <2>1. CASE k = i
    BY <1>2, <1>6, <2>1 DEF i
  <2>2. CASE k # i
    <3>1. R.head[k] = M.head[k] /\ M.head[k] # 0 /\ M.head[k] \in D
      BY <1>4, <1>6, <1>9, <2>2
    <3>2. Class(M, M.head[k]) = k /\ Pred(M, M.head[k]) = 0
      BY <1>4, <3>1
    <3>3. M.head[k] # h
      BY <1>3, <1>4, <2>2, <3>1, <3>2 DEF h
    <3> QED
      BY <1>2, <3>1, <3>2, <3>3
  <2> QED
    BY <2>1, <2>2
<1>10. Linked(R)
  <2>1. 0 \notin D \cup {p} /\ \A b \in D \cup {p} : Size(R, b) \in Nat
    BY <1>2, <1>4
  <2>2. (D \cup {p}) \cup {0} = D \cup {p, 0}
    OBVIOUS
  <2> QED
    BY <1>2, <1>6, <1>8, <1>9, <2>1, <2>2 DEF Linked
<1>11. PICK rank, n : Ranked(M, rank, n)
  BY DEF Listed
<1>12. /\ n \in Nat
       /\ \A b \in D : /\ rank[b] \in Nat /\ rank[b] < n
                       /\ Succ(M, b) # 0 => rank[Succ(M, b)] < rank[b]
                       /\ M.head[Class(M, b)] # 0 /\ rank[b] <= rank[M.head[Class(M, b)]]
       /\ \A b, c \in D : rank[b] = rank[c] => b = c
       /\ \A b, c \in D : Class(M, b) = Class(M, c) /\ rank[c] < rank[b]
                            => Succ(M, b) # 0 /\ rank[c] <= rank[Succ(M, b)]
  BY <1>11 DEF Ranked, D
<1> DEFINE up == [b \in D \cup {p} |-> IF b = p THEN n ELSE rank[b]]
<1>13. up[p] = n /\ \A b \in D : up[b] = rank[b] /\ b # p
  BY <1>1 DEF D
<1> HIDE DEF up
<1>14. ASSUME NEW b \in D \cup {p}
       PROVE  /\ up[b] \in Nat /\ up[b] < n + 1
              /\ Succ(R, b) # 0 => up[Succ(R, b)] < up[b]
              /\ R.head[Class(R, b)] # 0 /\ up[b] <= up[R.head[Class(R, b)]]
  <2>1. CASE b = p
    BY <1>2, <1>5, <1>6, <1>12, <1>13, <2>1 DEF i
  <2>2. CASE b \in D
    <3>1. /\ up[b] \in Nat /\ up[b] < n + 1
      BY <1>12, <1>13, <2>2
    <3>2. Succ(R, b) # 0 => up[Succ(R, b)] < up[b]
      BY <1>2, <1>4, <1>12, <1>13, <2>2
    <3>3. CASE Class(M, b) = i
      BY <1>2, <1>6, <1>12, <1>13, <2>2, <3>1, <3>2, <3>3
    <3>4. CASE Class(M, b) # i
      <4>1. R.head[Class(R, b)] = M.head[Class(M, b)]
        BY <1>2, <1>6, <1>7, <2>2, <3>4
      <4>2. M.head[Class(M, b)] \in D
        BY <1>4, <1>7, <1>12, <2>2
      <4> QED
        BY <1>12, <1>13, <2>2, <3>1, <3>2, <4>1, <4>2
    <3> QED
      BY <3>3, <3>4
  <2> QED
    BY <2>1, <2>2
<1>15. ASSUME NEW b \in D \cup {p}, NEW c \in D \cup {p}
       PROVE  /\ up[b] = up[c] => b = c
              /\ Class(R, b) = Class(R, c) /\ up[c] < up[b]
                   => Succ(R, b) # 0 /\ up[c] <= up[Succ(R, b)]
  <2>1. \A d \in D : up[d] < n /\ up[d] \in Nat
    BY <1>12, <1>13
  <2>2. CASE b \in D /\ c \in D
    <3>1. Succ(R, b) = Succ(M, b) /\ Succ(M, b) \in D \cup {0}
      BY <1>2, <1>4, <2>2
    <3> QED
      BY <1>2, <1>12, <1>13, <2>2, <3>1
  <2>3. CASE b = p /\ c \in D
    <3>1. Class(R, b) = Class(R, c) => h # 0 /\ up[c] <= up[h]
      BY <1>2, <1>5, <1>12, <1>13, <2>3 DEF h, i
    <3> QED
      BY <1>2, <1>13, <2>1, <2>3, <3>1
  <2>4. CASE c = p
    BY <1>12, <1>13, <2>1, <2>4
  <2> QED
    BY <2>2, <2>3, <2>4
<1>16. Ranked(R, up, n + 1)
  BY <1>2, <1>12, <1>14, <1>15 DEF Ranked
<1> QED
  BY <1>1, <1>2, <1>10, <1>16 DEF Listed, R, D

\* A block taken off its list leaves the ranks of the others.
LEMMA RemoveLists ==
  ASSUME NEW M, IsHeap(M), NEW F, Listed(M, F), NEW p \in F
  PROVE  Listed(remove_block(M, p), F \ {p})
<1> DEFINE R == remove_block(M, p)
           i == Class(M, p)
           s == Succ(M, p)
           q == Pred(M, p)
           D == DOMAIN M.link
           E == D \ {p}
<1>1. D = F /\ Linked(M) /\ p \in D
  BY DEF Listed
<1>2. /\ DOMAIN R.link = E
      /\ \A b \in E : /\ R.link[b] = [pred |-> Pred(R, b), succ |-> Succ(R, b)]
                      /\ Pred(R, b) = IF b = s THEN q ELSE Pred(M, b)
                      /\ Succ(R, b) = IF b = q THEN s ELSE Succ(M, b)
      /\ R.head = [M.head EXCEPT ![i] = IF q = 0 THEN s ELSE M.head[i]]
      /\ \A b : Size(R, b) = Size(M, b) /\ Class(R, b) = Class(M, b)
  BY <1>1, RemoveLinks
<1> HIDE DEF R
<1>3. /\ 0 \notin D /\ M.head \in [Classes -> D \cup {0}]
      /\ \A b \in D : /\ Size(M, b) \in Nat
                      /\ Pred(M, b) \in D \cup {0} /\ Succ(M, b) \in D \cup {0}
                      /\ Succ(M, b) # 0 => /\ Class(M, Succ(M, b)) = Class(M, b)
                                           /\ Pred(M, Succ(M, b)) = b
                      /\ Pred(M, b) # 0 => Succ(M, Pred(M, b)) = b
                      /\ Pred(M, b) = 0 => M.head[Class(M, b)] = b
      /\ \A k \in Classes :
           M.head[k] # 0 => Class(M, M.head[k]) = k /\ Pred(M, M.head[k]) = 0
  BY <1>1 DEF Linked
<1>4. \A b \in D : Class(M, b) \in Classes
  BY <1>1, ClassOf
<1>5. PICK rank, n : Ranked(M, rank, n)
  BY DEF Listed
<1>6. /\ n \in Nat
      /\ \A b \in D : /\ rank[b] \in Nat /\ rank[b] < n
                      /\ Succ(M, b) # 0 => rank[Succ(M, b)] < rank[b]
                      /\ M.head[Class(M, b)] # 0 /\ rank[b] <= rank[M.head[Class(M, b)]]
      /\ \A b, c \in D : rank[b] = rank[c] => b = c
      /\ \A b, c \in D : Class(M, b) = Class(M, c) /\ rank[c] < rank[b]
                           => Succ(M, b) # 0 /\ rank[c] <= rank[Succ(M, b)]
  BY <1>5 DEF Ranked
<1> HIDE DEF D
\* p and its neighbours
<1>7. /\ p # 0 /\ s # p /\ q # p /\ s \in E \cup {0} /\ q \in E \cup {0}
      /\ s # 0 => Class(M, s) = i /\ Pred(M, s) = p /\ rank[s] < rank[p]
      /\ q # 0 => Succ(M, q) = p /\ Class(M, q) = i /\ rank[p] < rank[q]
      /\ q = 0 => M.head[i] = p
      /\ q # 0 => M.head[i] # p
      /\ q # 0 => q # s
      /\ i \in Classes
  <2>1. s \in D \cup {0} /\ q \in D \cup {0} /\ p # 0 /\ i \in Classes
    BY <1>1, <1>3, <1>4
  <2>2. s # 0 => Class(M, s) = i /\ Pred(M, s) = p /\ rank[s] < rank[p]
    BY <1>1, <1>3, <1>6
  <2>3. q # 0 => Succ(M, q) = p /\ Class(M, q) = i /\ rank[p] < rank[q]
    BY <1>1, <1>3, <1>6, <2>1
  <2>4. s # p /\ q # p
    BY <1>1, <1>6, <2>1, <2>2, <2>3
  <2>5. q # 0 => M.head[i] # p
    BY <1>3, <2>1
  <2>6. q # 0 => q # s
    BY <1>1, <1>6, <2>1, <2>2, <2>3
  <2>7. q = 0 => M.head[i] = p
    BY <1>1, <1>3
  <2> QED
    BY <2>1, <2>2, <2>3, <2>4, <2>5, <2>6, <2>7
<1> HIDE DEF i, s, q
<1>8. /\ R.head \in [Classes -> E \cup {0}]
      /\ R.head[i] = IF q = 0 THEN s ELSE M.head[i]
      /\ \A k \in Classes : k # i => R.head[k] = M.head[k]
  <2>1. \A k \in Classes : k # i => M.head[k] # p
    BY <1>1, <1>3, <1>7 DEF i
  <2>2. \A k \in Classes : M.head[k] \in D \cup {0}
    BY <1>3
  <2>3. (IF q = 0 THEN s ELSE M.head[i]) \in E \cup {0}
    BY <1>7, <2>2
  <2> QED
    BY <1>2, <1>3, <1>7, <2>1, <2>2, <2>3
<1>9. ASSUME NEW b \in E
      PROVE  /\ Pred(R, b) \in E \cup {0} /\ Succ(R, b) \in E \cup {0}
             /\ Succ(R, b) # 0 => /\ Class(R, Succ(R, b)) = Class(R, b)
                                  /\ Pred(R, Succ(R, b)) = b
             /\ Pred(R, b) # 0 => Succ(R, Pred(R, b)) = b
             /\ Pred(R, b) = 0 => R.head[Class(R, b)] = b
  <2>1. b \in D /\ b # p /\ b # 0
    BY <1>3
  <2>2. b # q => Succ(M, b) # p
    BY <1>1, <1>3, <2>1 DEF q
  <2>3. b # s => Pred(M, b) # p
    BY <1>1, <1>3, <1>7, <2>1 DEF s
  <2>4. Pred(R, b) \in E \cup {0} /\ Succ(R, b) \in E \cup {0}
    BY <1>2, <1>3, <1>7, <2>1, <2>2, <2>3
  <2>5. Succ(R, b) # 0 => /\ Class(R, Succ(R, b)) = Class(R, b)
                          /\ Pred(R, Succ(R, b)) = b
    <3>1. CASE b = q
      BY <1>2, <1>7, <2>1, <3>1
    <3>2. CASE b # q
      <4>1. Succ(R, b) = Succ(M, b)
        BY <1>2, <3>2
      <4>2. Succ(M, b) # 0 => Succ(M, b) # s
        BY <1>3, <1>7, <2>1
      <4>3. Succ(M, b) # 0 => /\ Class(M, Succ(M, b)) = Class(M, b)
                              /\ Pred(M, Succ(M, b)) = b
        BY <1>3, <2>1
      <4> DEFINE t == Succ(R, b)
      <4>4. t # 0 => /\ t # s /\ t \in E
                     /\ Class(M, t) = Class(M, b) /\ Pred(M, t) = b
        BY <2>4, <4>1, <4>2, <4>3
      <4> HIDE DEF t
      <4>5. t # 0 => Class(R, t) = Class(R, b) /\ Pred(R, t) = b
        BY <1>2, <4>4
      <4> QED
        BY <4>5 DEF t
    <3> QED
      BY <3>1, <3>2
  <2>6. Pred(R, b) # 0 => Succ(R, Pred(R, b)) = b
    <3>1. CASE b = s
      BY <1>2, <1>7, <2>1, <3>1
    <3>2. CASE b # s
      <4>1. Pred(R, b) = Pred(M, b)
        BY <1>2, <3>2
      <4>2. Pred(M, b) # 0 => Succ(M, Pred(M, b)) = b
        BY <1>3, <2>1
      <4>3. Pred(M, b) # 0 => Pred(M, b) # q
        BY <1>7, <2>1, <4>2
      <4> QED
        BY <1>2, <2>4, <4>1, <4>2, <4>3
    <3> QED
      BY <3>1, <3>2
  <2>7. Pred(R, b) = 0 => R.head[Class(R, b)] = b
    <3>1. CASE b = s
      BY <1>2, <1>7, <1>8, <2>1, <3>1
    <3>2. CASE b # s
      <4>1. Pred(R, b) = Pred(M, b)
        BY <1>2, <3>2
      <4>2. Pred(M, b) = 0 => M.head[Class(M, b)] = b /\ Class(M, b) \in Classes
        BY <1>3, <1>4, <2>1
      <4>3. Pred(M, b) = 0 /\ Class(M, b) = i => q # 0
        BY <1>7, <2>1, <4>2
      <4> QED
        BY <1>2, <1>8, <4>1, <4>2, <4>3
    <3> QED
      BY <3>1, <3>2
  <2> QED
    BY <2>4, <2>5, <2>6, <2>7
<1>10. ASSUME NEW k \in Classes, R.head[k] # 0
       PROVE  Class(R, R.head[k]) = k /\ Pred(R, R.head[k]) = 0
  <2>1. CASE k = i /\ q = 0
    BY <1>2, <1>7, <1>8, <1>10, <2>1
  <2>2. CASE k # i \/ q # 0
    <3>1. R.head[k] = M.head[k] /\ M.head[k] # 0 /\ M.head[k] \in E
      BY <1>8, <1>10, <2>2
    <3>2. Class(M, M.head[k]) = k /\ Pred(M, M.head[k]) = 0
      BY <1>3, <3>1
    <3>3. M.head[k] # s
      BY <1>7, <3>1, <3>2
    <3> QED
      BY <1>2, <3>1, <3>2, <3>3
  <2> QED
    BY <2>1, <2>2
<1>11. Linked(R)
  <2>1. 0 \notin E /\ \A b \in E : Size(R, b) \in Nat
    BY <1>2, <1>3
  <2> QED
    BY <1>2, <1>8, <1>9, <1>10, <2>1 DEF Linked
<1>12. ASSUME NEW b \in E
       PROVE  /\ Succ(R, b) # 0 => rank[Succ(R, b)] < rank[b]
              /\ R.head[Class(R, b)] # 0 /\ rank[b] <= rank[R.head[Class(R, b)]]
  <2>1. b \in D /\ b # p
    OBVIOUS
  <2>2. Succ(R, b) # 0 => rank[Succ(R, b)] < rank[b]
    <3>1. CASE b = q
      <4>1. Succ(R, b) = s
        BY <1>2, <3>1
      <4>2. s # 0 => s \in D /\ rank[s] \in Nat /\ rank[p] \in Nat /\ rank[b] \in Nat
        BY <1>1, <1>6, <1>7, <2>1
      <4>3. b # 0
        BY <1>3, <2>1
      <4> QED
        BY <1>7, <3>1, <4>1, <4>2, <4>3
    <3>2. CASE b # q
      BY <1>2, <1>6, <2>1, <3>2
    <3> QED
      BY <3>1, <3>2
  <2>3. R.head[Class(R, b)] # 0 /\ rank[b] <= rank[R.head[Class(R, b)]]
    <3>1. M.head[Class(M, b)] # 0 /\ rank[b] <= rank[M.head[Class(M, b)]]
      BY <1>6, <2>1
    <3>2. CASE Class(M, b) = i /\ q = 0
      <4>1. rank[b] < rank[p]
        BY <1>1, <1>6, <1>7, <2>1, <3>1, <3>2
      <4>2. s # 0 /\ rank[b] <= rank[s]
        BY <1>1, <1>6, <2>1, <3>2, <4>1 DEF i, s
      <4> QED
        BY <1>2, <1>8, <3>2, <4>2
    <3>3. CASE Class(M, b) # i \/ q # 0
      BY <1>2, <1>4, <1>8, <2>1, <3>1, <3>3
    <3> QED
      BY <3>2, <3>3
  <2> QED
    BY <2>2, <2>3
<1>13. ASSUME NEW b \in E, NEW c \in E, Class(R, b) = Class(R, c), rank[c] < rank[b]
       PROVE  Succ(R, b) # 0 /\ rank[c] <= rank[Succ(R, b)]
  <2>1. b \in D /\ c \in D /\ c # p /\ b # p
    OBVIOUS
  <2>2. Succ(M, b) # 0 /\ rank[c] <= rank[Succ(M, b)] /\ Class(M, b) = Class(M, c)
    BY <1>2, <1>6, <1>13, <2>1
  <2>3. CASE b = q
    <3>1. Succ(M, b) = p /\ Class(M, b) = i
      BY <1>3, <1>7, <2>1, <2>3
    <3>2. rank[c] < rank[p]
      BY <1>1, <1>6, <2>1, <2>2, <3>1
    <3>3. s # 0 /\ rank[c] <= rank[s]
      BY <1>1, <1>6, <2>1, <2>2, <3>1, <3>2 DEF i, s
    <3> QED
      BY <1>2, <2>3, <3>3
  <2>4. CASE b # q
    BY <1>2, <2>2, <2>4
  <2> QED
    BY <2>3, <2>4
<1>14. Ranked(R, rank, n)
  BY <1>2, <1>6, <1>12, <1>13 DEF Ranked
<1> QED
  BY <1>1, <1>2, <1>11, <1>14 DEF Listed, R, D

\* Tags may change where no block is listed.
LEMMA ListsStay ==
  ASSUME NEW M, NEW F, Listed(M, F), NEW N, SameLists(M, N),
         \A b \in F : Size(N, b) = Size(M, b)
  PROVE  Listed(N, F)
<1>1. N.link = M.link /\ N.head = M.head /\ DOMAIN M.link = F
  BY DEF SameLists, Listed
<1>2. \A b \in F : Class(N, b) = Class(M, b)
  BY DEF Class
<1>3. \A b : Pred(N, b) = Pred(M, b) /\ Succ(N, b) = Succ(M, b)
  BY <1>1 DEF Pred, Succ
<1>4. Linked(M) /\ Linked(N)
  <2>1. Linked(M) /\ \A b \in F : Class(M, b) \in Classes
    BY <1>1, ClassOf DEF Listed
  <2>2. \A i \in Classes : M.head[i] # 0 => M.head[i] \in F
    BY <1>1, <2>1 DEF Linked
  <2>3. \A b \in F : Succ(M, b) # 0 => Succ(M, b) \in F
    BY <1>1, <2>1 DEF Linked
  <2> QED
    BY <1>1, <1>2, <1>3, <2>1, <2>2, <2>3 DEF Linked
<1>5. PICK rank, n : Ranked(M, rank, n)
  BY DEF Listed
<1>6. Ranked(N, rank, n)
  BY <1>1, <1>2, <1>3, <1>5 DEF Ranked
<1> QED
  BY <1>1, <1>4, <1>6 DEF Listed

----------------------------------------------------------------------------
(* The searches.  A recursive function of the model stands for a CHOOSE: a *)
(* function that satisfies its equation is shown, so that the chosen one   *)
(* does, and what that one returns follows by descent along the ranks.     *)

IsFit(M, F, size, fit) ==
  fit = [b \in F \cup {0} |-> IF b = 0 \/ size <= Size(M, b) THEN b ELSE fit[Succ(M, b)]]

\* The recursion of FirstFit has a solution, so it computes one.
LEMMA FirstFitDefined ==
  ASSUME NEW M, NEW F, Listed(M, F), NEW size \in Nat
  PROVE  \E fit : IsFit(M, F, size, fit) /\ \A p : FirstFit(M, size, p) = fit[p]
<1> DEFINE Holds(b) == size <= Size(M, b)
           fits(b) == {c \in F : Class(M, c) = Class(M, b) /\ Holds(c)}
<1>1. Linked(M) /\ DOMAIN M.link = F
  BY DEF Listed
<1>2. PICK rank, n : Ranked(M, rank, n)
  BY DEF Listed
<1>3. /\ \A b \in F : /\ rank[b] \in Nat /\ rank[b] < n /\ n \in Nat
                      /\ Succ(M, b) # 0 => rank[Succ(M, b)] < rank[b]
      /\ \A b, c \in F : rank[b] = rank[c] => b = c
      /\ \A b, c \in F : Class(M, b) = Class(M, c) /\ rank[c] < rank[b]
                           => Succ(M, b) # 0 /\ rank[c] <= rank[Succ(M, b)]
  BY <1>1, <1>2 DEF Ranked
<1>4. \A b \in F : /\ b # 0 /\ Size(M, b) \in Nat /\ Succ(M, b) \in F \cup {0}
                   /\ Succ(M, b) # 0 => Class(M, Succ(M, b)) = Class(M, b)
  BY <1>1 DEF Linked
<1> DEFINE low(b)  == {c \in fits(b) : rank[c] <= rank[b]}
           best(S) == CHOOSE c \in S : \A d \in S : rank[d] <= rank[c]
           g == [b \in F \cup {0} |-> IF b = 0 \/ low(b) = {} THEN 0 ELSE best(low(b))]
<1>5. ASSUME NEW b \in F, Holds(b)
      PROVE  g[b] = b
  <2>1. b \in low(b) /\ \A d \in low(b) : rank[d] <= rank[b] /\ d \in F
    BY <1>3, <1>5
  <2> DEFINE S == low(b)
  <2>2. g[b] = best(S) /\ S # {}
    BY <1>4, <2>1
  <2> HIDE DEF S, low, g
  <2>3. \E c \in S : \A d \in S : rank[d] <= rank[c]
    BY <2>1 DEF S
  <2>4. best(S) \in S /\ \A d \in S : rank[d] <= rank[best(S)]
    BY <2>3
  <2> HIDE DEF best
  <2>5. rank[best(S)] = rank[b]
    BY <1>3, <2>1, <2>4 DEF S
  <2> QED
    BY <1>3, <2>1, <2>2, <2>4, <2>5 DEF S
<1>6. ASSUME NEW b \in F, ~Holds(b)
      PROVE  g[b] = g[Succ(M, b)]
  <2>1. CASE Succ(M, b) = 0
    <3>1. low(b) = {}
      <4> SUFFICES ASSUME NEW c \in low(b) PROVE FALSE
        OBVIOUS
      <4>1. c \in F /\ Class(M, c) = Class(M, b) /\ Holds(c) /\ rank[c] <= rank[b]
        OBVIOUS
      <4>2. rank[c] # rank[b]
        BY <1>3, <1>6, <4>1
      <4> QED
        BY <1>3, <2>1, <4>1, <4>2
    <3> QED
      BY <2>1, <3>1
  <2>2. CASE Succ(M, b) # 0
    <3> DEFINE s == Succ(M, b)
    <3>1. s \in F /\ Class(M, s) = Class(M, b) /\ rank[s] < rank[b] /\ s # 0
      BY <1>3, <1>4, <2>2
    <3> HIDE DEF s
    <3>2. \A c \in F : Holds(c) /\ Class(M, c) = Class(M, b)
                         => (rank[c] <= rank[b] <=> rank[c] <= rank[s])
      <4>1. \A c \in F : rank[c] = rank[b] => ~Holds(c)
        BY <1>3, <1>6
      <4>2. \A c \in F : Class(M, c) = Class(M, b) /\ rank[c] < rank[b]
                           => rank[c] <= rank[s]
        BY <1>3 DEF s
      <4> QED
        BY <1>3, <3>1, <4>1, <4>2
    <3>3. low(b) = low(s)
      BY <3>1, <3>2
    <3>4. \A x \in F : g[x] = IF x = 0 \/ low(x) = {} THEN 0 ELSE best(low(x))
      OBVIOUS
    <3> HIDE DEF low, best, g
    <3> QED
      BY <1>4, <3>1, <3>3, <3>4 DEF s
  <2> QED
    BY <2>1, <2>2
<1>7. g[0] = 0 /\ DOMAIN g = F \cup {0}
  OBVIOUS
<1> DEFINE Eqn(f) == f = [b \in F \cup {0} |->
                            IF b = 0 \/ size <= Size(M, b) THEN b ELSE f[Succ(M, b)]]
<1>8. Eqn(g)
  <2> DEFINE e == [b \in F \cup {0} |->
                     IF b = 0 \/ size <= Size(M, b) THEN b ELSE g[Succ(M, b)]]
  <2>1. \A b \in F \cup {0} : g[b] = e[b]
    <3> HIDE DEF g
    <3> QED
      BY <1>4, <1>5, <1>6, <1>7
  <2>2. g \in [F \cup {0} -> {g[b] : b \in F \cup {0}}]
    OBVIOUS
  <2>3. DOMAIN e = F \cup {0}
    OBVIOUS
  <2> QED
    BY <2>1, <2>2, <2>3
<1> DEFINE fit == CHOOSE f : Eqn(f)
<1>9. Eqn(fit)
  <2> HIDE DEF g, Eqn
  <2> QED
    BY <1>8
<1>10. \A p : FirstFit(M, size, p) = fit[p]
  BY <1>1 DEF FirstFit, Succ
<1> HIDE DEF fit
<1> QED
  BY <1>9, <1>10 DEF IsFit

\* What the search of one list returns
LEMMA FirstFitFinds ==
  ASSUME NEW M, NEW F, Listed(M, F), NEW size \in Nat, NEW i \in Classes
  PROVE  LET p == FirstFit(M, size, M.head[i])
         IN  /\ p \in F \cup {0}
             /\ p # 0 => size <= Size(M, p)
             /\ p = 0 => \A c \in F : Class(M, c) = i => Size(M, c) < size
<1>1. Linked(M) /\ DOMAIN M.link = F
  BY DEF Listed
<1>2. PICK rank, n : Ranked(M, rank, n)
  BY DEF Listed
<1>3. /\ \A b \in F : /\ rank[b] \in Nat
                      /\ Succ(M, b) # 0 => rank[Succ(M, b)] < rank[b]
                      /\ M.head[Class(M, b)] # 0 /\ rank[b] <= rank[M.head[Class(M, b)]]
      /\ \A b, c \in F : rank[b] = rank[c] => b = c
      /\ \A b, c \in F : Class(M, b) = Class(M, c) /\ rank[c] < rank[b]
                           => Succ(M, b) # 0 /\ rank[c] <= rank[Succ(M, b)]
  BY <1>1, <1>2 DEF Ranked
<1>4. /\ 0 \notin F /\ M.head[i] \in F \cup {0}
      /\ \A b \in F : /\ Size(M, b) \in Nat /\ Succ(M, b) \in F \cup {0}
                      /\ Succ(M, b) # 0 => Class(M, Succ(M, b)) = Class(M, b)
      /\ M.head[i] # 0 => Class(M, M.head[i]) = i
  BY <1>1 DEF Linked
<1>5. PICK fit : IsFit(M, F, size, fit) /\ \A p : FirstFit(M, size, p) = fit[p]
  BY FirstFitDefined
<1>6. /\ fit[0] = 0
      /\ \A b \in F : fit[b] = IF b = 0 \/ size <= Size(M, b) THEN b ELSE fit[Succ(M, b)]
  BY <1>5 DEF IsFit
<1> DEFINE Finds(b) ==
             /\ fit[b] \in F \cup {0}
             /\ fit[b] # 0 => size <= Size(M, fit[b])
             /\ fit[b] = 0 => \A c \in F : Class(M, c) = Class(M, b) /\ rank[c] <= rank[b]
                                             => Size(M, c) < size
           Bad == {b \in F : ~Finds(b)}
<1>7. Bad = {}
  <2> SUFFICES ASSUME Bad # {} PROVE FALSE
    OBVIOUS
  <2> DEFINE T == {rank[b] : b \in Bad}
  <2>1. T \subseteq Nat /\ T # {}
    BY <1>3
  <2>2. PICK x \in T : \A y \in T : x <= y
    <3> HIDE DEF T
    <3> QED
      BY <2>1, NatMin
  <2>3. PICK b \in Bad : rank[b] = x
    OBVIOUS
  <2>4. b \in F /\ ~Finds(b) /\ \A c \in F : rank[c] < rank[b] => Finds(c)
    <3> HIDE DEF Finds
    <3>1. b \in F /\ ~Finds(b) /\ rank[b] \in Nat
      BY <1>3
    <3>2. ASSUME NEW c \in F, rank[c] < rank[b]
          PROVE  Finds(c)
      <4>1. ~(rank[b] <= rank[c])
        BY <1>3, <3>1, <3>2
      <4>2. rank[c] \notin T
        BY <2>2, <2>3, <4>1
      <4> QED
        BY <4>2
    <3> QED
      BY <3>1, <3>2
  <2> DEFINE s == Succ(M, b)
  <2>5. ~(size <= Size(M, b)) /\ fit[b] = fit[s] /\ b # 0
    BY <1>4, <1>6, <2>4
  <2>6. CASE s = 0
    <3>1. fit[b] = 0
      BY <1>6, <2>5, <2>6
    <3>2. \A c \in F : Class(M, c) = Class(M, b) /\ rank[c] <= rank[b] => c = b
      BY <1>3, <2>4, <2>6
    <3>3. Size(M, b) < size
      BY <1>4, <2>4, <2>5
    <3> QED
      BY <2>4, <3>1, <3>2, <3>3
  <2>7. CASE s # 0
    <3>1. s \in F /\ Class(M, s) = Class(M, b) /\ rank[s] < rank[b]
      BY <1>3, <1>4, <2>4, <2>7
    <3>2. Finds(s)
      BY <2>4, <3>1
    <3>3. \A c \in F : Class(M, c) = Class(M, b) /\ rank[c] <= rank[b]
                         => c = b \/ rank[c] <= rank[s]
      BY <1>3, <2>4
    <3>4. Size(M, b) < size
      BY <1>4, <2>4, <2>5
    <3> HIDE DEF s
    <3>5. fit[b] = 0 => \A c \in F : Class(M, c) = Class(M, b) /\ rank[c] <= rank[b]
                                       => Size(M, c) < size
      BY <2>5, <3>1, <3>2, <3>3, <3>4
    <3> QED
      BY <2>4, <2>5, <3>2, <3>5
  <2> QED
    BY <2>6, <2>7
<1> DEFINE h == M.head[i]
<1>8. FirstFit(M, size, h) = fit[h]
  BY <1>5
<1>9. CASE h = 0
  <2>1. \A c \in F : Class(M, c) # i
    BY <1>3, <1>9
  <2> QED
    BY <1>6, <1>8, <1>9, <2>1
<1>10. CASE h # 0
  <2>1. h \in F /\ Finds(h) /\ Class(M, h) = i
    BY <1>4, <1>7, <1>10
  <2>2. \A c \in F : Class(M, c) = i => rank[c] <= rank[h]
    BY <1>3
  <2> QED
    BY <1>8, <2>1, <2>2
<1> QED
  BY <1>9, <1>10

IsFrom(M, size, from) ==
  from = [i \in 0..LIST_NUM |->
            IF i = LIST_NUM THEN 0
            ELSE LET p == FirstFit(M, size, M.head[i])
                 IN  IF p # 0 THEN p ELSE from[i + 1]]

\* The recursion of find_fit has a solution, so it computes one.
LEMMA FindFitDefined ==
  ASSUME NEW M, NEW size
  PROVE  \E from : IsFrom(M, size, from) /\ find_fit(M, size) = from[get_block_index(size)]
<1> DEFINE First(i) == FirstFit(M, size, M.head[i])
           hits(i)  == {k \in i..LIST_NUM - 1 : First(k) # 0}
           least(S) == CHOOSE k \in S : \A l \in S : k <= l
           g == [i \in 0..LIST_NUM |-> IF hits(i) = {} THEN 0 ELSE First(least(hits(i)))]
<1>1. ASSUME NEW i \in 0..LIST_NUM - 1, First(i) # 0
      PROVE  g[i] = First(i)
  <2> DEFINE S == hits(i)
  <2>1. i \in S /\ S \subseteq Nat /\ \A k \in S : i <= k
    BY <1>1 DEF LIST_NUM
  <2>2. g[i] = First(least(S))
    <3>1. i \in 0..LIST_NUM /\ S # {}
      BY <2>1 DEF LIST_NUM
    <3> HIDE DEF hits, least, First
    <3> QED
      BY <3>1
  <2> HIDE DEF S, g
  <2>3. least(S) = i
    <3>1. \E k \in S : \A l \in S : k <= l
      BY <2>1
    <3>2. least(S) \in S /\ \A l \in S : least(S) <= l
      BY <3>1
    <3> DEFINE l == least(S)
    <3>3. l \in S /\ \A k \in S : l <= k
      BY <3>2
    <3> HIDE DEF l
    <3>4. l \in Nat /\ i \in Nat /\ l <= i /\ i <= l
      BY <2>1, <3>3
    <3>5. l = i
      BY <3>4
    <3> QED
      BY <3>5 DEF l
  <2> QED
    BY <2>2, <2>3
<1>2. ASSUME NEW i \in 0..LIST_NUM - 1, First(i) = 0
      PROVE  g[i] = g[i + 1]
  <2>1. \A k \in Int : k \in i..LIST_NUM - 1 <=> k = i \/ k \in i + 1..LIST_NUM - 1
    BY DEF LIST_NUM
  <2>2. hits(i) = hits(i + 1)
    <3> HIDE DEF First
    <3> QED
      BY <1>2, <2>1 DEF LIST_NUM
  <2>3. \A k \in 0..LIST_NUM : g[k] = IF hits(k) = {} THEN 0 ELSE First(least(hits(k)))
    OBVIOUS
  <2>4. i \in 0..LIST_NUM /\ i + 1 \in 0..LIST_NUM
    BY DEF LIST_NUM
  <2> HIDE DEF hits, least, g, First
  <2> QED
    BY <2>2, <2>3, <2>4
<1>3. g[LIST_NUM] = 0
  BY DEF LIST_NUM
<1> DEFINE e == [i \in 0..LIST_NUM |->
                   IF i = LIST_NUM THEN 0
                   ELSE LET p == FirstFit(M, size, M.head[i])
                        IN  IF p # 0 THEN p ELSE g[i + 1]]
<1>4. IsFrom(M, size, g)
  <2>1. \A i \in 0..LIST_NUM : g[i] = e[i]
    <3> SUFFICES ASSUME NEW i \in 0..LIST_NUM PROVE g[i] = e[i]
      OBVIOUS
    <3>1. e[i] = IF i = LIST_NUM THEN 0 ELSE IF First(i) # 0 THEN First(i) ELSE g[i + 1]
      OBVIOUS
    <3>2. i = LIST_NUM \/ i \in 0..LIST_NUM - 1
      BY DEF LIST_NUM
    <3> HIDE DEF g, e, First
    <3> QED
      BY <1>1, <1>2, <1>3, <3>1, <3>2 DEF LIST_NUM
  <2>2. DOMAIN g = 0..LIST_NUM /\ DOMAIN e = 0..LIST_NUM
    OBVIOUS
  <2>3. g = [i \in 0..LIST_NUM |-> g[i]] /\ e = [i \in 0..LIST_NUM |-> e[i]]
    OBVIOUS
  <2>4. g = e
    <3> HIDE DEF g, e
    <3> QED
      BY <2>1, <2>3
  <2> QED
    BY <2>4 DEF IsFrom
<1> DEFINE from == CHOOSE f : IsFrom(M, size, f)
<1>5. IsFrom(M, size, from)
  <2> HIDE DEF g
  <2> QED
    BY <1>4
<1>6. find_fit(M, size) = from[get_block_index(size)]
  BY DEF find_fit, IsFrom
<1> HIDE DEF from
<1> QED
  BY <1>5, <1>6

(***************************************************************************)
(* find_fit (mm.c:387) returns a listed block that is large enough, and    *)
(* NULL only if there is none: a block of a lower class is too small.      *)
(***************************************************************************)
THEOREM FindFitFinds ==
  ASSUME NEW M, NEW F, Listed(M, F), NEW size \in Nat
  PROVE  LET p == find_fit(M, size)
         IN  /\ p \in F \cup {0}
             /\ p # 0 => size <= Size(M, p)
             /\ p = 0 => \A c \in F : Size(M, c) < size
<1> DEFINE k == get_block_index(size)
           Hit(b) == b \in F /\ b # 0 /\ size <= Size(M, b)
           Miss(i) == \A c \in F : Class(M, c) >= i => Size(M, c) < size
<1>1. PICK from : IsFrom(M, size, from) /\ find_fit(M, size) = from[k]
  BY FindFitDefined
<1>2. /\ from[LIST_NUM] = 0
      /\ \A i \in Classes : from[i] = IF FirstFit(M, size, M.head[i]) # 0
                                      THEN FirstFit(M, size, M.head[i]) ELSE from[i + 1]
  BY <1>1 DEF IsFrom, LIST_NUM, Classes
<1>3. \A c \in F : Class(M, c) \in Classes /\ Size(M, c) \in Nat
  BY ClassOf DEF Listed, Linked
<1>4. k \in Classes
  BY ClassFacts
<1> DEFINE Good(i) == Hit(from[i]) \/ (from[i] = 0 /\ Miss(i))
           Bad == {i \in 0..LIST_NUM : ~Good(i)}
<1>5. Good(LIST_NUM)
  BY <1>2, <1>3 DEF Classes, LIST_NUM
<1>6. ASSUME NEW i \in Classes, Good(i + 1)
      PROVE  Good(i)
  <2> DEFINE p == FirstFit(M, size, M.head[i])
  <2>1. /\ p \in F \cup {0}
        /\ p # 0 => size <= Size(M, p)
        /\ p = 0 => \A c \in F : Class(M, c) = i => Size(M, c) < size
    BY FirstFitFinds
  <2>2. from[i] = IF p # 0 THEN p ELSE from[i + 1]
    BY <1>2
  <2> HIDE DEF p
  <2>3. CASE p # 0
    <3>1. from[i] = p
      BY <2>2, <2>3
    <3>2. Hit(p)
      BY <2>1, <2>3
    <3> QED
      BY <3>1, <3>2
  <2>4. CASE p = 0
    <3>1. Miss(i + 1) => Miss(i)
      <4>1. \A c \in F : Class(M, c) >= i => Class(M, c) = i \/ Class(M, c) >= i + 1
        BY <1>3 DEF Classes, LIST_NUM
      <4> QED
        BY <2>1, <2>4, <4>1
    <3> HIDE DEF Miss
    <3> QED
      BY <1>6, <2>2, <2>4, <3>1
  <2> QED
    BY <2>3, <2>4
<1> HIDE DEF Good
<1>7. Bad = {}
  <2> SUFFICES ASSUME Bad # {} PROVE FALSE
    OBVIOUS
  <2> DEFINE T == {LIST_NUM - i : i \in Bad}
  <2>1. T \subseteq Nat /\ T # {}
    BY DEF LIST_NUM
  <2>2. PICK x \in T : \A y \in T : x <= y
    <3> HIDE DEF T
    <3> QED
      BY <2>1, NatMin
  <2>3. PICK i \in Bad : x = LIST_NUM - i
    OBVIOUS
  <2>4. i \in Classes
    BY <1>5, <2>3 DEF Classes, LIST_NUM
  <2>5. ~(i + 1 \in Bad)
    <3> SUFFICES ASSUME i + 1 \in Bad PROVE FALSE
      OBVIOUS
    <3>1. LIST_NUM - (i + 1) \in T
      OBVIOUS
    <3>2. x <= LIST_NUM - (i + 1)
      BY <2>2, <3>1
    <3> QED
      BY <2>3, <2>4, <3>2 DEF Classes, LIST_NUM
  <2>6. Good(i + 1)
    BY <2>4, <2>5 DEF Classes, LIST_NUM
  <2> QED
    BY <1>6, <2>3, <2>4, <2>6
<1>8. Good(k)
  BY <1>4, <1>7 DEF Classes, LIST_NUM
<1>9. Miss(k) => \A c \in F : Size(M, c) < size
  <2> SUFFICES ASSUME Miss(k), NEW c \in F, ~(Size(M, c) < size)
               PROVE  FALSE
    OBVIOUS
  <2>1. size <= Size(M, c)
    BY <1>3
  <2>2. k <= Class(M, c)
    BY <1>3, <2>1, ClassOrder DEF Class
  <2> QED
    BY <1>3, <1>4, <2>2 DEF Classes, LIST_NUM
<1>10. 0 \notin F
  BY DEF Listed, Linked
<1> QED
  BY <1>1, <1>8, <1>9, <1>10 DEF Good

----------------------------------------------------------------------------
(* Sound heaps: tiled by blocks, every free block listed, no two free      *)
(* blocks side by side.                                                    *)

Calm(M) == /\ IsHeap(M) /\ Tiled(M) /\ M.marks = {} /\ M.state = "ok"
           /\ M.max \in Nat /\ M.brk <= M.max

Separate(M) == \A p \in FreeBlocks(M) : Alloc(M, NEXT_BLKP(M, p))

Sound(M) == Calm(M) /\ Listed(M, FreeBlocks(M)) /\ Separate(M)

\* Sound but for the free block p, which is on no list
Loose(M, p) ==
  /\ Calm(M) /\ Block(M, p) /\ p \in FreeBlocks(M)
  /\ Listed(M, FreeBlocks(M) \ {p})
  /\ \A q \in FreeBlocks(M) \ {p} : NEXT_BLKP(M, q) = p \/ Alloc(M, NEXT_BLKP(M, q))

\* The blocks that belong to clients
Used(M) == {p \in DOMAIN M.hdr \ {heap_listp, M.brk} : Alloc(M, p)}

\* The blocks of S have not been moved or resized.
Keeps(M, N, S) == \A p \in S : p \in DOMAIN N.hdr /\ N.hdr[p] = M.hdr[p]

\* A free block is neither the prologue nor the epilogue.
LEMMA FreeFacts ==
  ASSUME NEW M, Tiled(M), NEW p \in FreeBlocks(M)
  PROVE  p \in DOMAIN M.hdr /\ Block(M, p) /\ p # M.brk /\ heap_listp < p /\ p # 0
<1>1. p \in DOMAIN M.hdr /\ ~Alloc(M, p)
  BY DEF FreeBlocks
<1>2. /\ M.hdr[heap_listp] = [size |-> 8, alloc |-> TRUE]
      /\ M.hdr[M.brk] = [size |-> 0, alloc |-> TRUE]
  BY DEF Tiled, Ends
<1>3. p # heap_listp /\ p # M.brk
  BY <1>1, <1>2 DEF Alloc
<1>4. p \in Nat /\ heap_listp <= p
  BY <1>1 DEF Tiled, Places
<1> QED
  BY <1>1, <1>3, <1>4 DEF Block, heap_listp

\* A client's block is neither the prologue nor the epilogue, nor free.
LEMMA UsedFacts ==
  ASSUME NEW M, Tiled(M), NEW p \in Used(M)
  PROVE  p \in DOMAIN M.hdr /\ Block(M, p) /\ p # M.brk /\ heap_listp < p /\ p # 0
         /\ Alloc(M, p) /\ p \notin FreeBlocks(M)
<1>1. p \in DOMAIN M.hdr \ {heap_listp, M.brk} /\ Alloc(M, p)
  BY DEF Used
<1>2. p \in Nat /\ heap_listp <= p
  BY <1>1 DEF Tiled, Places
<1> QED
  BY <1>1, <1>2 DEF Block, heap_listp, FreeBlocks

\* A block that holds the heap's data, and the one behind it
LEMMA NextFacts ==
  ASSUME NEW M, Tiled(M), NEW p, Block(M, p)
  PROVE  /\ p \in DOMAIN M.hdr /\ p \in Nat /\ heap_listp < p /\ p % 8 = 0
         /\ NEXT_BLKP(M, p) \in DOMAIN M.hdr /\ NEXT_BLKP(M, p) = p + Size(M, p)
         /\ Size(M, p) \in Nat /\ Size(M, p) >= MinBlock /\ Size(M, p) % 8 = 0
         /\ p < NEXT_BLKP(M, p) /\ NEXT_BLKP(M, p) <= M.brk /\ M.brk \in Nat
         /\ NEXT_BLKP(M, p) \in Nat /\ NEXT_BLKP(M, p) # heap_listp
         /\ \A q \in DOMAIN M.hdr : q \in Nat /\ (q <= p \/ NEXT_BLKP(M, p) <= q)
<1>1. p \in DOMAIN M.hdr /\ p # M.brk /\ p # heap_listp
  BY DEF Block
<1>2. /\ p \in Nat /\ heap_listp <= p /\ p % 8 = 0 /\ Tile(M, p)
      /\ \A q \in DOMAIN M.hdr : q \in Nat
  BY <1>1 DEF Tiled, Places
<1>3. heap_listp < p
  BY <1>1, <1>2 DEF heap_listp
<1>4. /\ Size(M, p) \in Nat /\ NEXT_BLKP(M, p) = p + Size(M, p) /\ M.brk \in Nat
      /\ p < NEXT_BLKP(M, p) /\ NEXT_BLKP(M, p) <= M.brk /\ NEXT_BLKP(M, p) \in Nat
  BY <1>1, BlockFacts
<1>5. /\ NEXT_BLKP(M, p) \in DOMAIN M.hdr /\ Size(M, p) % 8 = 0 /\ Size(M, p) >= MinBlock
      /\ \A q \in DOMAIN M.hdr : q <= p \/ NEXT_BLKP(M, p) <= q
  BY <1>1, <1>2 DEF Tile
<1>6. NEXT_BLKP(M, p) # heap_listp
  BY <1>2, <1>3, <1>4 DEF heap_listp
<1> QED
  BY <1>1, <1>2, <1>3, <1>4, <1>5, <1>6

\* The block before, found by its footer, and no other block ends at p.
LEMMA PrevFacts ==
  ASSUME NEW M, Tiled(M), NEW p, Block(M, p)
  PROVE  LET prev == PREV_BLKP(M, p)
         IN  /\ prev \in DOMAIN M.hdr /\ prev \in Nat /\ prev < p /\ prev # M.brk
             /\ NEXT_BLKP(M, prev) = p /\ prev + Size(M, prev) = p
             /\ Size(M, prev) \in Nat
             /\ M.ftr[p] = M.hdr[prev]
             /\ \A q \in DOMAIN M.hdr : q <= prev \/ p <= q
             /\ \A q \in DOMAIN M.hdr \ {M.brk} : NEXT_BLKP(M, q) = p => q = prev
<1>1. p \in DOMAIN M.hdr /\ p # M.brk /\ p # heap_listp /\ p \in Nat
  BY DEF Block, Tiled, Places
<1>2. PICK q \in DOMAIN M.hdr \ {M.brk} : p = NEXT_BLKP(M, q)
  BY <1>1 DEF Tiled, Reached
<1>3. /\ q \in Nat /\ Size(M, q) \in Nat /\ p = q + Size(M, q) /\ q < p
  BY <1>2, BlockFacts
<1>4. M.ftr[p] = M.hdr[q] /\ \A s \in DOMAIN M.hdr : s <= q \/ p <= s
  BY <1>2 DEF Tiled, Tile
<1>5. PREV_BLKP(M, p) = q
  BY <1>1, <1>3, <1>4 DEF PREV_BLKP, Size
<1>6. ASSUME NEW s \in DOMAIN M.hdr \ {M.brk}, NEXT_BLKP(M, s) = p
      PROVE  s = q
  <2>1. s \in Nat /\ s < p /\ \A t \in DOMAIN M.hdr : t <= s \/ p <= t
    BY <1>6, BlockFacts DEF Tiled, Tile
  <2> QED
    BY <1>2, <1>3, <1>4, <2>1
<1> QED
  BY <1>2, <1>3, <1>4, <1>5, <1>6

Outer(S, lo, hi)  == {q \in S : q < lo \/ q >= hi}
Within(I, lo, hi) == \A q \in I : q \in Nat /\ lo <= q /\ q < hi
FreeOf(R, I)      == {q \in I : ~Alloc(R, q)}
UsedOf(R, I)      == {q \in I : Alloc(R, q)}

\* How a change of the tiling of lo..hi shows in the blocks
LEMMA RefitBlocks ==
  ASSUME NEW M, NEW R, Tiled(M), Tiled(R), NEW I,
         NEW lo \in DOMAIN M.hdr, NEW hi \in DOMAIN M.hdr, heap_listp < lo, lo < hi,
         Refit(M, R, lo, hi, I), Within(I, lo, hi)
  PROVE  /\ FreeBlocks(R) = Outer(FreeBlocks(M), lo, hi) \cup FreeOf(R, I)
         /\ Used(R) = Outer(Used(M), lo, hi) \cup UsedOf(R, I)
         /\ \A q \in DOMAIN M.hdr : q < lo \/ q >= hi => Size(R, q) = Size(M, q)
         /\ Keeps(M, R, Outer(Used(M), lo, hi))
<1>1. /\ R.brk = M.brk
      /\ DOMAIN R.hdr = {q \in DOMAIN M.hdr : q < lo \/ q >= hi} \cup I
      /\ \A q \in DOMAIN M.hdr : q < lo \/ q >= hi => R.hdr[q] = M.hdr[q]
  BY DEF Refit
<1>2. /\ \A q \in DOMAIN M.hdr : q \in Nat /\ q <= M.brk
      /\ M.brk \in Nat /\ lo \in Nat /\ hi \in Nat
  BY DEF Tiled, Places, Ends
<1>3. \A q \in DOMAIN M.hdr : q < lo \/ q >= hi => /\ Size(R, q) = Size(M, q)
                                                   /\ Alloc(R, q) = Alloc(M, q)
  BY <1>1 DEF Size, Alloc
<1>4. \A q \in I : q # M.brk /\ q # heap_listp
  BY <1>2 DEF heap_listp, Within
<1>5. FreeBlocks(R) = Outer(FreeBlocks(M), lo, hi) \cup FreeOf(R, I)
  <2>1. \A q : q \in FreeBlocks(R) <=> q \in Outer(FreeBlocks(M), lo, hi)
                                             \cup FreeOf(R, I)
    BY <1>1, <1>3 DEF FreeBlocks, Outer, FreeOf
  <2> QED
    BY <2>1
<1>6. Used(R) = Outer(Used(M), lo, hi) \cup UsedOf(R, I)
  <2>1. \A q : q \in Used(R) <=> q \in Outer(Used(M), lo, hi) \cup UsedOf(R, I)
    BY <1>1, <1>3, <1>4 DEF Used, Outer, UsedOf
  <2> QED
    BY <2>1
<1>7. Keeps(M, R, Outer(Used(M), lo, hi))
  BY <1>1 DEF Keeps, Used, Outer
<1> QED
  BY <1>3, <1>5, <1>6, <1>7

\* No two free blocks side by side, if none are at the ends of lo..hi
LEMMA RefitSeparate ==
  ASSUME NEW M, NEW R, Tiled(M), Tiled(R), NEW I,
         NEW lo \in DOMAIN M.hdr, NEW hi \in DOMAIN M.hdr, heap_listp < lo, lo < hi,
         Refit(M, R, lo, hi, I), Within(I, lo, hi),
         \A q \in FreeBlocks(M) : q < lo \/ q >= hi =>
            NEXT_BLKP(M, q) = lo \/ Alloc(M, NEXT_BLKP(M, q)),
         Alloc(R, lo) \/ \A q \in FreeBlocks(M) : NEXT_BLKP(M, q) # lo,
         \A q \in I : ~Alloc(R, q) => Alloc(R, NEXT_BLKP(R, q))
  PROVE  Separate(R)
<1> SUFFICES ASSUME NEW p \in FreeBlocks(R) PROVE Alloc(R, NEXT_BLKP(R, p))
  BY DEF Separate
<1>1. CASE p \in I /\ ~Alloc(R, p)
  BY <1>1
<1>2. CASE p \in FreeBlocks(M) /\ (p < lo \/ p >= hi)
  <2> DEFINE t == NEXT_BLKP(M, p)
  <2>1. p \in DOMAIN M.hdr /\ Block(M, p)
    BY <1>2, FreeFacts
  <2>2. /\ t \in DOMAIN M.hdr /\ p < t /\ t \in Nat /\ p \in Nat
        /\ \A q \in DOMAIN M.hdr : q \in Nat /\ (q <= p \/ t <= q)
    BY <2>1, NextFacts
  <2>3. R.hdr[p] = M.hdr[p]
    BY <1>2, <2>1 DEF Refit
  <2>4. NEXT_BLKP(R, p) = t
    BY <2>3, SameTile
  <2>5. t = lo \/ t < lo \/ t >= hi
    BY <1>2, <2>2
  <2>6. CASE t = lo
    BY <1>2, <2>4, <2>6
  <2>7. CASE t # lo
    <3>1. Alloc(M, t)
      BY <1>2, <2>7
    <3>2. R.hdr[t] = M.hdr[t]
      BY <2>2, <2>5, <2>7 DEF Refit
    <3> HIDE DEF t
    <3> QED
      BY <2>4, <3>1, <3>2, SameTile
  <2> QED
    BY <2>6, <2>7
<1>3. FreeBlocks(R) = Outer(FreeBlocks(M), lo, hi) \cup FreeOf(R, I)
  BY RefitBlocks
<1> QED
  BY <1>1, <1>2, <1>3 DEF Outer, FreeOf

\* A routine that works on links leaves the blocks as they are.
LEMMA SameBlocks ==
  ASSUME NEW M, NEW N, SameTiles(M, N)
  PROVE  /\ FreeBlocks(N) = FreeBlocks(M) /\ Used(N) = Used(M)
         /\ DOMAIN N.hdr = DOMAIN M.hdr /\ N.brk = M.brk
         /\ \A p : /\ Size(N, p) = Size(M, p) /\ Alloc(N, p) = Alloc(M, p)
                   /\ NEXT_BLKP(N, p) = NEXT_BLKP(M, p)
                   /\ N.hdr[p] = M.hdr[p]
                   /\ Block(N, p) <=> Block(M, p)
<1>1. N.hdr = M.hdr /\ N.brk = M.brk
  BY DEF SameTiles
<1>2. \A p : /\ Size(N, p) = Size(M, p) /\ Alloc(N, p) = Alloc(M, p)
             /\ NEXT_BLKP(N, p) = NEXT_BLKP(M, p)
  BY <1>1 DEF Size, Alloc, NEXT_BLKP
<1>3. FreeBlocks(N) = FreeBlocks(M)
  BY <1>1, <1>2 DEF FreeBlocks
<1>4. Used(N) = Used(M)
  BY <1>1, <1>2 DEF Used
<1>5. \A p : Block(N, p) <=> Block(M, p)
  BY <1>1 DEF Block
<1> QED
  BY <1>1, <1>2, <1>3, <1>4, <1>5

\* The last step of most routines: the one unlisted block is listed.
LEMMA InsertSound ==
  ASSUME NEW M, Calm(M), Separate(M), NEW p \in FreeBlocks(M),
         Listed(M, FreeBlocks(M) \ {p})
  PROVE  Sound(insert_block(M, p)) /\ SameTiles(M, insert_block(M, p))
<1> DEFINE R == insert_block(M, p)
           F == FreeBlocks(M) \ {p}
<1>1. IsHeap(M) /\ Tiled(M) /\ M.marks = {}
  BY DEF Calm
<1>2. IsHeap(R) /\ SameTiles(M, R) /\ R.marks \subseteq M.marks
  BY <1>1, InsertWrites
<1>3. p # 0 /\ Size(M, p) \in Nat /\ p \notin F /\ F \cup {p} = FreeBlocks(M)
  BY <1>1, FreeFacts, NextFacts
<1>4. Listed(R, FreeBlocks(M))
  <2> HIDE DEF F
  <2>1. Listed(M, F)
    BY DEF F
  <2> QED
    BY <1>1, <1>3, <2>1, InsertLists
<1> HIDE DEF R
<1>5. FreeBlocks(R) = FreeBlocks(M) /\ Tiled(R)
  BY <1>1, <1>2, SameBlocks, TiledStays
<1>6. Separate(R)
  BY <1>2, <1>5, SameBlocks DEF Separate
<1>7. Calm(R)
  BY <1>1, <1>2, <1>5 DEF Calm, SameTiles
<1> QED
  BY <1>2, <1>4, <1>5, <1>6, <1>7 DEF Sound, R

\* A block taken off its list
LEMMA RemoveCalm ==
  ASSUME NEW M, Calm(M), NEW F, Listed(M, F), NEW p \in F
  PROVE  LET R == remove_block(M, p)
         IN  Calm(R) /\ SameTiles(M, R) /\ Listed(R, F \ {p})
<1> DEFINE R == remove_block(M, p)
<1>1. IsHeap(M) /\ Tiled(M) /\ M.marks = {} /\ p \in DOMAIN M.link
  BY DEF Calm, Listed
<1>2. IsHeap(R) /\ SameTiles(M, R) /\ R.marks \subseteq M.marks
  BY <1>1, RemoveWrites
<1>3. Listed(R, F \ {p})
  BY <1>1, RemoveLists
<1> HIDE DEF R
<1>4. Tiled(R)
  BY <1>1, <1>2, TiledStays
<1>5. Calm(R)
  BY <1>1, <1>2, <1>4 DEF Calm, SameTiles
<1> QED
  BY <1>2, <1>3, <1>5 DEF R

\* PutOne where no listed block is
LEMMA FillOne ==
  ASSUME NEW M, Calm(M), NEW lo \in DOMAIN M.hdr, NEW hi \in DOMAIN M.hdr,
         heap_listp < lo, lo < hi, NEW alloc \in BOOLEAN,
         NEW F, Listed(M, F), F \subseteq DOMAIN M.hdr, \A b \in F : b < lo \/ b >= hi
  PROVE  LET R == Put(M, lo, hi - lo, alloc)
         IN  /\ Calm(R) /\ Refit(M, R, lo, hi, {lo}) /\ Within({lo}, lo, hi)
             /\ R.hdr[lo] = [size |-> hi - lo, alloc |-> alloc]
             /\ Listed(R, F) /\ R.brk = M.brk /\ R.max = M.max
<1> DEFINE R == Put(M, lo, hi - lo, alloc)
<1>1. IsHeap(M) /\ Tiled(M) /\ M.marks = {}
  BY DEF Calm
<1>2. /\ IsHeap(R) /\ Tiled(R) /\ SameLists(M, R) /\ R.marks \subseteq M.marks
      /\ Refit(M, R, lo, hi, {lo})
      /\ R.hdr[lo] = [size |-> hi - lo, alloc |-> alloc]
  BY <1>1, PutOne
<1> HIDE DEF R
<1>3. Within({lo}, lo, hi)
  BY <1>1, RegionFacts DEF Within
<1>4. R.brk = M.brk /\ R.max = M.max /\ R.state = M.state
  BY <1>2 DEF Refit, SameLists
<1>5. Calm(R)
  BY <1>1, <1>2, <1>4 DEF Calm
<1>6. \A q \in DOMAIN M.hdr : q < lo \/ q >= hi => Size(R, q) = Size(M, q)
  BY <1>1, <1>2, <1>3, RefitBlocks
<1>7. \A b \in F : Size(R, b) = Size(M, b)
  BY <1>6
<1>8. Listed(R, F)
  BY <1>2, <1>7, ListsStay
<1> QED
  BY <1>2, <1>3, <1>4, <1>5, <1>8 DEF R

\* What a tag says of its block
LEMMA SizeOfTag ==
  ASSUME NEW M, NEW p, NEW size, NEW alloc, M.hdr[p] = [size |-> size, alloc |-> alloc]
  PROVE  Size(M, p) = size /\ Alloc(M, p) = alloc /\ NEXT_BLKP(M, p) = p + size
BY DEF Size, Alloc, NEXT_BLKP

(***************************************************************************)
(* coalesce (mm.c:451) makes a sound heap of one with a loose free block:  *)
(* it joins it with its free neighbours, and no client's block changes.    *)
(***************************************************************************)
THEOREM CoalesceSound ==
  ASSUME NEW M, NEW p, Loose(M, p)
  PROVE  LET r == coalesce(M, p)
             R == r.heap
         IN  /\ Sound(R) /\ R.brk = M.brk /\ R.max = M.max
             /\ Used(R) = Used(M) /\ Keeps(M, R, Used(M))
             /\ r.ptr \in FreeBlocks(R) /\ Size(R, r.ptr) >= Size(M, p)
             /\ \A q \in FreeBlocks(M) : q < p => q \in FreeBlocks(R)
<1> DEFINE prev     == PREV_BLKP(M, p)
           next     == NEXT_BLKP(M, p)
           pf       == ~Alloc(M, prev)
           nf       == ~Alloc(M, next)
           start    == IF pf THEN prev ELSE p
           size     == Size(M, p) + (IF pf THEN Size(M, prev) ELSE 0)
                                  + (IF nf THEN Size(M, next) ELSE 0)
           M1       == IF pf THEN remove_block(M, prev) ELSE M
           M2       == IF nf THEN remove_block(M1, next) ELSE M1
           P        == Put(M2, start, size, FALSE)
           R        == insert_block(P, start)
           hi       == IF nf THEN NEXT_BLKP(M, next) ELSE next
           F        == FreeBlocks(M) \ {p}
           F1       == IF pf THEN F \ {prev} ELSE F
           F2       == IF nf THEN F1 \ {next} ELSE F1
<1>1. /\ Calm(M) /\ Tiled(M) /\ Block(M, p) /\ p \in FreeBlocks(M) /\ Listed(M, F)
      /\ \A q \in F : NEXT_BLKP(M, q) = p \/ Alloc(M, NEXT_BLKP(M, q))
  BY DEF Loose, Calm
\* The neighbours
<1>2. /\ p \in DOMAIN M.hdr /\ p \in Nat /\ heap_listp < p
      /\ next \in DOMAIN M.hdr /\ next = p + Size(M, p) /\ Size(M, p) \in Nat
      /\ p < next /\ next \in Nat /\ next # heap_listp
      /\ \A q \in DOMAIN M.hdr : q \in Nat /\ (q <= p \/ next <= q)
  BY <1>1, NextFacts
<1>3. /\ prev \in DOMAIN M.hdr /\ prev \in Nat /\ prev < p
      /\ NEXT_BLKP(M, prev) = p /\ prev + Size(M, prev) = p /\ Size(M, prev) \in Nat
      /\ M.ftr[p] = M.hdr[prev]
      /\ \A q \in DOMAIN M.hdr : q <= prev \/ p <= q
      /\ \A q \in DOMAIN M.hdr \ {M.brk} : NEXT_BLKP(M, q) = p => q = prev
  BY <1>1, PrevFacts
<1>4. coalesce(M, p) = Result(R, start)
  <2>1. M.ftr[prev + Size(M, prev)].alloc = Alloc(M, prev)
    <3>1. M.ftr[prev + Size(M, prev)] = M.hdr[prev]
      BY <1>3
    <3> QED
      BY <3>1 DEF Alloc
  <2> QED
    BY <2>1 DEF coalesce
<1> HIDE DEF prev, next
<1>5. pf => prev \in F /\ heap_listp < prev
  BY <1>1, <1>2, <1>3, FreeFacts DEF FreeBlocks
<1>6. nf => /\ next \in F /\ Alloc(M, NEXT_BLKP(M, next))
            /\ NEXT_BLKP(M, next) \in DOMAIN M.hdr /\ NEXT_BLKP(M, next) \in Nat
            /\ NEXT_BLKP(M, next) = next + Size(M, next) /\ Size(M, next) \in Nat
            /\ next < NEXT_BLKP(M, next)
            /\ \A q \in DOMAIN M.hdr : q <= next \/ NEXT_BLKP(M, next) <= q
  <2> SUFFICES ASSUME nf
               PROVE  /\ next \in F /\ Alloc(M, NEXT_BLKP(M, next))
                      /\ NEXT_BLKP(M, next) \in DOMAIN M.hdr /\ NEXT_BLKP(M, next) \in Nat
                      /\ NEXT_BLKP(M, next) = next + Size(M, next) /\ Size(M, next) \in Nat
                      /\ next < NEXT_BLKP(M, next)
                      /\ \A q \in DOMAIN M.hdr : q <= next \/ NEXT_BLKP(M, next) <= q
    OBVIOUS
  <2>1. next \in FreeBlocks(M) /\ next # p
    BY <1>2 DEF FreeBlocks
  <2>2. Block(M, next)
    BY <1>1, <2>1, FreeFacts
  <2>3. /\ NEXT_BLKP(M, next) \in DOMAIN M.hdr /\ NEXT_BLKP(M, next) \in Nat
        /\ NEXT_BLKP(M, next) = next + Size(M, next) /\ Size(M, next) \in Nat
        /\ next < NEXT_BLKP(M, next)
        /\ \A q \in DOMAIN M.hdr : q <= next \/ NEXT_BLKP(M, next) <= q
    BY <1>1, <2>2, NextFacts
  <2>4. NEXT_BLKP(M, next) # p
    BY <1>2, <2>3
  <2> QED
    BY <1>1, <2>1, <2>3, <2>4
<1>7. /\ start \in DOMAIN M.hdr /\ hi \in DOMAIN M.hdr /\ start \in Nat /\ hi \in Nat
      /\ heap_listp < start /\ start <= p /\ p < hi /\ start < hi /\ hi - start = size
      /\ size >= Size(M, p)
  BY <1>2, <1>3, <1>5, <1>6
<1>8. Alloc(M, hi)
  BY <1>6
<1>9. \A q \in DOMAIN M.hdr : (start <= q /\ q < hi)
                                <=> q = p \/ (pf /\ q = prev) \/ (nf /\ q = next)
  BY <1>2, <1>3, <1>5, <1>6
<1> HIDE DEF pf, nf, M1, M2, start, hi, size
<1>10. F2 = Outer(FreeBlocks(M), start, hi)
  <2>1. \A q \in FreeBlocks(M) : (q < start \/ q >= hi) <=> ~(start <= q /\ q < hi)
    BY <1>2, <1>7 DEF FreeBlocks
  <2>2. \A q : q \in F2 <=> q \in FreeBlocks(M) /\ q # p /\ ~(pf /\ q = prev) /\ ~(nf /\ q = next)
    OBVIOUS
  <2>3. \A q : q \in F2 <=> q \in Outer(FreeBlocks(M), start, hi)
    BY <1>9, <2>1, <2>2 DEF Outer, FreeBlocks
  <2> QED
    BY <2>3
\* Off the lists
<1> HIDE DEF F
<1>11. Calm(M1) /\ SameTiles(M, M1) /\ Listed(M1, F1)
  <2>1. CASE pf
    BY <1>1, <1>5, <2>1, RemoveCalm DEF M1
  <2>2. CASE ~pf
    BY <1>1, <2>2 DEF M1, SameTiles
  <2> QED
    BY <2>1, <2>2
<1>12. nf => next \in F1
  BY <1>2, <1>3, <1>6
<1> HIDE DEF F1
<1>13. Calm(M2) /\ SameTiles(M1, M2) /\ Listed(M2, F2)
  <2>1. CASE nf
    BY <1>11, <1>12, <2>1, RemoveCalm DEF M2
  <2>2. CASE ~nf
    BY <1>11, <2>2 DEF M2, SameTiles
  <2> QED
    BY <2>1, <2>2
<1>14. SameTiles(M, M2)
  BY <1>11, <1>13 DEF SameTiles
\* One block
<1> HIDE DEF F2
<1>15. /\ FreeBlocks(M2) = FreeBlocks(M) /\ Used(M2) = Used(M)
       /\ DOMAIN M2.hdr = DOMAIN M.hdr /\ M2.brk = M.brk /\ M2.max = M.max
       /\ \A q : /\ Size(M2, q) = Size(M, q) /\ Alloc(M2, q) = Alloc(M, q)
                 /\ NEXT_BLKP(M2, q) = NEXT_BLKP(M, q) /\ M2.hdr[q] = M.hdr[q]
  BY <1>14, SameBlocks DEF SameTiles
<1>16. F2 \subseteq DOMAIN M2.hdr /\ \A b \in F2 : b < start \/ b >= hi
  BY <1>10, <1>15 DEF Outer, FreeBlocks
<1> DEFINE no == FALSE
<1>17. no \in BOOLEAN
  OBVIOUS
<1> HIDE DEF no
<1> DEFINE Q == Put(M2, start, hi - start, no)
<1>18. /\ Calm(Q) /\ Refit(M2, Q, start, hi, {start}) /\ Within({start}, start, hi)
       /\ Q.hdr[start] = [size |-> hi - start, alloc |-> no]
       /\ Listed(Q, F2) /\ Q.brk = M2.brk /\ Q.max = M2.max
  <2>1. start \in DOMAIN M2.hdr /\ hi \in DOMAIN M2.hdr /\ heap_listp < start /\ start < hi
    BY <1>7, <1>15
  <2> HIDE DEF Q
  <2> QED
    BY <1>13, <1>16, <1>17, <2>1, FillOne DEF Q
<1>19. P = Q
  BY <1>7 DEF no
<1> HIDE DEF Q
<1>20. Size(Q, start) = hi - start /\ ~Alloc(Q, start) /\ NEXT_BLKP(Q, start) = hi
  <2>1. Size(Q, start) = hi - start /\ Alloc(Q, start) = no
        /\ NEXT_BLKP(Q, start) = start + (hi - start)
    BY <1>18, SizeOfTag
  <2> QED
    BY <1>7, <2>1 DEF no
<1>21. Tiled(M2) /\ Tiled(Q)
  BY <1>13, <1>18 DEF Calm
<1>22. /\ FreeBlocks(Q) = Outer(FreeBlocks(M), start, hi) \cup FreeOf(Q, {start})
       /\ Used(Q) = Outer(Used(M), start, hi) \cup UsedOf(Q, {start})
       /\ Keeps(M2, Q, Outer(Used(M), start, hi))
  <2>1. start \in DOMAIN M2.hdr /\ hi \in DOMAIN M2.hdr /\ heap_listp < start /\ start < hi
    BY <1>7, <1>15
  <2> DEFINE I == {start}
  <2>2. Refit(M2, Q, start, hi, I) /\ Within(I, start, hi)
    BY <1>18
  <2> HIDE DEF I
  <2>3. /\ FreeBlocks(Q) = Outer(FreeBlocks(M2), start, hi) \cup FreeOf(Q, I)
        /\ Used(Q) = Outer(Used(M2), start, hi) \cup UsedOf(Q, I)
        /\ Keeps(M2, Q, Outer(Used(M2), start, hi))
    BY <1>21, <2>1, <2>2, RefitBlocks
  <2> QED
    BY <1>15, <2>3 DEF I
<1>23. FreeBlocks(Q) = F2 \cup {start}
  BY <1>10, <1>20, <1>22 DEF FreeOf
<1>24. Outer(Used(M), start, hi) = Used(M)
  <2>1. \A q \in Used(M) : q \in DOMAIN M.hdr /\ q \notin FreeBlocks(M)
    BY <1>1, UsedFacts
  <2>2. \A q \in Used(M) : ~(start <= q /\ q < hi)
    BY <1>1, <1>5, <1>6, <1>9, <2>1 DEF F
  <2>3. \A q \in Used(M) : q < start \/ q >= hi
    BY <1>2, <1>7, <2>1, <2>2
  <2> QED
    BY <2>3 DEF Outer
<1>25. Used(Q) = Used(M)
  BY <1>20, <1>22, <1>24 DEF UsedOf
<1>26. Separate(Q)
  <2>1. start \in DOMAIN M2.hdr /\ hi \in DOMAIN M2.hdr /\ heap_listp < start /\ start < hi
    BY <1>7, <1>15
  <2>2. ASSUME NEW q \in FreeBlocks(M2), q < start \/ q >= hi
        PROVE  NEXT_BLKP(M2, q) = start \/ Alloc(M2, NEXT_BLKP(M2, q))
    <3>1. q \in F2
      BY <1>10, <1>15, <2>2 DEF Outer
    <3>2. q \in F
      BY <3>1 DEF F2, F1
    <3>3. CASE NEXT_BLKP(M, q) = p
      <4>1. q = prev
        BY <1>1, <1>3, <3>2, <3>3, FreeFacts DEF F
      <4>2. ~pf
        BY <3>1, <4>1 DEF F2, F1
      <4>3. start = p
        BY <4>2 DEF start
      <4> QED
        BY <1>15, <3>3, <4>3
    <3>4. CASE NEXT_BLKP(M, q) # p
      BY <1>1, <1>15, <3>2, <3>4
    <3> QED
      BY <3>3, <3>4
  <2>3. \A q \in FreeBlocks(M2) : NEXT_BLKP(M2, q) # start
    <3> SUFFICES ASSUME NEW q \in FreeBlocks(M), NEXT_BLKP(M, q) = start PROVE FALSE
      BY <1>15
    <3>1. q \in DOMAIN M.hdr \ {M.brk} /\ Block(M, q) /\ ~Alloc(M, q)
      BY <1>1, FreeFacts DEF FreeBlocks
    <3>2. q < start
      BY <1>1, <3>1, NextFacts
    <3>3. q # p
      BY <1>2, <1>7, <3>2
    <3>4. CASE pf
      <4>1. start = prev /\ ~Alloc(M, prev)
        BY <3>4 DEF start, pf
      <4>2. q \in F /\ start # p
        BY <1>2, <1>3, <3>3, <4>1 DEF F
      <4> QED
        BY <1>1, <4>1, <4>2
    <3>5. CASE ~pf
      <4>1. start = p /\ Alloc(M, prev)
        BY <3>5 DEF start, pf
      <4>2. q = prev
        BY <1>3, <3>1, <4>1
      <4> QED
        BY <3>1, <4>1, <4>2
    <3> QED
      BY <3>4, <3>5
  <2>4. \A q \in {start} : ~Alloc(Q, q) => Alloc(Q, NEXT_BLKP(Q, q))
    <3>1. hi >= hi /\ hi \in DOMAIN M2.hdr
      BY <1>7, <2>1
    <3>2. Q.hdr[hi] = M.hdr[hi]
      BY <1>15, <1>18, <3>1 DEF Refit
    <3>3. Alloc(Q, hi)
      BY <1>8, <3>2, SameTile
    <3> QED
      BY <1>20, <3>3
  <2> QED
    BY <1>18, <1>21, <2>1, <2>2, <2>3, <2>4, RefitSeparate
<1>27. start \in FreeBlocks(Q) /\ FreeBlocks(Q) \ {start} = F2
  <2>1. start \notin F2
    BY <1>7, <1>16
  <2> QED
    BY <1>23, <2>1
<1>28. Sound(R) /\ SameTiles(Q, R)
  BY <1>18, <1>19, <1>26, <1>27, InsertSound
<1> HIDE DEF R
<1>29. /\ FreeBlocks(R) = FreeBlocks(Q) /\ Used(R) = Used(Q) /\ R.brk = Q.brk
       /\ R.max = Q.max /\ DOMAIN R.hdr = DOMAIN Q.hdr
       /\ \A q : Size(R, q) = Size(Q, q) /\ R.hdr[q] = Q.hdr[q]
  BY <1>28, SameBlocks DEF SameTiles
<1>30. Keeps(M, R, Used(M))
  BY <1>15, <1>22, <1>24, <1>29 DEF Keeps
<1>31. \A q \in FreeBlocks(M) : q < p => q \in FreeBlocks(R)
  <2> SUFFICES ASSUME NEW q \in FreeBlocks(M), q < p PROVE q \in F2 \cup {start}
    BY <1>23, <1>29
  <2>1. q \in DOMAIN M.hdr
    BY DEF FreeBlocks
  <2>2. CASE q < start \/ q >= hi
    BY <1>10, <2>2 DEF Outer
  <2>3. CASE start <= q /\ q < hi
    <3>1. pf /\ q = prev
      BY <1>2, <1>9, <2>1, <2>3
    <3> QED
      BY <3>1 DEF start
  <2> QED
    BY <1>2, <1>7, <2>1, <2>2, <2>3
<1>32. /\ R.brk = M.brk /\ R.max = M.max /\ Used(R) = Used(M) /\ start \in FreeBlocks(R)
       /\ Size(R, start) >= Size(M, p)
  BY <1>7, <1>15, <1>18, <1>20, <1>25, <1>27, <1>29
<1>33. coalesce(M, p).heap = R /\ coalesce(M, p).ptr = start
  BY <1>4 DEF Result, R
<1> HIDE DEF start
<1> QED
  BY <1>28, <1>30, <1>31, <1>32, <1>33

\* The heap has grown by size bytes, and a free block of at least that is at r.ptr.
Grown(M, r, size) ==
  /\ Sound(r.heap) /\ r.heap.brk = M.brk + size /\ r.heap.max = M.max
  /\ Used(r.heap) = Used(M) /\ Keeps(M, r.heap, Used(M))
  /\ r.ptr \in FreeBlocks(r.heap) /\ Size(r.heap, r.ptr) >= size
  /\ FreeBlocks(M) \subseteq FreeBlocks(r.heap)

(***************************************************************************)
(* extend_heap (mm.c:207) fails exactly at mem_max_addr, and then leaves   *)
(* the heap as it was; otherwise the break moves by what is asked for.     *)
(***************************************************************************)
THEOREM ExtendSound ==
  ASSUME NEW M, Sound(M), NEW size \in Nat, size % 8 = 0, size >= MinBlock
  PROVE  LET r == extend_heap(M, size \div 4)
         IN  IF M.brk + size > M.max THEN r = Result(M, 0) ELSE Grown(M, r, size)
<1> DEFINE r == extend_heap(M, size \div 4)
           p == M.brk
           E == Extended(M, size)
           F == FreeBlocks(M)
<1>1. /\ Calm(M) /\ IsHeap(M) /\ Tiled(M) /\ M.marks = {} /\ M.max \in Nat
      /\ M.state = "ok" /\ Listed(M, F) /\ Separate(M)
  BY DEF Sound, Calm
<1>2. r = IF p + size > M.max THEN Result(M, 0) ELSE coalesce(E, p)
  BY ExtendsBy
<1>3. /\ IsHeap(E) /\ Tiled(E) /\ SameLists(M, E) /\ E.brk = p + size
      /\ E.marks \subseteq M.marks /\ Block(E, p)
      /\ DOMAIN E.hdr = DOMAIN M.hdr \cup {p + size}
      /\ E.hdr[p] = [size |-> size, alloc |-> FALSE]
      /\ \A a \in DOMAIN M.hdr : a # p => E.hdr[a] = M.hdr[a]
  BY <1>1, ExtendedTiled
<1> HIDE DEF E, r
<1>4. /\ p \in Nat /\ p \in DOMAIN M.hdr /\ \A q \in DOMAIN M.hdr : q \in Nat /\ q <= p
      /\ p # heap_listp
  BY <1>1 DEF Tiled, Places, Ends
<1>5. p + size > p
  BY <1>4 DEF MinBlock
<1>6. \A a \in DOMAIN M.hdr : a # p => /\ Size(E, a) = Size(M, a)
                                       /\ Alloc(E, a) = Alloc(M, a)
                                       /\ NEXT_BLKP(E, a) = NEXT_BLKP(M, a)
  BY <1>3, SameTile
<1>7. /\ Size(E, p) = size /\ ~Alloc(E, p)
  BY <1>3 DEF Size, Alloc
<1>8. E.hdr[p + size] = [size |-> 0, alloc |-> TRUE]
  BY <1>3 DEF Tiled, Ends
<1>9. Alloc(E, p + size) /\ Alloc(M, p)
  BY <1>1, <1>8 DEF Alloc, Tiled, Ends
<1>10. p \notin F /\ \A q \in F : q \in DOMAIN M.hdr /\ q # p
  BY <1>9 DEF FreeBlocks
<1>11. FreeBlocks(E) = F \cup {p}
  <2>1. \A q : q \in FreeBlocks(E) <=> q \in F \cup {p}
    BY <1>3, <1>4, <1>5, <1>6, <1>7, <1>9 DEF FreeBlocks
  <2> QED
    BY <2>1
<1>12. Used(E) = Used(M)
  <2>1. \A q : q \in Used(E) <=> q \in Used(M)
    BY <1>3, <1>4, <1>5, <1>6, <1>7 DEF Used
  <2> QED
    BY <2>1
<1>13. Listed(E, F)
  BY <1>1, <1>3, <1>6, <1>10, ListsStay
<1>14. ASSUME p + size <= M.max
       PROVE  Loose(E, p)
  <2>1. Calm(E)
    BY <1>1, <1>3, <1>14 DEF Calm, SameLists
  <2>2. FreeBlocks(E) \ {p} = F
    BY <1>10, <1>11
  <2>3. ASSUME NEW q \in F
        PROVE  NEXT_BLKP(E, q) = p \/ Alloc(E, NEXT_BLKP(E, q))
    <3> DEFINE t == NEXT_BLKP(M, q)
    <3>1. NEXT_BLKP(E, q) = t
      BY <1>6, <1>10
    <3>2. t \in DOMAIN M.hdr
      BY <1>1, FreeFacts, NextFacts
    <3>3. Alloc(M, t)
      BY <1>1 DEF Separate
    <3> HIDE DEF t
    <3> QED
      BY <1>6, <3>1, <3>2, <3>3
  <2> QED
    BY <1>3, <1>11, <1>13, <2>1, <2>2, <2>3 DEF Loose
<1>15. CASE p + size > M.max
  BY <1>2, <1>15 DEF r
<1>16. CASE ~(p + size > M.max)
  <2>1. p + size <= M.max
    BY <1>1, <1>4, <1>16
  <2>2. r = coalesce(E, p)
    BY <1>2, <1>16
  <2>3. Loose(E, p)
    BY <1>14, <2>1
  <2>4. /\ Sound(r.heap) /\ r.heap.brk = E.brk /\ r.heap.max = E.max
        /\ Used(r.heap) = Used(E) /\ Keeps(E, r.heap, Used(E))
        /\ r.ptr \in FreeBlocks(r.heap) /\ Size(r.heap, r.ptr) >= Size(E, p)
        /\ \A q \in FreeBlocks(E) : q < p => q \in FreeBlocks(r.heap)
    BY <2>2, <2>3, CoalesceSound
  <2>5. FreeBlocks(M) \subseteq FreeBlocks(r.heap)
    <3>1. \A q \in F : q < p
      BY <1>4, <1>10
    <3> QED
      BY <1>11, <2>4, <3>1
  <2>6. Keeps(M, r.heap, Used(M))
    <3>1. \A q \in Used(M) : q \in DOMAIN M.hdr /\ q # p
      BY <1>1, UsedFacts
    <3> QED
      BY <1>3, <1>12, <2>4, <3>1 DEF Keeps
  <2>7. Grown(M, r, size)
    BY <1>3, <1>7, <1>12, <2>4, <2>5, <2>6 DEF Grown, SameLists
  <2> QED
    BY <1>16, <2>7 DEF r
<1> QED
  BY <1>15, <1>16

\* mm_init (mm.c:182) makes a sound heap in which no block is used.
THEOREM InitSound ==
  ASSUME NEW max \in Nat, max >= 16 + CHUNKSIZE
  PROVE  LET M == mm_init(max)
         IN  Sound(M) /\ Used(M) = {} /\ M.max = max /\ M.brk = 16 + CHUNKSIZE
<1> DEFINE prologue == [size |-> 8, alloc |-> TRUE]
           epilogue == [size |-> 0, alloc |-> TRUE]
           hdr  == [a \in {8, 16} |-> IF a = 8 THEN prologue ELSE epilogue]
           ftr  == [a \in {16} |-> prologue]
           link == [a \in {} |-> [pred |-> 0, succ |-> 0]]
           head == [i \in 0..LIST_NUM - 1 |-> 0]
           empty == [hdr |-> hdr, ftr |-> ftr, link |-> link, head |-> head,
                     brk |-> 16, max |-> max, marks |-> {}, state |-> "ok"]
<1>1. mm_init(max) = extend_heap(empty, CHUNKSIZE \div 4).heap
  BY DEF mm_init
<1>2. /\ DOMAIN hdr = {8, 16} /\ hdr[8] = prologue /\ hdr[16] = epilogue
      /\ DOMAIN ftr = {16} /\ ftr[16] = prologue
      /\ DOMAIN link = {} /\ head \in [Classes -> {0}]
  BY DEF Classes
<1> HIDE DEF hdr, ftr, link, head
<1>3. /\ IsHeap(empty) /\ empty.hdr = hdr /\ empty.ftr = ftr /\ empty.link = link
      /\ empty.head = head /\ empty.brk = 16 /\ empty.max = max /\ empty.marks = {}
      /\ empty.state = "ok"
  BY DEF IsHeap, Fields
<1> HIDE DEF empty
<1>4. /\ Size(empty, 8) = 8 /\ Alloc(empty, 8) /\ NEXT_BLKP(empty, 8) = 16
      /\ Alloc(empty, 16)
  BY <1>2, <1>3 DEF Size, Alloc, NEXT_BLKP
<1>5. Tiled(empty)
  <2>1. Ends(empty)
    BY <1>2, <1>3 DEF Ends, heap_listp
  <2>2. prologue \in Tags /\ epilogue \in Tags
    BY DEF Tags
  <2>3. Places(empty)
    <3>1. \A q \in {8, 16} : q \in Nat /\ q % 8 = 0 /\ 8 <= q /\ q <= 16
      OBVIOUS
    <3>2. \A q \in {8, 16} : hdr[q] \in Tags
      BY <1>2, <2>2
    <3> QED
      BY <1>2, <1>3, <3>1, <3>2 DEF Places, heap_listp
  <2>4. Tile(empty, 8)
    <3>1. 8 % 8 = 0 /\ \A q \in {8, 16} : q <= 8 \/ 16 <= q
      OBVIOUS
    <3>2. /\ NEXT_BLKP(empty, 8) \in DOMAIN empty.hdr \cap DOMAIN empty.ftr
          /\ empty.ftr[NEXT_BLKP(empty, 8)] = empty.hdr[8]
          /\ \A q \in DOMAIN empty.hdr : q <= 8 \/ NEXT_BLKP(empty, 8) <= q
      BY <1>2, <1>3, <1>4, <3>1
    <3>3. Size(empty, 8) % 8 = 0 /\ Size(empty, 8) >= 8
      BY <1>4, <3>1
    <3> QED
      BY <3>2, <3>3 DEF Tile, heap_listp
  <2>5. Reached(empty, 16)
    BY <1>2, <1>3, <1>4 DEF Reached
  <2> QED
    BY <1>2, <1>3, <2>1, <2>3, <2>4, <2>5 DEF Tiled, heap_listp
<1>6. FreeBlocks(empty) = {} /\ Used(empty) = {}
  BY <1>2, <1>3, <1>4 DEF FreeBlocks, Used, heap_listp
<1>7. Listed(empty, {})
  <2>1. \A i \in Classes : empty.head[i] = 0
    BY <1>2, <1>3
  <2>2. Linked(empty)
    BY <1>2, <1>3, <2>1 DEF Linked
  <2>3. Ranked(empty, <<>>, 0)
    BY <1>2, <1>3 DEF Ranked
  <2> QED
    BY <1>2, <1>3, <2>2, <2>3 DEF Listed
<1>8. Sound(empty)
  <2>1. Calm(empty)
    BY <1>3, <1>5 DEF Calm, CHUNKSIZE
  <2>2. Separate(empty)
    BY <1>6 DEF Separate
  <2> QED
    BY <1>6, <1>7, <2>1, <2>2 DEF Sound
<1> DEFINE r == extend_heap(empty, CHUNKSIZE \div 4)
<1>9. Grown(empty, r, CHUNKSIZE)
  <2>1. CHUNKSIZE \in Nat /\ CHUNKSIZE % 8 = 0 /\ CHUNKSIZE >= MinBlock
    BY DEF CHUNKSIZE, MinBlock
  <2>2. ~(empty.brk + CHUNKSIZE > empty.max)
    BY <1>3 DEF CHUNKSIZE
  <2> QED
    BY <1>8, <2>1, <2>2, ExtendSound
<1> HIDE DEF r
<1> QED
  BY <1>1, <1>3, <1>6, <1>9 DEF Grown, r

----------------------------------------------------------------------------
(* The region lo..hi of whole blocks becomes a client's block at lo and,   *)
(* if there is room, a free one behind it.                                 *)

\* The free blocks outside the region are listed and nothing in front or
\* behind has to be joined.
Room(M, lo, hi) ==
  /\ lo \in DOMAIN M.hdr /\ hi \in DOMAIN M.hdr /\ heap_listp < lo /\ lo < hi
  /\ Alloc(M, hi)
  /\ \A q \in Outer(FreeBlocks(M), lo, hi) :
       NEXT_BLKP(M, q) = lo \/ Alloc(M, NEXT_BLKP(M, q))

Gives(M, R, lo, hi, size) ==
  /\ Sound(R) /\ R.brk = M.brk /\ R.max = M.max
  /\ Used(R) = Outer(Used(M), lo, hi) \cup {lo}
  /\ Keeps(M, R, Outer(Used(M), lo, hi))
  /\ Size(R, lo) = size

\* What lies outside a region
LEMMA OuterFacts ==
  ASSUME NEW M, Tiled(M), NEW lo, NEW hi
  PROVE  /\ Outer(FreeBlocks(M), lo, hi) \subseteq DOMAIN M.hdr
         /\ \A b \in Outer(FreeBlocks(M), lo, hi) : b < lo \/ b >= hi
BY DEF Outer, FreeBlocks

\* The whole region
LEMMA TakeAll ==
  ASSUME NEW M, Calm(M), NEW lo, NEW hi, Room(M, lo, hi),
         Listed(M, Outer(FreeBlocks(M), lo, hi))
  PROVE  Gives(M, Put(M, lo, hi - lo, TRUE), lo, hi, hi - lo)
<1> DEFINE yes == TRUE
           F == Outer(FreeBlocks(M), lo, hi)
           R == Put(M, lo, hi - lo, yes)
           I == {lo}
<1>1. yes \in BOOLEAN
  OBVIOUS
<1> HIDE DEF yes
<1>2. /\ Tiled(M) /\ F \subseteq DOMAIN M.hdr /\ \A b \in F : b < lo \/ b >= hi
  BY OuterFacts DEF Calm
<1>3. /\ lo \in DOMAIN M.hdr /\ hi \in DOMAIN M.hdr /\ heap_listp < lo /\ lo < hi
      /\ Alloc(M, hi)
      /\ \A q \in F : NEXT_BLKP(M, q) = lo \/ Alloc(M, NEXT_BLKP(M, q))
  BY DEF Room
<1>4. /\ Calm(R) /\ Refit(M, R, lo, hi, I) /\ Within(I, lo, hi)
      /\ R.hdr[lo] = [size |-> hi - lo, alloc |-> yes]
      /\ Listed(R, F) /\ R.brk = M.brk /\ R.max = M.max
  <2> HIDE DEF F
  <2>1. Listed(M, F)
    BY DEF F
  <2> QED
    BY <1>1, <1>2, <1>3, <2>1, FillOne
<1> HIDE DEF R, I
<1>5. Tiled(R) /\ Size(R, lo) = hi - lo /\ Alloc(R, lo)
  BY <1>4, SizeOfTag DEF Calm, yes
<1>6. /\ FreeBlocks(R) = Outer(FreeBlocks(M), lo, hi) \cup FreeOf(R, I)
      /\ Used(R) = Outer(Used(M), lo, hi) \cup UsedOf(R, I)
      /\ Keeps(M, R, Outer(Used(M), lo, hi))
  BY <1>2, <1>3, <1>4, <1>5, RefitBlocks
<1>7. FreeOf(R, I) = {} /\ UsedOf(R, I) = {lo}
  BY <1>5 DEF FreeOf, UsedOf, I
<1>8. Separate(R)
  <2>1. \A q \in FreeBlocks(M) : q < lo \/ q >= hi =>
          NEXT_BLKP(M, q) = lo \/ Alloc(M, NEXT_BLKP(M, q))
    BY <1>3 DEF Outer
  <2>2. \A q \in I : ~Alloc(R, q) => Alloc(R, NEXT_BLKP(R, q))
    BY <1>5 DEF I
  <2> QED
    BY <1>2, <1>3, <1>4, <1>5, <2>1, <2>2, RefitSeparate
<1>9. Listed(R, FreeBlocks(R))
  BY <1>4, <1>6, <1>7
<1>10. Sound(R)
  BY <1>4, <1>8, <1>9 DEF Sound
<1>11. Gives(M, R, lo, hi, hi - lo)
  BY <1>4, <1>5, <1>6, <1>7, <1>10 DEF Gives
<1> QED
  BY <1>11 DEF R, yes

\* A part of the region, and a free block of what is left
LEMMA TakePart ==
  ASSUME NEW M, Calm(M), NEW lo, NEW hi, Room(M, lo, hi),
         NEW x \in Nat, x % 8 = 0, x >= MinBlock, hi - lo - x >= MinBlock,
         NEW N, IsHeap(N), SameTiles(Put(M, lo, x, TRUE), N), N.marks = {},
         Listed(N, Outer(FreeBlocks(M), lo, hi))
  PROVE  Gives(M, insert_block(Put(N, lo + x, hi - lo - x, FALSE), lo + x), lo, hi, x)
<1> DEFINE yes  == TRUE
           no   == FALSE
           F    == Outer(FreeBlocks(M), lo, hi)
           rest == lo + x
           left == hi - lo - x
           P    == Put(M, lo, x, yes)
           Q    == Put(N, rest, left, no)
           R    == insert_block(Q, rest)
           I    == {lo, rest}
<1>1. yes \in BOOLEAN /\ no \in BOOLEAN
  OBVIOUS
<1>2. SameTiles(P, N)
  OBVIOUS
<1> HIDE DEF yes, no
<1>3. /\ IsHeap(M) /\ Tiled(M) /\ F \subseteq DOMAIN M.hdr
      /\ \A b \in F : b < lo \/ b >= hi
  BY OuterFacts DEF Calm
<1>4. /\ lo \in DOMAIN M.hdr /\ hi \in DOMAIN M.hdr /\ heap_listp < lo /\ lo < hi
      /\ Alloc(M, hi)
      /\ \A q \in F : NEXT_BLKP(M, q) = lo \/ Alloc(M, NEXT_BLKP(M, q))
  BY DEF Room
<1>5. /\ IsHeap(Q) /\ Tiled(Q) /\ SameLists(N, Q) /\ Q.marks \subseteq N.marks
      /\ Refit(M, Q, lo, hi, I)
      /\ Q.hdr[lo] = [size |-> x, alloc |-> yes]
      /\ Q.hdr[rest] = [size |-> left, alloc |-> no]
  <2>1. lo \in Nat /\ hi \in Nat /\ lo % 8 = 0
    BY <1>3, <1>4 DEF Tiled, Places
  <2>2. rest \in Nat /\ rest % 8 = 0 /\ rest - lo = x /\ hi - rest = left
    BY <2>1
  <2>3. left >= MinBlock
    BY <2>1 DEF MinBlock
  <2>4. Cut(M, N, Q, lo, rest, hi, yes, no)
    <3> HIDE DEF rest, left
    <3> QED
      BY <1>1, <1>2, <1>4, <2>2, <2>3 DEF Cut
  <2> HIDE DEF Q, rest, left
  <2>5. /\ IsHeap(Q) /\ Tiled(Q) /\ SameLists(N, Q) /\ Q.marks \subseteq N.marks
        /\ Refit(M, Q, lo, hi, {lo, rest})
        /\ Q.hdr[lo] = [size |-> rest - lo, alloc |-> yes]
        /\ Q.hdr[rest] = [size |-> hi - rest, alloc |-> no]
    BY <1>3, <2>4, PutTwo
  <2> QED
    BY <2>2, <2>5
<1>6. /\ lo \in Nat /\ hi \in Nat /\ lo < rest /\ rest < hi /\ rest \in Nat
      /\ rest + left = hi
  BY <1>3, <1>4, RegionFacts DEF MinBlock
<1>7. Within(I, lo, hi)
  BY <1>6 DEF Within
<1>8. /\ P.max = M.max /\ P.state = M.state /\ P.brk = M.brk
      /\ DOMAIN P.hdr = {a \in DOMAIN M.hdr : a < lo \/ a >= lo + x} \cup {lo}
      /\ \A a \in DOMAIN P.hdr : a # lo => P.hdr[a] = M.hdr[a]
  <2> DEFINE tag == [size |-> x, alloc |-> yes]
  <2>1. /\ IsHeap(P) /\ SameLists(M, P) /\ P.brk = M.brk
        /\ P.marks = M.marks \ {lo - 1}
        /\ DOMAIN P.hdr = {a \in DOMAIN M.hdr : a < lo \/ a >= lo + x} \cup {lo}
        /\ P.hdr[lo] = tag
        /\ \A a \in DOMAIN P.hdr : a # lo => P.hdr[a] = M.hdr[a]
        /\ DOMAIN P.ftr = {a \in DOMAIN M.ftr : a <= lo \/ a > lo + x} \cup {lo + x}
        /\ P.ftr[lo + x] = tag
        /\ \A a \in DOMAIN P.ftr : a # lo + x => P.ftr[a] = M.ftr[a]
    BY <1>3, PutWrites
  <2> QED
    BY <2>1 DEF SameLists
<1>9. N.max = M.max /\ N.state = M.state /\ N.brk = M.brk
  BY <1>2, <1>8 DEF SameTiles
<1> HIDE DEF P, Q
<1>10. Q.max = M.max /\ Q.state = M.state /\ Q.brk = M.brk /\ Q.marks = {}
  BY <1>5, <1>9 DEF SameLists, Refit
<1>11. Calm(Q)
  BY <1>5, <1>10 DEF Calm
<1>12. /\ Size(Q, lo) = x /\ Alloc(Q, lo)
       /\ Size(Q, rest) = left /\ ~Alloc(Q, rest) /\ NEXT_BLKP(Q, rest) = hi
  <2>1. Size(Q, lo) = x /\ Alloc(Q, lo) = yes
    BY <1>5, SizeOfTag
  <2>2. Size(Q, rest) = left /\ Alloc(Q, rest) = no /\ NEXT_BLKP(Q, rest) = rest + left
    BY <1>5, SizeOfTag
  <2> QED
    BY <1>6, <2>1, <2>2 DEF yes, no
<1> HIDE DEF I, F, rest, left
<1>13. /\ FreeBlocks(Q) = Outer(FreeBlocks(M), lo, hi) \cup FreeOf(Q, I)
       /\ Used(Q) = Outer(Used(M), lo, hi) \cup UsedOf(Q, I)
       /\ \A q \in DOMAIN M.hdr : q < lo \/ q >= hi => Size(Q, q) = Size(M, q)
       /\ Keeps(M, Q, Outer(Used(M), lo, hi))
  BY <1>3, <1>4, <1>5, <1>7, RefitBlocks
<1>14. FreeOf(Q, I) = {rest} /\ UsedOf(Q, I) = {lo}
  BY <1>12 DEF FreeOf, UsedOf, I
<1>15. rest \notin F
  BY <1>3, <1>6
<1>16. FreeBlocks(Q) = F \cup {rest} /\ rest \in FreeBlocks(Q) /\ FreeBlocks(Q) \ {rest} = F
  BY <1>13, <1>14, <1>15 DEF F
<1>17. Listed(Q, F)
  <2>1. \A b \in F : Size(Q, b) = Size(N, b)
    <3>1. \A b \in F : b \in DOMAIN M.hdr /\ b # lo /\ b # rest
      BY <1>3, <1>4, <1>6
    <3>2. \A b \in F : Size(Q, b) = Size(M, b)
      BY <1>3, <1>13
    <3>5. \A b \in F : b \in DOMAIN P.hdr
      <4>1. \A b \in F : b \in Nat /\ (b < lo \/ b >= hi)
        BY <1>3 DEF Tiled, Places
      <4>2. lo + x < hi
        BY <1>6 DEF rest
      <4> QED
        BY <1>6, <1>8, <3>1, <4>1, <4>2
    <3>6. N.hdr = P.hdr
      BY <1>2 DEF SameTiles
    <3>7. \A b \in F : N.hdr[b] = M.hdr[b]
      BY <1>8, <3>1, <3>5, <3>6
    <3> QED
      BY <3>2, <3>7 DEF Size
  <2> QED
    BY <1>5, <2>1, ListsStay DEF F
<1>18. Separate(Q)
  <2>1. \A q \in FreeBlocks(M) : q < lo \/ q >= hi =>
          NEXT_BLKP(M, q) = lo \/ Alloc(M, NEXT_BLKP(M, q))
    BY <1>4 DEF Outer, F
  <2>2. Q.hdr[hi] = M.hdr[hi]
    BY <1>4, <1>5, <1>6 DEF Refit
  <2>3. Alloc(Q, hi)
    BY <1>4, <2>2, SameTile
  <2>4. \A q \in I : ~Alloc(Q, q) => Alloc(Q, NEXT_BLKP(Q, q))
    BY <1>12, <2>3 DEF I
  <2> QED
    BY <1>3, <1>4, <1>5, <1>7, <1>12, <2>1, <2>4, RefitSeparate
<1>19. Sound(R) /\ SameTiles(Q, R)
  BY <1>11, <1>16, <1>17, <1>18, InsertSound
<1> HIDE DEF R
<1>20. Used(R) = Used(Q) /\ R.brk = Q.brk /\ R.max = Q.max /\ DOMAIN R.hdr = DOMAIN Q.hdr
       /\ \A q : R.hdr[q] = Q.hdr[q] /\ Size(R, q) = Size(Q, q)
  BY <1>19, SameBlocks DEF SameTiles
<1>21. Keeps(M, R, Outer(Used(M), lo, hi))
  BY <1>13, <1>20 DEF Keeps
<1>22. Gives(M, R, lo, hi, x)
  BY <1>10, <1>12, <1>13, <1>14, <1>19, <1>20, <1>21 DEF Gives
<1> QED
  BY <1>22 DEF R, Q, rest, left, no

\* A header may be written where no listed block is.
LEMMA PutKeepsLists ==
  ASSUME NEW M, Calm(M), NEW F, Listed(M, F), F \subseteq DOMAIN M.hdr,
         NEW lo, NEW x, NEW alloc,
         lo \notin F, \A b \in F : b < lo \/ b >= lo + x
  PROVE  LET N == Put(M, lo, x, alloc)
         IN  IsHeap(N) /\ N.marks = {} /\ Listed(N, F)
<1> DEFINE N == Put(M, lo, x, alloc)
           tag == [size |-> x, alloc |-> alloc]
<1>1. IsHeap(M) /\ M.marks = {}
  BY DEF Calm
<1>2. /\ IsHeap(N) /\ SameLists(M, N) /\ N.brk = M.brk
      /\ N.marks = M.marks \ {lo - 1}
      /\ DOMAIN N.hdr = {a \in DOMAIN M.hdr : a < lo \/ a >= lo + x} \cup {lo}
      /\ N.hdr[lo] = tag
      /\ \A a \in DOMAIN N.hdr : a # lo => N.hdr[a] = M.hdr[a]
      /\ DOMAIN N.ftr = {a \in DOMAIN M.ftr : a <= lo \/ a > lo + x} \cup {lo + x}
      /\ N.ftr[lo + x] = tag
      /\ \A a \in DOMAIN N.ftr : a # lo + x => N.ftr[a] = M.ftr[a]
  BY <1>1, PutWrites
<1> HIDE DEF N
<1>3. \A b \in F : N.hdr[b] = M.hdr[b]
  BY <1>2
<1>4. \A b \in F : Size(N, b) = Size(M, b)
  BY <1>3 DEF Size
<1>5. Listed(N, F)
  BY <1>2, <1>4, ListsStay
<1> QED
  BY <1>1, <1>2, <1>5 DEF N

\* Outside one block are all others.
LEMMA OuterOfBlock ==
  ASSUME NEW M, Tiled(M), NEW p, Block(M, p), NEW S, S \subseteq DOMAIN M.hdr
  PROVE  Outer(S, p, NEXT_BLKP(M, p)) = S \ {p}
<1>1. /\ p \in Nat /\ p < NEXT_BLKP(M, p) /\ NEXT_BLKP(M, p) \in Nat
      /\ \A q \in DOMAIN M.hdr : q \in Nat /\ (q <= p \/ NEXT_BLKP(M, p) <= q)
  BY NextFacts
<1>2. \A q \in S : q # p <=> q < p \/ q >= NEXT_BLKP(M, p)
  BY <1>1
<1>3. \A q : q \in Outer(S, p, NEXT_BLKP(M, p)) <=> q \in S \ {p}
  BY <1>2 DEF Outer
<1> QED
  BY <1>3

\* The whole region, or a part if what is left can hold a block
Taken(M, lo, hi, x) ==
  IF hi - lo - x < MinBlock THEN Put(M, lo, hi - lo, TRUE)
  ELSE insert_block(Put(Put(M, lo, x, TRUE), lo + x, hi - lo - x, FALSE), lo + x)

\* Either way the block is at most MinBlock larger than it has to be.
LEMMA TakeFacts ==
  ASSUME NEW M, Calm(M), NEW lo, NEW hi, Room(M, lo, hi),
         Listed(M, Outer(FreeBlocks(M), lo, hi)),
         NEW x \in Nat, x % 8 = 0, x >= MinBlock, x <= hi - lo
  PROVE  LET R == Taken(M, lo, hi, x)
         IN  \E size \in Nat : Gives(M, R, lo, hi, size) /\ x <= size /\ size < x + MinBlock
<1> DEFINE R == Taken(M, lo, hi, x)
           F == Outer(FreeBlocks(M), lo, hi)
<1>1. Tiled(M) /\ lo \in DOMAIN M.hdr /\ hi \in DOMAIN M.hdr /\ lo < hi
  BY DEF Room, Calm
<1>2. lo \in Nat /\ hi \in Nat
  BY <1>1 DEF Tiled, Places
<1>3. F \subseteq DOMAIN M.hdr /\ \A b \in F : b \in Nat /\ (b < lo \/ b >= hi)
  BY <1>1, OuterFacts DEF Tiled, Places
<1> HIDE DEF F
<1>4. ASSUME hi - lo - x < MinBlock
      PROVE  Gives(M, R, lo, hi, hi - lo)
  BY <1>4, TakeAll DEF Taken
<1>5. ASSUME ~(hi - lo - x < MinBlock)
      PROVE  Gives(M, R, lo, hi, x)
  <2> DEFINE N   == Put(M, lo, x, TRUE)
             yes == TRUE
  <2>1. hi - lo - x >= MinBlock /\ lo + x < hi
    BY <1>2, <1>5 DEF MinBlock
  <2>2. lo \notin F /\ \A b \in F : b < lo \/ b >= lo + x
    BY <1>1, <1>2, <1>3, <2>1
  <2> HIDE DEF yes
  <2>3. IsHeap(N) /\ N.marks = {} /\ Listed(N, F)
    <3>1. N = Put(M, lo, x, yes) /\ Listed(M, F)
      BY DEF yes, F
    <3> HIDE DEF N
    <3> QED
      BY <1>3, <2>2, <3>1, PutKeepsLists
  <2>4. SameTiles(Put(M, lo, x, TRUE), N)
    BY DEF SameTiles
  <2>5. R = insert_block(Put(N, lo + x, hi - lo - x, FALSE), lo + x)
    BY <1>5 DEF Taken
  <2> HIDE DEF N, R
  <2>6. Listed(N, Outer(FreeBlocks(M), lo, hi))
    BY <2>3 DEF F
  <2> QED
    BY <2>1, <2>3, <2>4, <2>5, <2>6, TakePart
<1> HIDE DEF R
<1>6. x < x + MinBlock /\ x <= x
  BY DEF MinBlock
<1>7. CASE hi - lo - x < MinBlock
  <2>1. hi - lo \in Nat /\ x <= hi - lo /\ hi - lo < x + MinBlock
    BY <1>1, <1>2, <1>7 DEF MinBlock
  <2> QED
    BY <1>4, <1>7, <2>1 DEF R
<1>8. CASE ~(hi - lo - x < MinBlock)
  BY <1>5, <1>6, <1>8 DEF R
<1> QED
  BY <1>7, <1>8

\* A request of size bytes, tags included, is served with the block p.
Serves(M, R, p, size) ==
  /\ Sound(R) /\ R.max = M.max
  /\ p \notin Used(M) /\ Used(R) = Used(M) \cup {p} /\ Keeps(M, R, Used(M))
  /\ size <= Size(R, p) /\ Size(R, p) < size + MinBlock

(***************************************************************************)
(* place (mm.c:403) makes a free block a client's, and splits it if what   *)
(* is left can hold a block.                                               *)
(***************************************************************************)
THEOREM PlaceSound ==
  ASSUME NEW M, Sound(M), NEW p \in FreeBlocks(M),
         NEW asize \in Nat, asize % 8 = 0, asize >= MinBlock, asize <= Size(M, p)
  PROVE  LET R == place(M, p, asize)
         IN  Serves(M, R, p, asize) /\ R.brk = M.brk
<1> DEFINE csize == Size(M, p)
           M1    == remove_block(M, p)
           rest  == p + asize
           hi    == NEXT_BLKP(M, p)
           F     == FreeBlocks(M) \ {p}
           R     == place(M, p, asize)
<1>1. Calm(M) /\ Tiled(M) /\ Listed(M, FreeBlocks(M)) /\ Separate(M)
  BY DEF Sound, Calm
<1>2. Calm(M1) /\ SameTiles(M, M1) /\ Listed(M1, F)
  BY <1>1, RemoveCalm
<1>3. p \in DOMAIN M.hdr /\ Block(M, p) /\ heap_listp < p
  BY <1>1, FreeFacts
<1>4. /\ p \in Nat /\ hi \in DOMAIN M.hdr /\ hi = p + csize /\ csize \in Nat
      /\ csize % 8 = 0 /\ p < hi /\ hi \in Nat
      /\ \A q \in DOMAIN M.hdr : q \in Nat /\ (q <= p \/ hi <= q)
  BY <1>1, <1>3, NextFacts
<1> HIDE DEF M1
<1>5. R = IF csize - asize < MinBlock THEN Put(M1, p, csize, TRUE)
          ELSE insert_block(Put(Put(M1, p, asize, TRUE), rest, csize - asize, FALSE), rest)
  <2>1. ~(csize < asize)
    BY <1>4
  <2>2. R = IF csize < asize THEN [M1 EXCEPT !.state = "corrupt"]
            ELSE IF csize - asize < MinBlock THEN Put(M1, p, csize, TRUE)
            ELSE insert_block(Put(Put(M1, p, asize, TRUE), rest, csize - asize, FALSE), rest)
    BY Zenon DEF place, M1
  <2> HIDE DEF R, csize, rest
  <2> QED
    BY <2>1, <2>2
<1> HIDE DEF R
<1>6. /\ FreeBlocks(M1) = FreeBlocks(M) /\ Used(M1) = Used(M)
      /\ DOMAIN M1.hdr = DOMAIN M.hdr /\ M1.brk = M.brk /\ M1.max = M.max
      /\ \A q : /\ Size(M1, q) = Size(M, q) /\ Alloc(M1, q) = Alloc(M, q)
                /\ NEXT_BLKP(M1, q) = NEXT_BLKP(M, q) /\ M1.hdr[q] = M.hdr[q]
  BY <1>2, SameBlocks DEF SameTiles
<1>7. p \notin Used(M) /\ Used(M) \subseteq DOMAIN M.hdr /\ FreeBlocks(M) \subseteq DOMAIN M.hdr
  BY <1>1, UsedFacts DEF FreeBlocks
<1>8. Outer(FreeBlocks(M), p, hi) = F /\ Outer(Used(M), p, hi) = Used(M)
  BY <1>1, <1>3, <1>7, OuterOfBlock
<1>9. Room(M1, p, hi)
  <2>1. Alloc(M, hi) /\ \A q \in FreeBlocks(M) : Alloc(M, NEXT_BLKP(M, q))
    BY <1>1 DEF Separate
  <2>2. Outer(FreeBlocks(M), p, hi) \subseteq FreeBlocks(M)
    BY DEF Outer
  <2> HIDE DEF hi
  <2> QED
    BY <1>3, <1>4, <1>6, <2>1, <2>2 DEF Room
<1>10. ASSUME NEW size, Gives(M1, R, p, hi, size), asize <= size, size < asize + MinBlock
       PROVE  Serves(M, R, p, asize) /\ R.brk = M.brk
  <2>1. /\ Sound(R) /\ R.brk = M1.brk /\ R.max = M1.max
        /\ Used(R) = Outer(Used(M1), p, hi) \cup {p}
        /\ Keeps(M1, R, Outer(Used(M1), p, hi))
        /\ Size(R, p) = size
    BY <1>10 DEF Gives
  <2>2. Used(R) = Used(M) \cup {p} /\ Keeps(M1, R, Used(M))
    BY <1>6, <1>8, <2>1
  <2>3. Keeps(M, R, Used(M))
    BY <1>6, <2>2 DEF Keeps
  <2> QED
    BY <1>6, <1>7, <1>10, <2>1, <2>2, <2>3 DEF Serves
<1> HIDE DEF hi, F, csize
<1>11. Listed(M1, Outer(FreeBlocks(M1), p, hi))
  BY <1>2, <1>6, <1>8
<1>12. hi - p = csize /\ asize <= hi - p
  BY <1>4 DEF csize
<1>13. R = Taken(M1, p, hi, asize)
  BY <1>5, <1>12 DEF Taken, rest
<1>14. \E size \in Nat : /\ Gives(M1, R, p, hi, size)
                        /\ asize <= size /\ size < asize + MinBlock
  BY <1>2, <1>9, <1>11, <1>12, <1>13, TakeFacts
<1>15. Serves(M, R, p, asize) /\ R.brk = M.brk
  BY <1>10, <1>14
<1> QED
  BY <1>15 DEF R
=============================================================================
