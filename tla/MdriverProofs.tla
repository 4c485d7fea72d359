--------------------------- MODULE MdriverProofs ---------------------------
(***************************************************************************)
(* Theorems about the allocator test driver, for any trace files that are  *)
(* consistent, any heap and any behaviour of the allocator under test.     *)
(***************************************************************************)
EXTENDS Mdriver, TLAPS, NatLemmas, SequenceTheorems, FiniteSetTheorems

----------------------------------------------------------------------------
(* The inductive invariant. *)

Place == [pc : {"init", "open", "read", "begin", "ops", "report", "exit"},
          testing : {"libc", "mm"}, t : Nat, pass : {"valid", "util", "speed"},
          rep : Nat, i : Nat \ {0}]

Request == [type : {"a", "r", "f"}, index : Ids, size : Nat]
Pointer == [addr : Nat, from : Place \cup {NoCall}]
Trace   == [num_ids : Nat, num_ops : Nat, ops : Seq(Request),
            blocks : [Ids -> Pointer], block_sizes : [Ids -> Nat]]
Bytes   == {Junk} \cup {Fill(id) : id \in Ids}
Stats   == [valid : BOOLEAN, hwm : Int, heapsize : Int]

\* The range of a payload in the heap
Span == {x \in [lo : Nat, hi : Nat] : HeapLo <= x.lo /\ x.lo <= x.hi /\ x.hi < HeapEnd}

Types ==
  /\ opt \in [files : Suites, run_libc : BOOLEAN, timer : {"gettod", "fcyc"}]
  /\ at \in Place /\ at.t \in 1..Len(opt.files)
  /\ trace \in Trace
  /\ ranges \in Seq(Span)
  /\ mem_brk \in HeapLo..HeapEnd
  /\ mem \in [HeapLo..HeapEnd - 1 -> Bytes]
  /\ total \in [size : Int, max : Int]
  /\ errors \in Nat
  /\ mm_stats \in [1..Len(opt.files) -> Stats]
  /\ outcome \in {"running", "index", "errors", "failed", "aborted", "undefined"}
  /\ fault \subseteq {"init", "bad", "around", "lost"}

\* The requests are those of the file, as far as it has been read.
Reading ==
  /\ at.pc \in {"read", "begin", "ops"} =>
       /\ Len(trace.ops) <= Len(File.lines)
       /\ \A k \in 1..Len(trace.ops) : trace.ops[k] = File.lines[k]
  /\ at.pc = "read" => Len(trace.ops) = at.i - 1
  /\ at.pc = "begin" => at.i = 1
  /\ at.pc = "ops" => at.i <= Len(trace.ops) + 1

\* A trace is read for its first pass; the memory is set up once, before the
\* traces that the allocator under test gets.
Stages ==
  /\ at.pc \in {"init", "open", "read", "report"} => at.pass = "valid"
  /\ at.pc \in {"init", "report"} => at.testing = "mm"
  /\ at.pc = "init" => at.t = 1

\* A pass is repeated as often as the timer wants it.
Repeats ==
  /\ at.rep >= 1 /\ (at.rep <= Runs \/ at.rep <= maxsamples)
  /\ at.pass = "speed" /\ opt.timer = "fcyc" /\ at.pc \in {"begin", "ops"} =>
       at.rep = sampler.samplecount + 1

\* Every pointer in use is of this pass.
Pointers ==
  at.pc = "ops" =>
    \A k \in LiveOps(at.i - 1) : trace.blocks[trace.ops[k].index].from = Call(k)

\* How many of the traces have their verdict, and what it has been
Judged == IF at.testing = "libc" THEN 0
          ELSE IF at.pc = "report" THEN Len(opt.files)
          ELSE IF at.pass = "valid" THEN at.t - 1
          ELSE at.t

Failed == {k \in 1..Judged : ~mm_stats[k].valid}

Tally ==
  /\ at.pc # "exit" => /\ errors = Cardinality(Failed)
                       /\ \A k \in DOMAIN mm_stats : k > Judged => ~mm_stats[k].valid
                       /\ outcome = "running"
  /\ at.pc = "exit" => ReportIsTrue

\* The blocks in use, and where they lie
Own     == {trace.ops[k].index : k \in LiveOps(at.i - 1)}
Extents == [id \in Ids |-> [lo |-> trace.blocks[id].addr,
                            hi |-> trace.blocks[id].addr + trace.block_sizes[id] - 1]]

\* The records of rs are the extents e of the blocks own, each once, and no two
\* begin at the same address: remove_range looks for nothing else.
Lists(rs, own, e) ==
  /\ IsFiniteSet(own) /\ Len(rs) = Cardinality(own)
  /\ \A j, k \in DOMAIN rs : rs[j].lo = rs[k].lo => j = k
  /\ \A k \in DOMAIN rs : \E id \in own : rs[k] = e[id]
  /\ \A id \in own : \E k \in DOMAIN rs : rs[k] = e[id]
  /\ \A id, other \in own : e[id].lo = e[other].lo => id = other

\* A block has the bytes that were written to it, if none lies around it.
Written == fault = {} =>
             \A id \in Own : \A a \in Extents[id].lo..Extents[id].hi : mem[a] = Fill(id)

Checking == Checked /\ at.pc = "ops" =>
              /\ Lists(ranges, Own, Extents)
              /\ Written
              /\ fault \subseteq {"around"}

IInv == Types /\ Reading /\ Stages /\ Repeats /\ Pointers /\ Tally /\ Checking

----------------------------------------------------------------------------
(* Places in the driver, and records. *)

\* The larger one of two numbers
LEMMA MaxOfTwo ==
  ASSUME NEW m \in Int, NEW n \in Int
  PROVE  Max({m, n}) \in {m, n} /\ Max({m, n}) >= m /\ Max({m, n}) >= n
<1>1. \E x \in {m, n} : \A y \in {m, n} : x >= y
  <2>1. CASE m >= n
    BY <2>1
  <2>2. CASE n >= m
    BY <2>2
  <2> QED
    BY <2>1, <2>2
<1> QED
  BY <1>1 DEF Max

\* A step to another place of the driver
LEMMA PcPlace ==
  ASSUME NEW pc \in {"init", "open", "read", "begin", "ops", "report", "exit"}, NEW p \in Place
  PROVE  [p EXCEPT !.pc = pc] \in Place
BY DEF Place

\* The first line of a file
LEMMA ReadPlace ==
  ASSUME NEW p \in Place
  PROVE  [p EXCEPT !.pc = "read", !.i = 1] \in Place
<1>1. [p EXCEPT !.pc = "read"] \in Place
  BY PcPlace, Zenon
<1>2. \A q \in Place : [q EXCEPT !.i = 1] \in Place
  BY DEF Place
<1>3. [p EXCEPT !.pc = "read", !.i = 1] = [[p EXCEPT !.pc = "read"] EXCEPT !.i = 1]
  OBVIOUS
<1> QED
  BY <1>1, <1>2, <1>3, Zenon

\* The next line, or the next request
LEMMA NextPlace ==
  ASSUME NEW p \in Place
  PROVE  [p EXCEPT !.i = @ + 1] \in Place
<1>1. p.i + 1 \in Nat \ {0}
  BY DEF Place
<1> QED
  BY <1>1 DEF Place

\* A pass begins at a place of the driver.
LEMMA PassPlace ==
  ASSUME at \in Place, NEW pass \in {"valid", "util", "speed"}, NEW rep \in Nat
  PROVE  Pass(pass, rep) \in Place
<1>1. \A q \in Place : [q EXCEPT !.rep = rep] \in Place
  BY DEF Place
<1>2. \A q \in Place : [q EXCEPT !.pass = pass] \in Place
  BY DEF Place
<1>3. \A q \in Place : [q EXCEPT !.pc = "begin"] \in Place
  BY DEF Place
<1>4. \A q \in Place : [q EXCEPT !.i = 1] \in Place
  BY DEF Place
<1>5. Pass(pass, rep) =
        [[[[at EXCEPT !.pc = "begin"] EXCEPT !.pass = pass] EXCEPT !.rep = rep] EXCEPT !.i = 1]
  BY DEF Pass
<1> QED
  BY <1>1, <1>2, <1>3, <1>4, <1>5

\* The files exist, and so does a first one.
LEMMA FilesExist ==
  ASSUME Types
  PROVE  /\ opt.files \in Seq(TraceFile) /\ Len(opt.files) \in Nat \ {0}
         /\ File \in TraceFile /\ Consistent(File.lines)
<1>1. /\ opt.files \in Suites
      /\ at.t \in 1..Len(opt.files)
  BY DEF Types
<1>2. /\ opt.files \in Seq(TraceFile)
      /\ opt.files # <<>>
      /\ \A t \in DOMAIN opt.files : Consistent(opt.files[t].lines)
  BY <1>1, SuitesAssumption
<1>3. Len(opt.files) \in Nat /\ DOMAIN opt.files = 1..Len(opt.files)
  BY <1>2, LenProperties
<1>4. Len(opt.files) # 0
  BY <1>2, EmptySeq
<1>5. opt.files[at.t] \in TraceFile
  BY <1>1, <1>2, ElementOfSeq
<1> QED
  BY <1>1, <1>2, <1>3, <1>4, <1>5 DEF File

\* The next trace, or what follows the last one
LEMMA AfterTrace ==
  ASSUME Types
  PROVE  /\ NextTrace \in Place
         /\ NextTrace.t \in 1..Len(opt.files) /\ NextTrace.rep = 1
         /\ NextTrace.pc \in {"open", "init", "report"}
         /\ NextTrace.pass = "valid"
<1>1. Len(opt.files) \in Nat \ {0} /\ at.t \in 1..Len(opt.files) /\ at.t \in Nat
  BY FilesExist DEF Types
<1>2. at.testing \in {"libc", "mm"} /\ at \in Place
  BY DEF Types, Place
<1>3. CASE at.t < Len(opt.files)
  <2>1. NextTrace = First("open", at.testing, at.t + 1)
    BY <1>3 DEF NextTrace
  <2>2. /\ NextTrace \in Place
        /\ NextTrace.t = at.t + 1 /\ NextTrace.rep = 1 /\ NextTrace.pc = "open"
        /\ NextTrace.pass = "valid"
    BY <1>1, <1>2, <2>1 DEF First, Place
  <2> QED
    BY <1>1, <1>3, <2>2
<1>4. CASE at.t >= Len(opt.files) /\ at.testing = "libc"
  <2>1. NextTrace = First("init", "mm", 1)
    BY <1>1, <1>4 DEF NextTrace
  <2> QED
    BY <1>1, <2>1 DEF First, Place
<1>5. CASE at.t >= Len(opt.files) /\ at.testing # "libc"
  <2>1. NextTrace = First("report", "mm", 1)
    BY <1>1, <1>5 DEF NextTrace
  <2> QED
    BY <1>1, <2>1 DEF First, Place
<1> QED
  BY <1>1, <1>3, <1>4, <1>5

\* The fields of the places that follow this one
LEMMA PassFields ==
  ASSUME at \in Place, NEW pass \in {"valid", "util", "speed"}, NEW rep \in Nat
  PROVE  /\ Pass(pass, rep) \in Place
         /\ Pass(pass, rep).pc = "begin" /\ Pass(pass, rep).testing = at.testing
         /\ Pass(pass, rep).t = at.t /\ Pass(pass, rep).pass = pass
         /\ Pass(pass, rep).rep = rep /\ Pass(pass, rep).i = 1
<1>1. Pass(pass, rep) \in Place
  BY PassPlace
<1> QED
  BY <1>1 DEF Pass, Place

\* Opening a trace moves to its first line and nowhere else.
LEMMA OpenFields ==
  ASSUME at \in Place, at' = [at EXCEPT !.pc = "read", !.i = 1]
  PROVE  /\ at' \in Place /\ at'.pc = "read" /\ at'.testing = at.testing /\ at'.t = at.t
         /\ at'.pass = at.pass /\ at'.rep = at.rep /\ at'.i = 1
<1>1. at' \in Place
  BY ReadPlace
<1> QED
  BY <1>1, Zenon DEF Place

\* A move within a trace changes only pc.
LEMMA MovesOn ==
  ASSUME at \in Place, NEW pc, at' = [at EXCEPT !.pc = pc]
  PROVE  /\ at'.pc = pc /\ at'.testing = at.testing /\ at'.t = at.t
         /\ at'.pass = at.pass /\ at'.rep = at.rep /\ at'.i = at.i
BY DEF Place

\* The next request of the same pass
LEMMA NextFields ==
  ASSUME at \in Place, NextOp
  PROVE  /\ at' \in Place
         /\ at'.pc = at.pc /\ at'.testing = at.testing /\ at'.t = at.t
         /\ at'.pass = at.pass /\ at'.rep = at.rep /\ at'.i = at.i + 1
<1>1. at' \in Place
  BY NextPlace DEF NextOp
<1> QED
  BY <1>1, Zenon DEF NextOp, Place

\* A request gets its answer.
Remembers(id, p, n) == trace' = [trace EXCEPT !.blocks[id] = p, !.block_sizes[id] = n]

\* Remembering a block changes its pointer and keeps the requests.
LEMMA TraceChanges ==
  ASSUME trace \in Trace, NEW id \in Ids, NEW p \in Pointer, NEW n \in Nat,
         Remembers(id, p, n)
  PROVE  /\ trace' \in Trace
         /\ trace'.ops = trace.ops
         /\ trace'.blocks = [trace.blocks EXCEPT ![id] = p]
         /\ trace'.block_sizes = [trace.block_sizes EXCEPT ![id] = n]
<1> DEFINE u == [trace EXCEPT !.blocks[id] = p]
<1>1. /\ u.ops = trace.ops /\ u.num_ids = trace.num_ids /\ u.num_ops = trace.num_ops
      /\ u.blocks = [trace.blocks EXCEPT ![id] = p] /\ u.block_sizes = trace.block_sizes
      /\ u \in Trace
  BY DEF Trace
<1>2. trace' = [u EXCEPT !.block_sizes[id] = n]
  BY DEF Remembers
<1> HIDE DEF u
<1> QED
  BY <1>1, <1>2 DEF Trace

----------------------------------------------------------------------------
(* The requests of a trace. *)

\* The blocks of the files are numbered by Ids.
LEMMA LinesInFile ==
  ASSUME Types, NEW n \in 1..Len(File.lines)
  PROVE  /\ File.lines[n] \in [type : STRING, index : Nat, size : Nat]
         /\ File.lines[n].index \in Ids
<1>1. /\ opt.files \in Suites /\ opt.files \in Seq(TraceFile)
      /\ at.t \in 1..Len(opt.files) /\ File \in TraceFile
  BY FilesExist DEF Types
<1>2. /\ File.lines \in Seq([type : STRING, index : Nat, size : Nat])
  BY <1>1 DEF TraceFile
<1>3. DOMAIN File.lines = 1..Len(File.lines) /\ DOMAIN opt.files = 1..Len(opt.files)
  BY <1>1, <1>2, LenProperties
<1>4. File \in UNION {ToSet(s) : s \in Suites}
  BY <1>1, <1>3 DEF File, ToSet
<1>5. File.lines[n] \in ToSet(File.lines)
  BY <1>3 DEF ToSet
<1>6. File.lines[n].index \in Ids
  BY <1>4, <1>5 DEF Ids
<1> QED
  BY <1>2, <1>6, ElementOfSeq

\* Blocks have natural numbers.
LEMMA IdsAreNumbers == Ids \subseteq Nat
<1> SUFFICES ASSUME NEW id \in Ids
             PROVE  id \in Nat
  OBVIOUS
<1>1. PICK f \in UNION {ToSet(s) : s \in Suites} : id \in {l.index : l \in ToSet(f.lines)}
  BY DEF Ids
<1>2. PICK s \in Suites : f \in ToSet(s)
  BY <1>1
<1>3. s \in Seq(TraceFile)
  BY SuitesAssumption
<1>4. f \in TraceFile
  BY <1>2, <1>3, LenProperties, ElementOfSeq DEF ToSet
<1>5. f.lines \in Seq([type : STRING, index : Nat, size : Nat])
  BY <1>4 DEF TraceFile
<1>6. PICK l \in ToSet(f.lines) : id = l.index
  BY <1>1
<1>7. PICK n \in DOMAIN f.lines : l = f.lines[n]
  BY <1>6 DEF ToSet
<1>8. l \in [type : STRING, index : Nat, size : Nat]
  <2>1. DOMAIN f.lines = 1..Len(f.lines)
    BY <1>5, LenProperties
  <2> QED
    BY <1>5, <1>7, <2>1, ElementOfSeq
<1> QED
  BY <1>6, <1>8

\* The request that is due: a file is consistent, so only the blocks that it
\* frees or moves are in use.
LEMMA Current ==
  ASSUME Types, Reading, at.pc = "ops", at.i <= Len(trace.ops)
  PROVE  /\ at.i \in 1..Len(trace.ops) /\ trace.ops \in Seq(Request)
         /\ trace.ops[at.i] \in Request
         /\ index \in Ids /\ index \in Nat /\ size \in Nat
         /\ trace.ops[at.i].type # "f" => size > 0
         /\ trace.ops[at.i].type = "a" =>
              \A k \in LiveOps(at.i - 1) : trace.ops[k].index # index
         /\ trace.ops[at.i].type # "a" =>
              \E k \in LiveOps(at.i - 1) : trace.ops[k].index = index
<1>1. /\ at.i \in Nat \ {0}
      /\ trace.ops \in Seq(Request)
  BY DEF Types, Place, Trace
<1>2. Len(trace.ops) \in Nat /\ at.i \in 1..Len(trace.ops)
  BY <1>1, LenProperties
<1>3. trace.ops[at.i] \in Request
  BY <1>1, <1>2, ElementOfSeq
<1>4. index \in Ids /\ index \in Nat /\ size \in Nat /\ trace.ops[at.i].type \in {"a", "r", "f"}
  BY <1>3, IdsAreNumbers DEF Request, index, size
<1>5. /\ Len(trace.ops) <= Len(File.lines)
      /\ \A k \in 1..Len(trace.ops) : trace.ops[k] = File.lines[k]
  BY DEF Reading
<1>6. /\ Consistent(File.lines)
      /\ File.lines \in Seq([type : STRING, index : Nat, size : Nat])
  BY FilesExist DEF TraceFile
<1>7. Len(File.lines) \in Nat /\ DOMAIN File.lines = 1..Len(File.lines)
  BY <1>6, LenProperties
<1>8. at.i \in DOMAIN File.lines /\ File.lines[at.i] = trace.ops[at.i]
  BY <1>2, <1>5, <1>7
<1>9. /\ trace.ops[at.i].type = "a" => ~Owned(File.lines, at.i - 1, index)
      /\ trace.ops[at.i].type \in {"r", "f"} => Owned(File.lines, at.i - 1, index)
      /\ trace.ops[at.i].type \in {"a", "r"} => size > 0
  BY <1>6, <1>8 DEF Consistent, index, size
<1>10. Owned(File.lines, at.i - 1, index) <=>
         \E k \in LiveOps(at.i - 1) : trace.ops[k].index = index
  <2>1. \A k \in 1..at.i - 1 : trace.ops[k] = File.lines[k]
    BY <1>2, <1>5
  <2> HIDE DEF index
  <2>2. \A k \in 1..at.i - 1 : (\A j \in k+1..at.i - 1 : File.lines[j].index # index) <=>
                               (\A j \in k+1..at.i - 1 : trace.ops[j].index # index)
    BY <1>2, <2>1
  <2> QED
    BY <2>1, <2>2 DEF Owned, LiveOps
<1> QED
  BY <1>1, <1>2, <1>3, <1>4, <1>9, <1>10

\* The last request for a block is the only one of those in use.
LEMMA OneOwner ==
  ASSUME NEW n \in Nat, NEW j \in LiveOps(n), NEW k \in LiveOps(n),
         trace.ops[j].index = trace.ops[k].index
  PROVE  j = k
BY DEF LiveOps

\* What a request changes in the blocks in use
LEMMA LiveGrows ==
  ASSUME NEW n \in Nat, n > 0
  PROVE  LiveOps(n) = {k \in LiveOps(n - 1) : trace.ops[k].index # trace.ops[n].index}
                        \cup (IF trace.ops[n].type # "f" THEN {n} ELSE {})
<1>1. \A k \in 1..n - 1 : k+1..n = (k+1..n - 1) \cup {n}
  OBVIOUS
<1>2. 1..n = (1..n - 1) \cup {n} /\ n \notin 1..n - 1
  OBVIOUS
<1>3. n+1..n = {}
  OBVIOUS
<1> QED
  BY <1>1, <1>2, <1>3 DEF LiveOps

----------------------------------------------------------------------------
(* The list of ranges. *)

\* out is the list rs without its record m.
Without(rs, m, out) ==
  /\ out \in Seq(Span) /\ Len(out) = Len(rs) - 1
  /\ \A k \in 1..Len(rs) - 1 : out[k] = IF k < m THEN rs[k] ELSE rs[k+1]

\* remove_range takes out a record that begins at lo, if there is one.
LEMMA RemoveRange ==
  ASSUME NEW rs \in Seq(Span), NEW lo, NEW p \in 1..Len(rs), rs[p].lo = lo
  PROVE  \E m \in 1..Len(rs) : rs[m].lo = lo /\ Without(rs, m, remove_range(rs, lo))
<1> DEFINE I == {i \in 1..Len(rs) : rs[i].lo = lo}
           m == Min(I)
           out == SubSeq(rs, 1, m - 1) \o SubSeq(rs, m + 1, Len(rs))
<1>1. Len(rs) \in Nat
  BY LenProperties
<1>2. m \in I
  <2>1. I \subseteq Nat /\ I # {}
    BY <1>1
  <2>2. \E x \in I : \A y \in I : x <= y
    BY <2>1, NatMin
  <2> HIDE DEF I
  <2> QED
    BY <2>2 DEF Min
<1>3. remove_range(rs, lo) = out
  BY DEF remove_range, RemoveFirstMatch, RemoveAt, SelectInSeq
<1>4. m \in 1..Len(rs) /\ rs[m].lo = lo
  BY <1>2
<1> HIDE DEF m, I
<1>5. /\ SubSeq(rs, 1, m - 1) \in Seq(Span) /\ Len(SubSeq(rs, 1, m - 1)) = m - 1
      /\ \A k \in 1..m - 1 : SubSeq(rs, 1, m - 1)[k] = rs[k]
  <2>1. \A k \in 1..m - 1 : rs[k] \in Span
    BY <1>1, <1>4, ElementOfSeq
  <2> QED
    BY <1>1, <1>4, <2>1, SubSeqProperties
<1>6. /\ SubSeq(rs, m + 1, Len(rs)) \in Seq(Span)
      /\ Len(SubSeq(rs, m + 1, Len(rs))) = Len(rs) - m
      /\ \A k \in 1..Len(rs) - m : SubSeq(rs, m + 1, Len(rs))[k] = rs[m + k]
  <2>1. \A k \in m + 1..Len(rs) : rs[k] \in Span
    BY <1>1, <1>4, ElementOfSeq
  <2> QED
    BY <1>1, <1>4, <2>1, SubSeqProperties
<1>7. /\ out \in Seq(Span) /\ Len(out) = Len(rs) - 1
      /\ \A k \in 1..Len(rs) - 1 : out[k] = IF k < m THEN rs[k] ELSE rs[k+1]
  <2> DEFINE s1 == SubSeq(rs, 1, m - 1)
             s2 == SubSeq(rs, m + 1, Len(rs))
  <2>1. /\ s1 \in Seq(Span) /\ s2 \in Seq(Span)
        /\ Len(s1) = m - 1 /\ Len(s2) = Len(rs) - m
        /\ \A k \in 1..m - 1 : s1[k] = rs[k]
        /\ \A k \in 1..Len(rs) - m : s2[k] = rs[m + k]
    BY <1>5, <1>6
  <2>2. out = s1 \o s2
    OBVIOUS
  <2> HIDE DEF s1, s2, out
  <2>3. /\ out \in Seq(Span) /\ Len(out) = Len(s1) + Len(s2)
        /\ \A i \in 1..Len(s1) + Len(s2) : out[i] = IF i <= Len(s1) THEN s1[i] ELSE s2[i - Len(s1)]
    BY <2>1, <2>2, ConcatProperties
  <2>4. ASSUME NEW k \in 1..Len(rs) - 1
        PROVE  out[k] = IF k < m THEN rs[k] ELSE rs[k+1]
    <3>1. CASE k < m
      <4>1. k \in 1..m - 1 /\ k \in 1..Len(s1) + Len(s2) /\ k <= Len(s1)
        BY <1>1, <1>4, <2>1, <3>1
      <4> QED
        BY <2>1, <2>3, <3>1, <4>1
    <3>2. CASE k >= m
      <4>1. k - (m - 1) \in 1..Len(rs) - m /\ m + (k - (m - 1)) = k + 1
        BY <1>1, <1>4, <3>2
      <4>2. out[k] = s2[k - (m - 1)]
        <5>1. k \in 1..Len(s1) + Len(s2) /\ ~(k <= Len(s1)) /\ k - Len(s1) = k - (m - 1)
          BY <1>1, <1>4, <2>1, <3>2
        <5> QED
          BY <2>3, <5>1
      <4> QED
        BY <1>4, <2>1, <3>2, <4>1, <4>2
    <3> QED
      BY <1>1, <1>4, <3>1, <3>2
  <2> QED
    BY <1>1, <1>4, <2>1, <2>3, <2>4
<1>8. Without(rs, m, out)
  BY <1>7 DEF Without
<1> QED
  BY <1>3, <1>4, <1>8

\* It keeps the type of the list.
LEMMA RemoveType ==
  ASSUME NEW rs \in Seq(Span), NEW lo
  PROVE  remove_range(rs, lo) \in Seq(Span)
<1>1. CASE \E p \in 1..Len(rs) : rs[p].lo = lo
  BY <1>1, RemoveRange DEF Without
<1>2. CASE ~\E p \in 1..Len(rs) : rs[p].lo = lo
  <2>1. remove_range(rs, lo) = rs
    BY <1>2 DEF remove_range, RemoveFirstMatch
  <2> QED
    BY <2>1
<1> QED
  BY <1>1, <1>2

\* add_range puts a new one in front.
LEMMA ConsRange ==
  ASSUME NEW rs \in Seq(Span), NEW x \in Span
  PROVE  /\ Cons(x, rs) \in Seq(Span) /\ Len(Cons(x, rs)) = Len(rs) + 1
         /\ Cons(x, rs)[1] = x
         /\ \A k \in 1..Len(rs) : Cons(x, rs)[k + 1] = rs[k]
<1>1. <<x>> \in Seq(Span) /\ Len(<<x>>) = 1 /\ <<x>>[1] = x
  OBVIOUS
<1>2. Len(rs) \in Nat
  BY LenProperties
<1>3. Cons(x, rs) = <<x>> \o rs
  BY DEF Cons
<1> DEFINE one == <<x>>
           out == Cons(x, rs)
<1> HIDE DEF one, out
<1>4. /\ out \in Seq(Span) /\ Len(out) = 1 + Len(rs)
      /\ \A i \in 1..1 + Len(rs) : out[i] = IF i <= 1 THEN one[i] ELSE rs[i - 1]
  BY <1>1, <1>3, ConcatProperties DEF one, out
<1>5. one[1] = x
  BY <1>1 DEF one
<1>6. out[1] = x /\ \A k \in 1..Len(rs) : out[k + 1] = rs[k]
  BY <1>2, <1>4, <1>5
<1> QED
  BY <1>2, <1>4, <1>6 DEF out

----------------------------------------------------------------------------
(* The type of every variable. *)

\* The initial state has the types.
LEMMA InitTypes ==
  ASSUME Init
  PROVE  Types
<1>1. /\ opt.files \in Suites
      /\ opt \in [files : Suites, run_libc : BOOLEAN, timer : {"gettod", "fcyc"}]
  BY DEF Init
<1>2. Len(opt.files) \in Nat \ {0} /\ DOMAIN opt.files = 1..Len(opt.files)
  BY <1>1, SuitesAssumption, LenProperties, EmptySeq
<1>3. at \in Place /\ at.t \in 1..Len(opt.files)
  <2>1. at \in {First("open", "libc", 1), First("init", "mm", 1)}
    BY DEF Init
  <2> QED
    BY <1>2, <2>1 DEF First, Place
<1>4. trace \in Trace
  <2>1. NoPtr \in Pointer
    BY DEF NoPtr, Pointer, NULL
  <2>2. <<>> \in Seq(Request)
    BY EmptySeq
  <2> QED
    BY <2>1, <2>2 DEF Init, NoTrace, Trace
<1>5. ranges \in Seq(Span)
  BY EmptySeq DEF Init
<1>6. mem_brk \in HeapLo..HeapEnd /\ mem \in [HeapLo..HeapEnd - 1 -> Bytes]
  BY MdriverAssumption DEF Init, NoMemory, Bytes, HeapEnd
<1>7. mm_stats \in [1..Len(opt.files) -> Stats]
  BY <1>2 DEF Init, NoStats, Stats
<1> QED
  BY <1>1, <1>3, <1>4, <1>5, <1>6, <1>7 DEF Init, Types

\* exit leaves all but the place and the outcome.
LEMMA EndTypes ==
  ASSUME Types, NEW how \in {"index", "errors", "failed", "aborted", "undefined"}, Ends(how)
  PROVE  Types'
<1>1. at' \in Place /\ at'.t = at.t
  BY PcPlace, MovesOn DEF Ends, Types
<1> QED
  BY <1>1, Zenon DEF Types, Ends, checkVars, measureVars

\* What the actions that only go to another place leave alone
LEMMA MoveTypes ==
  ASSUME Types, at' \in Place, at'.t \in 1..Len(opt.files),
         UNCHANGED <<opt, trace, ranges, mem, total, errors, mm_stats, outcome, fault>>,
         mem_brk' \in HeapLo..HeapEnd
  PROVE  Types'
BY DEF Types

\* sbrk stays in the heap.
LEMMA BrkType ==
  ASSUME NEW brk \in HeapLo..HeapEnd, NEW b \in mem_sbrk(brk)
  PROVE  b \in HeapLo..HeapEnd /\ b >= brk
BY MdriverAssumption DEF mem_sbrk, HeapEnd

\* Reading a trace keeps the types.
LEMMA ReadTypes ==
  ASSUME Types, Reading, MemInit \/ OpenTrace \/ ReadRequest \/ TraceRead
  PROVE  Types'
<1>0. at \in Place /\ at.t \in 1..Len(opt.files) /\ Len(opt.files) \in Nat \ {0} /\ 1 \in 1..Len(opt.files)
  BY FilesExist DEF Types
<1>1. CASE MemInit
  <2>1. CASE Ends("failed")
    BY <2>1, EndTypes
  <2>2. CASE ~Ends("failed")
    <3>1. at' = First("open", "mm", 1)
      BY <1>1, <2>2 DEF MemInit
    <3>2. at' \in Place /\ at'.t = 1
      BY <3>1 DEF First, Place
    <3>3. mem_brk' \in HeapLo..HeapEnd
      BY <1>1, <2>2, MdriverAssumption DEF MemInit, HeapEnd
    <3> QED
      BY <1>0, <1>1, <2>2, <3>2, <3>3, MoveTypes DEF MemInit, mainVars, checkVars, measureVars
  <2> QED
    BY <2>1, <2>2
<1>2. CASE OpenTrace
  <2>1. CASE Ends("failed")
    BY <2>1, EndTypes
  <2>2. CASE ~Ends("failed")
    <3>1. /\ at' = [at EXCEPT !.pc = "read", !.i = 1]
          /\ trace' = [NoTrace EXCEPT !.num_ids = File.num_ids, !.num_ops = File.num_ops]
          /\ UNCHANGED <<opt, errors, mm_stats, outcome, checkVars, mem_brk, measureVars>>
      BY <1>2, <2>2 DEF OpenTrace
    <3>2. at' \in Place /\ at'.t = at.t
      BY <1>0, <3>1, OpenFields
    <3>3. trace' \in Trace
      <4>1. NoPtr \in Pointer
        BY DEF NoPtr, Pointer, NULL
      <4>2. <<>> \in Seq(Request)
        BY EmptySeq
      <4>3. File.num_ids \in Nat /\ File.num_ops \in Nat
        BY FilesExist DEF TraceFile
      <4> QED
        BY <3>1, <4>1, <4>2, <4>3 DEF NoTrace, Trace
    <3> QED
      BY <1>0, <3>1, <3>2, <3>3 DEF Types, checkVars, measureVars
  <2> QED
    BY <2>1, <2>2
<1>3. CASE ReadRequest
  <2>1. CASE Ends("failed") \/ Ends("undefined")
    BY <2>1, EndTypes
  <2>2. CASE ~(Ends("failed") \/ Ends("undefined"))
    <3> DEFINE line == File.lines[at.i]
    <3>1. /\ at.i <= Len(File.lines) /\ line.type \in {"a", "r", "f"}
          /\ trace' = [trace EXCEPT !.ops = Append(@, line)]
          /\ at' = [at EXCEPT !.i = @ + 1]
          /\ UNCHANGED <<opt, errors, mm_stats, outcome, checkVars, mem_brk, measureVars>>
      BY <1>3, <2>2 DEF ReadRequest
    <3>2. at' \in Place /\ at'.t = at.t
      BY <1>0, <3>1, NextFields DEF NextOp
    <3>3. line \in Request
      <4>1. at.i \in 1..Len(File.lines)
        <5>1. Len(File.lines) \in Nat
          BY FilesExist, LenProperties DEF TraceFile
        <5> QED
          BY <1>0, <3>1, <5>1 DEF Place
      <4> QED
        BY <3>1, <4>1, LinesInFile DEF Request
    <3> HIDE DEF line
    <3>4. trace' \in Trace
      <4>1. trace \in Trace /\ trace.ops \in Seq(Request)
        BY DEF Types, Trace
      <4>2. Append(trace.ops, line) \in Seq(Request)
        BY <3>3, <4>1
      <4> QED
        BY <3>1, <4>1, <4>2 DEF Trace
    <3> QED
      BY <1>0, <3>1, <3>2, <3>4 DEF Types, checkVars, measureVars
  <2> QED
    BY <2>1, <2>2
<1>4. CASE TraceRead
  <2>1. CASE Ends("aborted")
    BY <2>1, EndTypes
  <2>2. CASE ~Ends("aborted")
    <3>1. /\ at' = Pass("valid", 1)
          /\ UNCHANGED <<mainVars, checkVars, mem_brk, measureVars>>
      BY <1>4, <2>2 DEF TraceRead
    <3>2. at' \in Place /\ at'.t = at.t
      BY <1>0, <3>1, PassFields
    <3> QED
      BY <1>0, <3>1, <3>2, MoveTypes DEF mainVars, checkVars, measureVars, Types
  <2> QED
    BY <2>1, <2>2
<1> QED
  BY <1>1, <1>2, <1>3, <1>4

\* A rejected trace: another trace, with one error more
LEMMA RejectTypes ==
  ASSUME Types, Reject, trace' = trace, ranges' \in Seq(Span),
         mem' \in [HeapLo..HeapEnd - 1 -> Bytes], mem_brk' \in HeapLo..HeapEnd,
         fault' \subseteq {"init", "bad", "around", "lost"}
  PROVE  Types'
<1>1. at' \in Place /\ at'.t \in 1..Len(opt.files)
  BY AfterTrace DEF Reject
<1> QED
  BY <1>1 DEF Types, Reject, measureVars

\* The resets at the start of a pass keep the types.
LEMMA BeginTypes ==
  ASSUME Types, BeginPass
  PROVE  Types'
<1>0. at \in Place /\ at.t \in 1..Len(opt.files)
  BY DEF Types
<1>1. CASE at.testing = "libc"
  <2>1. /\ at' = [at EXCEPT !.pc = "ops"]
        /\ UNCHANGED <<mainVars, checkVars, mem_brk, measureVars>>
    BY <1>1, Zenon DEF BeginPass
  <2>2. at' \in Place /\ at'.t = at.t
    BY <1>0, <2>1, PcPlace, MovesOn
  <2> QED
    BY <1>0, <2>1, <2>2, MoveTypes, Zenon DEF mainVars, checkVars, measureVars, Types
<1>2. CASE Ends("failed")
  BY <1>2, EndTypes
<1>3. CASE at.testing # "libc" /\ ~Ends("failed")
  <2>1. PICK brk \in mem_sbrk(HeapLo) :
          /\ mem_brk' = brk /\ mem' = NoMemory
          /\ ranges' = IF Checked THEN <<>> ELSE ranges
          /\ \/ /\ Checked /\ Reject
                /\ fault' = {"init"} /\ UNCHANGED trace
             \/ /\ at' = [at EXCEPT !.pc = "ops"]
                /\ fault' = IF Checked THEN {} ELSE fault
                /\ total' = IF at.pass = "util" THEN [size |-> 0, max |-> 0] ELSE total
                /\ UNCHANGED <<mainVars, sampler, spent>>
    BY <1>3 DEF BeginPass
  <2>2. mem_brk' \in HeapLo..HeapEnd
    BY <2>1, BrkType, MdriverAssumption DEF HeapEnd
  <2>3. mem' \in [HeapLo..HeapEnd - 1 -> Bytes]
    BY <2>1 DEF NoMemory, Bytes
  <2>4. ranges' \in Seq(Span)
    BY <2>1, EmptySeq DEF Types
  <2>5. fault' \subseteq {"init", "bad", "around", "lost"}
    BY <2>1 DEF Types
  <2>6. CASE Reject /\ trace' = trace
    BY <2>2, <2>3, <2>4, <2>5, <2>6, RejectTypes
  <2>7. CASE ~(Reject /\ trace' = trace)
    <3>1. /\ at' = [at EXCEPT !.pc = "ops"]
          /\ total' = IF at.pass = "util" THEN [size |-> 0, max |-> 0] ELSE total
          /\ UNCHANGED <<mainVars, sampler, spent>>
      BY <2>1, <2>7, Zenon
    <3>2. at' \in Place /\ at'.t = at.t
      BY <1>0, <3>1, PcPlace, MovesOn
    <3>3. total' \in [size : Int, max : Int]
      BY <3>1 DEF Types
    <3> QED
      BY <2>2, <2>3, <2>4, <2>5, <3>1, <3>2, <3>3, Zenon DEF Types, mainVars
  <2> QED
    BY <2>6, <2>7
<1> QED
  BY <1>1, <1>2, <1>3

\* The range that add_range accepts is one of the heap.
LEMMA NewSpan ==
  ASSUME NEW rs, NEW lo \in Nat, NEW n \in Nat, n > 0, NEW brk \in HeapLo..HeapEnd,
         add_range(rs, lo, n, brk)
  PROVE  [lo |-> lo, hi |-> lo + n - 1] \in Span
BY MdriverAssumption DEF add_range, Span, HeapEnd

\* An answer may be wrong in two ways.
LEMMA FaultType ==
  ASSUME NEW id, NEW b, NEW brk
  PROVE  Wrong(id, b, brk) \subseteq {"bad", "around"}
BY DEF Wrong

\* An accepted block: range, bytes and region
LEMMA RememberTypes ==
  ASSUME Types, NEW rs \in Seq(Span), NEW p \in Nat, NEW brk \in HeapLo..HeapEnd,
         index \in Ids, size \in Nat, size > 0,
         add_range(rs, p, size, brk), Remember(rs, p), Accept,
         mem_brk' = brk, fault' \subseteq {"init", "bad", "around", "lost"}
  PROVE  Types'
<1>1. at \in Place /\ at' \in Place /\ at'.t = at.t
  BY NextFields DEF Types, Accept
<1>2. ranges' \in Seq(Span)
  <2> DEFINE x == [lo |-> p, hi |-> p + size - 1]
  <2>1. x \in Span
    BY NewSpan
  <2>2. ranges' = Cons(x, rs)
    BY DEF Remember
  <2> HIDE DEF x
  <2> QED
    BY <2>1, <2>2, ConsRange
<1>3. mem' \in [HeapLo..HeapEnd - 1 -> Bytes]
  <2>1. DOMAIN mem = HeapLo..HeapEnd - 1 /\ \A a \in DOMAIN mem : mem[a] \in Bytes
    BY DEF Types
  <2>2. Fill(index) \in Bytes
    BY DEF Bytes
  <2>3. mem' = [a \in DOMAIN mem |-> IF a \in p..p + size - 1 THEN Fill(index) ELSE mem[a]]
    BY DEF Remember
  <2> QED
    BY <2>1, <2>2, <2>3
<1>4. trace' \in Trace
  <2>1. [addr |-> p, from |-> at] \in Pointer
    BY <1>1 DEF Pointer
  <2>2. Remembers(index, [addr |-> p, from |-> at], size)
    BY DEF Remember, Remembers
  <2> QED
    BY <2>1, <2>2, TraceChanges DEF Types
<1> QED
  BY <1>1, <1>2, <1>3, <1>4 DEF Types, Accept, measureVars

\* The calls of the validity pass keep the types.
LEMMA CheckedTypes ==
  ASSUME Types, Reading, valid_malloc \/ valid_realloc \/ valid_free
  PROVE  Types'
<1>0. at.pc = "ops" /\ at.i <= Len(trace.ops)
  BY DEF valid_malloc, valid_realloc, valid_free, Doing, At
<1>1. index \in Ids /\ size \in Nat /\ (trace.ops[at.i].type # "f" => size > 0)
  BY <1>0, Current
<1>2. /\ mem_brk \in HeapLo..HeapEnd /\ ranges \in Seq(Span)
      /\ fault \subseteq {"init", "bad", "around", "lost"}
      /\ mem \in [HeapLo..HeapEnd - 1 -> Bytes]
      /\ at \in Place
  BY DEF Types
<1>3. CASE valid_malloc
  <2>1. PICK p \in Answers, brk \in mem_sbrk(mem_brk) :
          /\ mem_brk' = brk
          /\ fault' = fault \cup Wrong(index, [ptr |-> p, size |-> size], brk)
          /\ \/ /\ p = NULL \/ ~add_range(ranges, p, size, brk)
                /\ Reject /\ UNCHANGED <<trace, ranges, mem>>
             \/ /\ p # NULL /\ add_range(ranges, p, size, brk)
                /\ Remember(ranges, p) /\ Accept
    BY <1>3 DEF valid_malloc
  <2>2. brk \in HeapLo..HeapEnd /\ p \in Nat
    BY <1>2, BrkType, MdriverAssumption DEF Answers, HeapEnd
  <2>3. fault' \subseteq {"init", "bad", "around", "lost"}
    BY <1>2, <2>1, FaultType
  <2>4. CASE Reject /\ UNCHANGED <<trace, ranges, mem>>
    BY <1>2, <2>1, <2>2, <2>3, <2>4, RejectTypes
  <2>5. CASE add_range(ranges, p, size, brk) /\ Remember(ranges, p) /\ Accept
    <3>1. size > 0
      BY <1>1, <1>3 DEF valid_malloc, Doing
    <3> QED
      BY <1>1, <1>2, <2>1, <2>2, <2>3, <2>5, <3>1, RememberTypes
  <2> QED
    BY <2>1, <2>4, <2>5
<1>4. CASE valid_realloc
  <2> DEFINE rs == remove_range(ranges, trace.blocks[index].addr)
  <2>1. PICK newp \in Answers, brk \in mem_sbrk(mem_brk), kept \in BOOLEAN :
          /\ mem_brk' = brk
          /\ fault' = fault \cup Wrong(index, [ptr |-> newp, size |-> size], brk)
                            \cup (IF kept THEN {} ELSE {"lost"})
          /\ \/ Reject /\ UNCHANGED <<trace, ranges, mem>>
             \/ ranges' = rs /\ Reject /\ UNCHANGED <<trace, mem>>
             \/ /\ newp # NULL /\ add_range(rs, newp, size, brk)
                /\ ranges' = Cons([lo |-> newp, hi |-> newp + size - 1], rs)
                /\ Reject /\ UNCHANGED <<trace, mem>>
             \/ add_range(rs, newp, size, brk) /\ Remember(rs, newp) /\ Accept
    BY <1>4 DEF valid_realloc
  <2>2. brk \in HeapLo..HeapEnd /\ newp \in Nat /\ rs \in Seq(Span)
    BY <1>2, BrkType, RemoveType, MdriverAssumption DEF Answers, HeapEnd
  <2>3. fault' \subseteq {"init", "bad", "around", "lost"}
    BY <1>2, <2>1, FaultType
  <2>4. size > 0
    BY <1>1, <1>4 DEF valid_realloc, Doing
  <2> HIDE DEF rs
  <2>5. CASE add_range(rs, newp, size, brk) /\ Remember(rs, newp) /\ Accept
    BY <1>1, <2>1, <2>2, <2>3, <2>4, <2>5, RememberTypes
  <2>6. CASE Reject /\ UNCHANGED <<trace, mem>>
    <3>1. ranges' \in Seq(Span)
      <4>1. CASE ranges' = ranges \/ ranges' = rs
        BY <1>2, <2>2, <4>1
      <4>2. CASE /\ add_range(rs, newp, size, brk)
                 /\ ranges' = Cons([lo |-> newp, hi |-> newp + size - 1], rs)
        BY <1>1, <2>2, <2>4, <4>2, NewSpan, ConsRange
      <4> QED
        BY <2>1, <2>6, <4>1, <4>2 DEF Remember
    <3> QED
      BY <1>2, <2>1, <2>2, <2>3, <2>6, <3>1, RejectTypes
  <2> QED
    BY <2>1, <2>5, <2>6
<1>5. CASE valid_free
  <2>1. /\ ranges' = remove_range(ranges, trace.blocks[index].addr)
        /\ Accept /\ UNCHANGED <<trace, mem, mem_brk, fault>>
    BY <1>5 DEF valid_free
  <2>2. ranges' \in Seq(Span)
    BY <1>2, <2>1, RemoveType
  <2>3. at' \in Place /\ at'.t = at.t
    BY <1>2, <2>1, NextFields DEF Accept
  <2> QED
    BY <2>1, <2>2, <2>3 DEF Types, Accept, measureVars
<1> QED
  BY <1>3, <1>4, <1>5

\* The requests of the passes without checks
LEMMA PlainTypes ==
  ASSUME Types, Reading, plain_malloc \/ plain_realloc \/ plain_free
  PROVE  Types'
<1>0. at.pc = "ops" /\ at.i <= Len(trace.ops) /\ at \in Place /\ trace \in Trace
  BY DEF plain_malloc, plain_realloc, plain_free, Doing, At, Types
<1>1. index \in Ids /\ size \in Nat
  BY <1>0, Current
<1>2. \A more \in Int : Counted(more) => total' \in [size : Int, max : Int]
  <2> SUFFICES ASSUME NEW more \in Int, Counted(more)
               PROVE  total' \in [size : Int, max : Int]
    OBVIOUS
  <2>1. total \in [size : Int, max : Int] /\ total.max \in Int /\ total.size + more \in Int
    BY DEF Types
  <2>2. Max({total.max, total.size + more}) \in Int
    BY <2>1, MaxOfTwo
  <2> QED
    BY <2>1, <2>2 DEF Counted
<1>3. trace.block_sizes[index] \in Nat
  BY <1>0, <1>1 DEF Trace
<1>4. CASE GivesUp
  <2>1. at' \in Place /\ at'.t = at.t
    BY <1>0, <1>4, PcPlace, MovesOn DEF GivesUp
  <2>2. errors' \in Nat
    BY <1>4 DEF GivesUp, Types
  <2> QED
    BY <1>4, <2>1, <2>2 DEF Types, GivesUp, checkVars, measureVars
<1>5. CASE Answered /\ total' \in [size : Int, max : Int]
  <2>1. at' \in Place /\ at'.t = at.t
    BY <1>0, <1>5, NextFields DEF Answered
  <2>2. mem_brk' \in HeapLo..HeapEnd
    BY <1>5, BrkType DEF Answered, Types
  <2>3. trace' \in Trace
    <3> DEFINE n == IF at.pass = "util" THEN size ELSE trace.block_sizes[index]
    <3>1. n \in Nat
      BY <1>1, <1>3
    <3>2. [addr |-> NULL, from |-> at] \in Pointer
      BY <1>0 DEF Pointer, NULL
    <3>3. Remembers(index, [addr |-> NULL, from |-> at], n)
      BY <1>5 DEF Answered, Remembers
    <3> HIDE DEF n
    <3> QED
      BY <1>0, <1>1, <3>1, <3>2, <3>3, TraceChanges
  <2> QED
    BY <1>5, <2>1, <2>2, <2>3 DEF Types, Answered, checkVars
<1>6. CASE plain_free
  <2>1. /\ Counted(-trace.block_sizes[index])
        /\ NextOp /\ UNCHANGED <<mainVars, checkVars, mem_brk, sampler, spent>>
    BY <1>6 DEF plain_free
  <2>2. total' \in [size : Int, max : Int]
    <3>1. -trace.block_sizes[index] \in Int
      BY <1>3
    <3> QED
      BY <1>2, <2>1, <3>1
  <2>3. at' \in Place /\ at'.t = at.t
    BY <1>0, <2>1, NextFields
  <2> QED
    BY <2>1, <2>2, <2>3 DEF Types, mainVars, checkVars
<1>7. CASE plain_malloc
  BY <1>1, <1>2, <1>4, <1>5, <1>7 DEF plain_malloc
<1>8. CASE plain_realloc
  <2>1. size - trace.block_sizes[index] \in Int
    BY <1>1, <1>3
  <2> QED
    BY <1>2, <1>4, <1>5, <1>8, <2>1 DEF plain_realloc
<1> QED
  BY <1>6, <1>7, <1>8

\* The record of a trace gets its verdict, or its measurements.
LEMMA StatsChange ==
  ASSUME mm_stats \in [1..Len(opt.files) -> Stats], at.t \in 1..Len(opt.files),
         NEW hwm \in Int, NEW heapsize \in Int
  PROVE  /\ [mm_stats EXCEPT ![at.t].valid = TRUE] \in [1..Len(opt.files) -> Stats]
         /\ [mm_stats EXCEPT ![at.t].hwm = hwm, ![at.t].heapsize = heapsize]
              \in [1..Len(opt.files) -> Stats]
<1>1. \A st \in Stats : /\ [st EXCEPT !.valid = TRUE] \in Stats
                        /\ [st EXCEPT !.hwm = hwm] \in Stats
                        /\ [st EXCEPT !.heapsize = heapsize] \in Stats
  BY DEF Stats
<1>2. [mm_stats EXCEPT ![at.t].valid = TRUE] \in [1..Len(opt.files) -> Stats]
  BY <1>1
<1>3. [mm_stats EXCEPT ![at.t].hwm = hwm] \in [1..Len(opt.files) -> Stats]
  BY <1>1
<1> DEFINE some == [mm_stats EXCEPT ![at.t].hwm = hwm]
<1>4. [mm_stats EXCEPT ![at.t].hwm = hwm, ![at.t].heapsize = heapsize] =
        [some EXCEPT ![at.t].heapsize = heapsize]
  OBVIOUS
<1>5. some \in [1..Len(opt.files) -> Stats]
  BY <1>3
<1> HIDE DEF some
<1>6. [some EXCEPT ![at.t].heapsize = heapsize] \in [1..Len(opt.files) -> Stats]
  BY <1>1, <1>5
<1> QED
  BY <1>2, <1>4, <1>6

\* main between the passes
LEMMA PassTypes ==
  ASSUME Types, Repeats, ValidEnds \/ UtilEnds \/ SpeedEnds \/ SampleEnds \/ Report
  PROVE  Types'
<1>0. /\ at \in Place /\ at.t \in 1..Len(opt.files) /\ at.rep + 1 \in Nat
      /\ mem_brk \in HeapLo..HeapEnd /\ mm_stats \in [1..Len(opt.files) -> Stats]
  BY DEF Types, Place
<1>1. \A pass \in {"util", "speed"}, rep \in {1, at.rep + 1} :
        Pass(pass, rep) \in Place /\ Pass(pass, rep).t = at.t
  BY <1>0, PassFields
<1>2. CASE ValidEnds
  <2>1. at' \in Place /\ at'.t = at.t
    BY <1>1, <1>2 DEF ValidEnds, MeasureTime
  <2>2. mm_stats' \in [1..Len(opt.files) -> Stats]
    <3>1. mm_stats' = mm_stats \/ mm_stats' = [mm_stats EXCEPT ![at.t].valid = TRUE]
      BY <1>2 DEF ValidEnds
    <3>2. 0 \in Int
      OBVIOUS
    <3>3. [mm_stats EXCEPT ![at.t].valid = TRUE] \in [1..Len(opt.files) -> Stats]
      BY <1>0, <3>2, StatsChange
    <3> QED
      BY <1>0, <3>1, <3>3
  <2> QED
    BY <1>2, <2>1, <2>2 DEF Types, ValidEnds, checkVars
<1>3. CASE UtilEnds
  <2>1. at' \in Place /\ at'.t = at.t
    BY <1>1, <1>3 DEF UtilEnds, MeasureTime
  <2>2. mm_stats' \in [1..Len(opt.files) -> Stats]
    <3>1. total.max \in Int /\ mem_brk - HeapLo \in Int
      BY MdriverAssumption DEF Types, HeapEnd
    <3>2. mm_stats' = [mm_stats EXCEPT ![at.t].hwm = total.max,
                                       ![at.t].heapsize = mem_brk - HeapLo]
      BY <1>3 DEF UtilEnds
    <3> QED
      BY <1>0, <3>1, <3>2, StatsChange
  <2> QED
    BY <1>3, <2>1, <2>2 DEF Types, UtilEnds, checkVars
<1>4. CASE SpeedEnds \/ SampleEnds
  <2>1. at' \in {Pass("speed", at.rep + 1), NextTrace}
    BY <1>4 DEF SpeedEnds, SampleEnds
  <2>2. at' \in Place /\ at'.t \in 1..Len(opt.files)
    BY <1>0, <1>1, <2>1, AfterTrace
  <2> QED
    BY <1>0, <1>4, <2>2, MoveTypes DEF SpeedEnds, SampleEnds, mainVars, checkVars, measureVars, Types
<1>5. CASE Report
  BY <1>5, EndTypes DEF Report
<1> QED
  BY <1>2, <1>3, <1>4, <1>5

\* Every step keeps the types.
LEMMA NextTypes ==
  ASSUME Types, Reading, Repeats, [Next]_vars
  PROVE  Types'
<1>1. CASE Next
  BY <1>1, ReadTypes, BeginTypes, CheckedTypes, PlainTypes, PassTypes DEF Next
<1>2. CASE UNCHANGED vars
  BY <1>2 DEF vars, mainVars, checkVars, measureVars, Types
<1> QED
  BY <1>1, <1>2

----------------------------------------------------------------------------
(* The steps of the driver, by what they do to its place. *)

\* A step ends the driver or the trace, goes on in it, or starts a pass; the
\* pass over a trace, once begun, keeps its requests.
Leaves   == at'.pc \in {"exit", "open", "init", "report"}
Starts   == /\ at' \in Place /\ at'.pc = "begin" /\ at'.i = 1 /\ at'.t = at.t
            /\ at.pc \in {"read", "ops"} /\ UNCHANGED <<opt, trace>>
Requests == /\ at.pc = "ops" /\ at.i <= Len(trace.ops) /\ NextOp
            /\ opt' = opt /\ trace' \in Trace /\ trace'.ops = trace.ops
            /\ IF trace.ops[at.i].type = "f" THEN trace' = trace
               ELSE \E p \in Pointer : /\ p.from = at
                                       /\ trace'.blocks = [trace.blocks EXCEPT ![index] = p]

\* What happens in a call
LEMMA CallKinds ==
  ASSUME Types, Reading,
         \/ valid_malloc \/ valid_realloc \/ valid_free
         \/ plain_malloc \/ plain_realloc \/ plain_free
  PROVE  Leaves \/ Requests
<1>0. at.pc = "ops" /\ at.i <= Len(trace.ops) /\ at \in Place /\ trace \in Trace
  BY DEF valid_malloc, valid_realloc, valid_free, plain_malloc, plain_realloc,
         plain_free, Doing, At, Types
<1>1. index \in Ids /\ size \in Nat
  BY <1>0, Current
<1>2. CASE Reject
  BY <1>2, AfterTrace DEF Reject, Leaves
<1>3. CASE GivesUp
  BY <1>0, <1>3, MovesOn DEF GivesUp, Leaves
<1>4. CASE Answered /\ trace.ops[at.i].type # "f"
  <2> DEFINE p == [addr |-> NULL, from |-> at]
  <2>0. p \in Pointer /\ p.from = at
    BY <1>0 DEF Pointer, NULL
  <2>1. /\ trace' \in Trace /\ trace'.ops = trace.ops
        /\ trace'.blocks = [trace.blocks EXCEPT ![index] = p]
    <3> DEFINE n == IF at.pass = "util" THEN size ELSE trace.block_sizes[index]
    <3>1. n \in Nat
      BY <1>0, <1>1 DEF Trace
    <3>2. Remembers(index, p, n)
      BY <1>4 DEF Answered, Remembers
    <3> HIDE DEF n, p
    <3> QED
      BY <1>0, <1>1, <2>0, <3>1, <3>2, TraceChanges
  <2> HIDE DEF p
  <2> QED
    BY <1>0, <1>4, <2>0, <2>1 DEF Answered, Requests
<1>5. ASSUME NEW rs, NEW lo \in Nat, Remember(rs, lo), Accept, trace.ops[at.i].type # "f"
      PROVE  Requests
  <2> DEFINE p == [addr |-> lo, from |-> at]
  <2>1. p \in Pointer /\ p.from = at
    BY <1>0 DEF Pointer
  <2>2. Remembers(index, p, size)
    BY <1>5 DEF Remember, Remembers
  <2> HIDE DEF p
  <2>3. /\ trace' \in Trace /\ trace'.ops = trace.ops
        /\ trace'.blocks = [trace.blocks EXCEPT ![index] = p]
    BY <1>0, <1>1, <2>1, <2>2, TraceChanges
  <2> QED
    BY <1>0, <1>5, <2>1, <2>3 DEF Accept, Requests
<1>6. CASE valid_malloc
  <2>1. /\ Reject \/ \E p \in Answers : Remember(ranges, p) /\ Accept
        /\ trace.ops[at.i].type # "f"
    BY <1>6 DEF valid_malloc, Doing
  <2> QED
    BY <1>2, <1>5, <2>1, MdriverAssumption DEF Answers, HeapEnd
<1>7. CASE valid_realloc
  <2> DEFINE rs == remove_range(ranges, trace.blocks[index].addr)
  <2>1. /\ Reject \/ \E p \in Answers : Remember(rs, p) /\ Accept
        /\ trace.ops[at.i].type # "f"
    BY <1>7 DEF valid_realloc, Doing
  <2> HIDE DEF rs
  <2> QED
    BY <1>2, <1>5, <2>1, MdriverAssumption DEF Answers, HeapEnd
<1>8. CASE valid_free \/ plain_free
  BY <1>0, <1>8 DEF valid_free, plain_free, Accept, Requests, mainVars, Doing
<1> QED
  BY <1>3, <1>4, <1>6, <1>7, <1>8 DEF plain_malloc, plain_realloc, Doing

\* What happens at the end of a pass
LEMMA PassKinds ==
  ASSUME Types, ValidEnds \/ UtilEnds \/ SpeedEnds \/ SampleEnds \/ Report
  PROVE  Leaves \/ Starts
<1>0. at \in Place /\ at.rep + 1 \in Nat
  BY DEF Types, Place
<1>1. CASE Report
  BY <1>0, <1>1, MovesOn DEF Report, Ends, Leaves
<1>2. CASE at' = NextTrace
  BY <1>2, AfterTrace DEF Leaves
<1>3. CASE /\ at.pc = "ops" /\ UNCHANGED <<opt, trace>>
           /\ \E pass \in {"util", "speed"}, rep \in {1, at.rep + 1} : at' = Pass(pass, rep)
  <2>1. \A pass \in {"util", "speed"}, rep \in {1, at.rep + 1} :
          /\ Pass(pass, rep) \in Place /\ Pass(pass, rep).pc = "begin"
          /\ Pass(pass, rep).i = 1 /\ Pass(pass, rep).t = at.t
    BY <1>0, PassFields
  <2> QED
    BY <1>3, <2>1 DEF Starts
<1> QED
  BY <1>1, <1>2, <1>3 DEF ValidEnds, UtilEnds, SpeedEnds, SampleEnds, MeasureTime,
                          PassOver, At, mainVars

----------------------------------------------------------------------------
(* The requests are those of the file. *)

\* Every step keeps what is read the beginning of the file.
LEMMA ReadingHolds ==
  ASSUME Types, Reading, [Next]_vars
  PROVE  Reading'
<1>0. at \in Place /\ trace \in Trace /\ trace.ops \in Seq(Request) /\ Len(trace.ops) \in Nat
  BY LenProperties DEF Types, Trace
<1>1. CASE Leaves
  BY <1>1 DEF Leaves, Reading
<1>2. CASE Starts
  BY <1>2 DEF Starts, Reading, File
<1>3. CASE Requests
  <2>1. at'.t = at.t /\ at'.pc = "ops" /\ at'.i = at.i + 1
    BY <1>0, <1>3, NextFields DEF Requests
  <2>2. at'.i <= Len(trace.ops) + 1
    BY <1>0, <1>3, <2>1 DEF Requests, Place
  <2> QED
    BY <1>3, <2>1, <2>2 DEF Requests, Reading, File
<1>4. CASE UNCHANGED vars
  BY <1>4 DEF vars, mainVars, Reading, File
<1>5. CASE MemInit
  <2>1. CASE Ends("failed")
    BY <1>0, <1>1, <2>1, MovesOn DEF Ends, Leaves
  <2>2. CASE at' = First("open", "mm", 1)
    BY <1>1, <2>2 DEF First, Leaves
  <2> QED
    BY <1>5, <2>1, <2>2 DEF MemInit
<1>6. CASE OpenTrace
  <2>1. CASE Ends("failed")
    BY <1>0, <1>1, <2>1, MovesOn DEF Ends, Leaves
  <2>2. CASE ~Ends("failed")
    <3>1. /\ at'.pc = "read" /\ at'.i = 1 /\ at'.t = at.t /\ opt' = opt
          /\ trace'.ops = <<>>
      BY <1>0, <1>6, <2>2, OpenFields DEF OpenTrace, NoTrace
    <3>2. Len(File.lines) \in Nat /\ File' = File
      BY <3>1, FilesExist, LenProperties DEF TraceFile, File
    <3> QED
      BY <3>1, <3>2 DEF Reading
  <2> QED
    BY <2>1, <2>2
<1>7. CASE ReadRequest
  <2>1. CASE Ends("failed") \/ Ends("undefined")
    BY <1>0, <1>1, <2>1, MovesOn DEF Ends, Leaves
  <2>2. CASE ~(Ends("failed") \/ Ends("undefined"))
    <3> DEFINE line == File.lines[at.i]
    <3>1. /\ at.pc = "read" /\ at.i <= Len(File.lines) /\ line.type \in {"a", "r", "f"}
          /\ trace' = [trace EXCEPT !.ops = Append(@, line)]
          /\ NextOp /\ opt' = opt
      BY <1>7, <2>2 DEF ReadRequest, NextOp, At
    <3>2. at'.t = at.t /\ at'.pc = "read" /\ at'.i = at.i + 1 /\ File' = File
      BY <1>0, <3>1, NextFields DEF File
    <3>3. line \in Request
      <4>1. at.i \in 1..Len(File.lines)
        <5>1. Len(File.lines) \in Nat
          BY FilesExist, LenProperties DEF TraceFile
        <5> QED
          BY <1>0, <3>1, <5>1 DEF Place
      <4> QED
        BY <3>1, <4>1, LinesInFile DEF Request
    <3>4. Len(trace.ops) = at.i - 1 /\ \A k \in 1..Len(trace.ops) : trace.ops[k] = File.lines[k]
      BY <3>1 DEF Reading
    <3>5. trace'.ops = Append(trace.ops, line)
      BY <1>0, <3>1 DEF Trace
    <3>6. /\ Len(trace'.ops) = at.i
          /\ \A k \in 1..at.i - 1 : trace'.ops[k] = File.lines[k]
          /\ trace'.ops[at.i] = line
      <4> HIDE DEF line
      <4>1. at.i \in Nat \ {0}
        BY <1>0 DEF Place
      <4> QED
        BY <1>0, <3>3, <3>4, <3>5, <4>1, AppendProperties
    <3>7. \A k \in 1..at.i : trace'.ops[k] = File.lines[k]
      BY <1>0, <3>6 DEF Place
    <3> QED
      BY <1>0, <3>1, <3>2, <3>6, <3>7 DEF Reading, Place
  <2> QED
    BY <2>1, <2>2
<1>8. CASE TraceRead
  <2>1. CASE Ends("aborted")
    BY <1>0, <1>1, <2>1, MovesOn DEF Ends, Leaves
  <2>2. CASE ~Ends("aborted")
    <3>1. /\ at.pc = "read" /\ at' = Pass("valid", 1) /\ UNCHANGED <<opt, trace>>
      BY <1>8, <2>2 DEF TraceRead, At, mainVars
    <3>2. Starts
      BY <1>0, <3>1, PassFields DEF Starts
    <3> QED
      BY <1>2, <3>2
  <2> QED
    BY <2>1, <2>2
<1>9. CASE BeginPass
  <2>1. CASE Ends("failed") \/ Reject
    BY <1>0, <1>1, <2>1, MovesOn, AfterTrace DEF Ends, Leaves, Reject
  <2>2. CASE ~(Ends("failed") \/ Reject)
    <3>1. at.pc = "begin" /\ at' = [at EXCEPT !.pc = "ops"] /\ UNCHANGED <<opt, trace>>
      BY <1>9, <2>2 DEF BeginPass, At, mainVars
    <3>2. at'.pc = "ops" /\ at'.i = at.i /\ at'.t = at.t
      BY <1>0, <3>1, MovesOn
    <3> QED
      BY <1>0, <3>1, <3>2 DEF Reading, File
  <2> QED
    BY <2>1, <2>2
<1> QED
  BY <1>1, <1>2, <1>3, <1>4, <1>5, <1>6, <1>7, <1>8, <1>9, CallKinds, PassKinds DEF Next

----------------------------------------------------------------------------
(* How often a pass is repeated. *)

\* Every step keeps to the repetitions of its pass.
LEMMA RepeatsHolds ==
  ASSUME Types, Repeats, [Next]_vars
  PROVE  Repeats'
<1>0. /\ at \in Place /\ at.rep \in Nat /\ at.rep >= 1
      /\ Runs \in Nat \ {0} /\ maxsamples \in Nat \ {0}
  BY MdriverAssumption, FcycAssumption DEF Types, Place, Repeats
<1>1. CASE at'.rep = 1 /\ at'.pass # "speed"
  BY <1>0, <1>1 DEF Repeats
<1>2. CASE /\ UNCHANGED <<opt, sampler>> /\ at'.rep = at.rep /\ at'.pass = at.pass
           /\ at'.pc = "exit" \/ (at'.pc = "ops" /\ at.pc \in {"begin", "ops"})
                              \/ at'.pc = "read" \/ at'.pc = at.pc
           /\ at'.pc \in {"read", "exit"} \/ at.pc = at'.pc \/ at.pc \in {"begin", "ops"}
  BY <1>0, <1>2 DEF Repeats
<1>3. CASE \E how : Ends(how)
  <2>1. at'.pc = "exit" /\ at'.rep = at.rep /\ at'.pass = at.pass
    BY <1>0, <1>3, MovesOn DEF Ends
  <2> QED
    BY <1>2, <1>3, <2>1 DEF Ends, measureVars
<1>4. CASE UNCHANGED vars
  BY <1>2, <1>4 DEF vars, mainVars, measureVars
<1>5. CASE MemInit
  BY <1>1, <1>3, <1>5 DEF MemInit, First
<1>6. CASE OpenTrace \/ ReadRequest
  <2>1. CASE ~\E how : Ends(how)
    <3>1. /\ UNCHANGED <<opt, sampler>> /\ at'.rep = at.rep /\ at'.pass = at.pass
          /\ at'.pc = "read"
      <4>1. CASE OpenTrace
        BY <1>0, <2>1, <4>1, OpenFields DEF OpenTrace, measureVars
      <4>2. CASE ReadRequest
        <5>1. NextOp /\ at.pc = "read" /\ UNCHANGED <<opt, sampler>>
          BY <2>1, <4>2 DEF ReadRequest, NextOp, measureVars, At
        <5> QED
          BY <1>0, <5>1, NextFields
      <4> QED
        BY <1>6, <4>1, <4>2
    <3> QED
      BY <1>2, <3>1
  <2> QED
    BY <1>3, <2>1
<1>7. CASE TraceRead
  <2>1. CASE at' = Pass("valid", 1)
    BY <1>0, <1>1, <2>1, PassFields
  <2> QED
    BY <1>3, <1>7, <2>1 DEF TraceRead
<1>8. CASE at' = NextTrace
  BY <1>1, <1>8, AfterTrace
<1>9. CASE BeginPass
  <2>1. CASE at' = [at EXCEPT !.pc = "ops"] /\ UNCHANGED <<opt, sampler>> /\ at.pc = "begin"
    BY <1>0, <1>2, <2>1, MovesOn
  <2> QED
    BY <1>3, <1>8, <1>9, <2>1 DEF BeginPass, Reject, mainVars, measureVars, At
<1>10. CASE NextOp /\ UNCHANGED <<opt, sampler>>
  BY <1>0, <1>2, <1>10, NextFields
<1>11. CASE valid_malloc \/ valid_realloc \/ valid_free
  <2>1. Accept \/ Reject
    BY <1>11 DEF valid_malloc, valid_realloc, valid_free
  <2> QED
    BY <1>8, <1>10, <2>1 DEF Accept, Reject, measureVars
<1>12. CASE plain_malloc \/ plain_realloc \/ plain_free
  <2>1. CASE GivesUp
    <3>1. at'.pc = "exit" /\ at'.rep = at.rep /\ at'.pass = at.pass
      BY <1>0, <2>1, MovesOn DEF GivesUp
    <3> QED
      BY <1>2, <2>1, <3>1 DEF GivesUp, measureVars
  <2> QED
    BY <1>10, <1>12, <2>1 DEF plain_malloc, plain_realloc, plain_free, Answered, mainVars
<1>13. CASE ValidEnds \/ UtilEnds
  <2>1. CASE MeasureTime
    <3>1. at'.pass = "speed" /\ at'.rep = 1 /\ sampler'.samplecount = 0
      BY <1>0, <2>1, PassFields DEF MeasureTime, init_sampler
    <3> QED
      BY <1>0, <3>1 DEF Repeats
  <2>2. CASE at' = Pass("util", 1)
    BY <1>0, <1>1, <2>2, PassFields
  <2> QED
    BY <1>13, <2>1, <2>2 DEF ValidEnds, UtilEnds
<1>14. CASE SpeedEnds
  <2>1. CASE at' = Pass("speed", at.rep + 1) /\ at.rep < Runs
    <3>1. at'.rep = at.rep + 1 /\ opt'.timer = "gettod"
      BY <1>0, <1>14, <2>1, PassFields DEF SpeedEnds, mainVars
    <3> QED
      BY <1>0, <2>1, <3>1 DEF Repeats
  <2> QED
    BY <1>8, <1>14, <2>1 DEF SpeedEnds
<1>15. CASE SampleEnds
  <2>1. sampler'.samplecount = sampler.samplecount + 1
    BY <1>15 DEF SampleEnds, add_sample
  <2>2. CASE at' = Pass("speed", at.rep + 1) /\ Goes_on(sampler')
    <3>1. at'.rep = at.rep + 1
      BY <1>0, <2>2, PassFields
    <3>2. at.rep = sampler.samplecount + 1
      BY <1>15 DEF SampleEnds, PassOver, At, Repeats
    <3>3. sampler'.samplecount < maxsamples
      BY <2>2 DEF Goes_on
    <3>4. sampler'.samplecount = at.rep
      BY <1>0, <2>1, <3>2
    <3> QED
      BY <1>0, <3>1, <3>3, <3>4 DEF Repeats
  <2> QED
    BY <1>8, <1>15, <2>2 DEF SampleEnds
<1>16. CASE Report
  BY <1>3, <1>16 DEF Report
<1> QED
  BY <1>4, <1>5, <1>6, <1>7, <1>9, <1>11, <1>12, <1>13, <1>14, <1>15, <1>16 DEF Next

----------------------------------------------------------------------------
(* The pointers in use. *)

\* No pass is under way before or after the step unless the step is a request
\* or the start of the pass.
LEMMA PassSteps ==
  ASSUME Types, Reading, [Next]_vars, at'.pc = "ops"
  PROVE  \/ UNCHANGED vars
         \/ Requests
         \/ BeginPass /\ at.i = 1 /\ at' = [at EXCEPT !.pc = "ops"] /\ UNCHANGED <<opt, trace>>
<1>0. at \in Place
  BY DEF Types
<1>1. CASE \E how : Ends(how)
  BY <1>0, <1>1, MovesOn DEF Ends
<1>2. CASE MemInit
  BY <1>1, <1>2 DEF MemInit, First
<1>3. CASE OpenTrace
  <2>1. CASE ~Ends("failed")
    <3>1. at'.pc = "read"
      BY <1>0, <1>3, <2>1, OpenFields DEF OpenTrace
    <3> QED
      BY <3>1
  <2> QED
    BY <1>1, <2>1
<1>4. CASE ReadRequest
  <2>1. CASE NextOp /\ at.pc = "read"
    BY <1>0, <2>1, NextFields
  <2> QED
    BY <1>1, <1>4, <2>1 DEF ReadRequest, NextOp, At
<1>5. CASE TraceRead
  <2>1. CASE at' = Pass("valid", 1)
    BY <1>0, <2>1, PassFields
  <2> QED
    BY <1>1, <1>5, <2>1 DEF TraceRead
<1>6. CASE BeginPass
  <2>1. CASE Reject
    BY <2>1, AfterTrace DEF Reject
  <2> QED
    BY <1>1, <1>6, <2>1 DEF BeginPass, At, Reading, mainVars
<1>7. CASE Leaves \/ Starts
  BY <1>7 DEF Leaves, Starts
<1> QED
  BY <1>2, <1>3, <1>4, <1>5, <1>6, <1>7, CallKinds, PassKinds DEF Next

\* Every step keeps the pointers those of this pass.
LEMMA PointersHold ==
  ASSUME Types, Reading, Pointers, [Next]_vars
  PROVE  Pointers'
<1> SUFFICES ASSUME at'.pc = "ops", NEW k \in LiveOps(at.i - 1)'
             PROVE  trace'.blocks[trace'.ops[k].index].from = [at' EXCEPT !.i = k]
  BY DEF Pointers, Call
<1>0. at \in Place /\ trace \in Trace /\ at.i \in Nat \ {0}
  BY DEF Types, Place
<1>1. CASE UNCHANGED vars
  BY <1>1 DEF vars, mainVars, Pointers, LiveOps, Call
<1>2. CASE at.i = 1 /\ at' = [at EXCEPT !.pc = "ops"]
  <2>1. at'.i = 1
    BY <1>0, <1>2, MovesOn
  <2> QED
    BY <2>1 DEF LiveOps
<1>3. CASE Requests
  <2>1. at'.pc = "ops" /\ at'.i = at.i + 1 /\ at' \in Place
    BY <1>0, <1>3, NextFields DEF Requests
  <2>2. k \in LiveOps(at.i) /\ trace'.ops = trace.ops
    BY <1>0, <1>3, <2>1 DEF Requests, LiveOps
  <2>3. [at' EXCEPT !.i = k] = [at EXCEPT !.i = k]
    BY <1>0, <1>3 DEF Requests, NextOp, Place
  <2>4. at.pc = "ops" /\ index \in Ids /\ index = trace.ops[at.i].index
    BY <1>3, Current DEF Requests, index
  <2>5. LiveOps(at.i) = {j \in LiveOps(at.i - 1) : trace.ops[j].index # trace.ops[at.i].index}
                          \cup (IF trace.ops[at.i].type # "f" THEN {at.i} ELSE {})
    BY <1>0, LiveGrows
  <2>6. CASE k \in LiveOps(at.i - 1) /\ trace.ops[k].index # index
    <3>1. trace.blocks[trace.ops[k].index].from = [at EXCEPT !.i = k]
      BY <2>4, <2>6 DEF Pointers, Call
    <3>2. trace'.blocks[trace.ops[k].index] = trace.blocks[trace.ops[k].index]
      <4>1. trace.ops[k].index \in Ids
        <5>1. k \in 1..Len(trace.ops) /\ trace.ops \in Seq(Request)
          BY <1>0, <1>3, <2>6, LenProperties DEF LiveOps, Requests, Trace
        <5>2. trace.ops[k] \in Request
          BY <5>1, ElementOfSeq
        <5> QED
          BY <5>2 DEF Request
      <4>2. trace.blocks \in [Ids -> Pointer]
        BY <1>0 DEF Trace
      <4> QED
        BY <1>3, <2>6, <4>1, <4>2 DEF Requests
    <3> QED
      BY <2>2, <2>3, <3>1, <3>2
  <2>7. CASE k = at.i /\ trace.ops[at.i].type # "f"
    <3>1. PICK p \in Pointer : p.from = at /\ trace'.blocks = [trace.blocks EXCEPT ![index] = p]
      BY <1>3, <2>7 DEF Requests
    <3>2. trace'.blocks[index] = p
      BY <1>0, <2>4, <3>1 DEF Trace
    <3>3. [at EXCEPT !.i = k] = at
      BY <1>0, <2>7 DEF Place
    <3> QED
      BY <2>2, <2>3, <2>4, <2>7, <3>1, <3>2, <3>3
  <2> QED
    BY <2>2, <2>4, <2>5, <2>6, <2>7
<1> QED
  BY <1>1, <1>2, <1>3, PassSteps

----------------------------------------------------------------------------
(* Verdicts and errors. *)

\* Every step keeps the order of the passes.
LEMMA StagesHold ==
  ASSUME Types, Reading, Stages, [Next]_vars
  PROVE  Stages'
<1>0. at \in Place
  BY DEF Types
<1>1. CASE at'.pc \notin {"init", "open", "read", "report"}
  BY <1>1 DEF Stages
<1>2. CASE \E how : Ends(how)
  BY <1>0, <1>1, <1>2, MovesOn DEF Ends
<1>3. CASE at' = NextTrace
  <2>1. at.testing \in {"libc", "mm"} /\ at.t \in Nat
    BY <1>0 DEF Place
  <2>2. NextTrace.pc = "open" \/ NextTrace = First("init", "mm", 1)
                              \/ NextTrace = First("report", "mm", 1)
    <3>1. CASE at.t < Len(opt.files)
      BY <3>1 DEF NextTrace, First
    <3>2. CASE ~(at.t < Len(opt.files))
      BY <3>2 DEF NextTrace
    <3> QED
      BY <3>1, <3>2
  <2> QED
    BY <1>3, <2>2, AfterTrace DEF Stages, First
<1>4. CASE MemInit
  <2>1. CASE at' = First("open", "mm", 1)
    BY <2>1 DEF Stages, First
  <2> QED
    BY <1>2, <1>4, <2>1 DEF MemInit
<1>5. CASE OpenTrace
  <2>1. CASE ~Ends("failed")
    <3>1. at'.pc = "read" /\ at'.pass = at.pass /\ at.pc = "open"
      BY <1>0, <1>5, <2>1, OpenFields DEF OpenTrace, At
    <3> QED
      BY <3>1 DEF Stages
  <2> QED
    BY <1>2, <2>1
<1>6. CASE ReadRequest
  <2>1. CASE NextOp /\ at.pc = "read"
    BY <1>0, <2>1, NextFields DEF Stages
  <2> QED
    BY <1>2, <1>6, <2>1 DEF ReadRequest, NextOp, At
<1>7. CASE TraceRead
  <2>1. CASE at' = Pass("valid", 1)
    BY <1>0, <1>1, <2>1, PassFields
  <2> QED
    BY <1>2, <1>7, <2>1 DEF TraceRead
<1>8. CASE BeginPass
  <2>1. CASE at' = [at EXCEPT !.pc = "ops"]
    BY <1>0, <1>1, <2>1, MovesOn
  <2> QED
    BY <1>2, <1>3, <1>8, <2>1 DEF BeginPass, Reject
<1>9. CASE \/ valid_malloc \/ valid_realloc \/ valid_free
           \/ plain_malloc \/ plain_realloc \/ plain_free
  <2>1. CASE NextOp /\ at.pc = "ops"
    BY <1>0, <1>1, <2>1, NextFields
  <2>2. CASE GivesUp
    BY <1>0, <1>1, <2>2, MovesOn DEF GivesUp
  <2> QED
    BY <1>3, <1>9, <2>1, <2>2
    DEF valid_malloc, valid_realloc, valid_free, plain_malloc, plain_realloc, plain_free,
        Doing, At, Accept, Reject, Answered
<1>10. CASE ValidEnds \/ UtilEnds \/ SpeedEnds \/ SampleEnds \/ Report
  <2>1. CASE \E pass \in {"util", "speed"}, rep \in {1, at.rep + 1} : at' = Pass(pass, rep)
    <3>1. at.rep + 1 \in Nat
      BY <1>0 DEF Place
    <3> QED
      BY <1>0, <1>1, <2>1, <3>1, PassFields
  <2> QED
    BY <1>2, <1>3, <1>10, <2>1
    DEF ValidEnds, UtilEnds, SpeedEnds, SampleEnds, Report, MeasureTime
<1>11. CASE UNCHANGED vars
  BY <1>11 DEF vars, Stages
<1> QED
  BY <1>4, <1>5, <1>6, <1>7, <1>8, <1>9, <1>10, <1>11 DEF Next

\* The verdicts so far, if the step adds none
LEMMA SameTally ==
  ASSUME Types, Tally, at.pc # "exit", at'.pc # "exit",
         Judged' = Judged, UNCHANGED <<mm_stats, errors, outcome>>
  PROVE  Tally'
BY DEF Tally, Failed

\* exit, but for main's own report
LEMMA EndTally ==
  ASSUME NEW how \in {"failed", "aborted", "undefined"}, outcome' = how, at'.pc = "exit"
  PROVE  Tally'
BY DEF Tally, ReportIsTrue

\* A trace that is rejected is one failure more.
LEMMA RejectTally ==
  ASSUME Types, Tally, Checked, at.pc \in {"begin", "ops"}, Reject
  PROVE  Tally'
<1>0. /\ at \in Place /\ at.t \in 1..Len(opt.files) /\ at.t \in Nat \ {0}
      /\ Len(opt.files) \in Nat
      /\ mm_stats \in [1..Len(opt.files) -> Stats]
  BY FilesExist DEF Types
<1>1. Judged = at.t - 1
  BY DEF Judged, Checked
<1>2. at'.pc # "exit" /\ Judged' = at.t
  <2>1. CASE at.t < Len(opt.files)
    <3>1. at' = First("open", "mm", at.t + 1)
      BY <2>1 DEF Reject, NextTrace, Checked
    <3> QED
      BY <1>0, <3>1 DEF Judged, First
  <2>2. CASE ~(at.t < Len(opt.files))
    <3>1. at' = First("report", "mm", 1) /\ at.t = Len(opt.files) /\ opt' = opt
      BY <1>0, <2>2 DEF Reject, NextTrace, Checked
    <3> QED
      BY <3>1 DEF Judged, First
  <2> QED
    BY <2>1, <2>2
<1>3. /\ errors = Cardinality(Failed)
      /\ \A k \in DOMAIN mm_stats : k > Judged => ~mm_stats[k].valid
      /\ outcome = "running"
  BY DEF Tally
<1>4. ~mm_stats[at.t].valid
  BY <1>0, <1>1, <1>3
<1>5. Failed' = Failed \cup {at.t} /\ at.t \notin Failed
  <2>1. 1..at.t = (1..at.t - 1) \cup {at.t} /\ at.t \notin 1..at.t - 1
    BY <1>0
  <2>2. mm_stats' = mm_stats
    BY DEF Reject
  <2> QED
    BY <1>1, <1>2, <1>4, <2>1, <2>2 DEF Failed
<1>6. IsFiniteSet(Failed)
  <2>1. IsFiniteSet(1..Judged)
    BY <1>0, <1>1, FS_Interval
  <2> QED
    BY <2>1, FS_Subset DEF Failed
<1>7. errors' = Cardinality(Failed')
  BY <1>3, <1>5, <1>6, FS_AddElement DEF Reject
<1>8. \A k \in DOMAIN mm_stats : k > at.t => ~mm_stats[k].valid
  BY <1>0, <1>1, <1>3
<1> QED
  BY <1>2, <1>3, <1>7, <1>8 DEF Tally, Reject

\* What has been judged does not change between the ends of passes.
LEMMA NextTally ==
  ASSUME Types, Tally, at.pc = "ops", at.pass = "speed", at' = NextTrace,
         UNCHANGED <<opt, mm_stats, errors, outcome>>
  PROVE  Tally'
<1>0. /\ at \in Place /\ at.t \in 1..Len(opt.files) /\ at.t \in Nat \ {0}
      /\ Len(opt.files) \in Nat
  BY FilesExist DEF Types
<1>1. at'.pc # "exit" /\ Judged' = Judged
  <2>1. CASE at.t < Len(opt.files)
    <3>1. at' = First("open", at.testing, at.t + 1)
      BY <2>1 DEF NextTrace
    <3> QED
      BY <1>0, <3>1 DEF Judged, First, Place
  <2>2. CASE ~(at.t < Len(opt.files)) /\ at.testing = "libc"
    <3>1. at' = First("init", "mm", 1)
      BY <2>2 DEF NextTrace
    <3> QED
      BY <2>2, <3>1 DEF Judged, First
  <2>3. CASE ~(at.t < Len(opt.files)) /\ at.testing # "libc"
    <3>1. at' = First("report", "mm", 1) /\ at.t = Len(opt.files)
      BY <1>0, <2>3 DEF NextTrace
    <3> QED
      BY <2>3, <3>1 DEF Judged, First
  <2> QED
    BY <2>1, <2>2, <2>3
<1> QED
  BY <1>1, SameTally

\* A step that keeps the allocator, the pass and the trace
LEMMA StayTally ==
  ASSUME Types, Tally, at.pc \notin {"report", "exit"}, at'.pc \notin {"report", "exit"},
         at'.testing = at.testing, at'.t = at.t,
         at'.pass = at.pass \/ {at.pass, at'.pass} \subseteq {"util", "speed"},
         UNCHANGED <<opt, mm_stats, errors, outcome>>
  PROVE  Tally'
<1>1. Judged' = Judged
  BY DEF Judged
<1> QED
  BY <1>1, SameTally

\* The end of a validity pass counts its verdict.
LEMMA ValidTally ==
  ASSUME Types, Tally, ValidEnds
  PROVE  Tally'
<1>0. /\ at \in Place /\ at.t \in 1..Len(opt.files) /\ at.t \in Nat \ {0}
      /\ Len(opt.files) \in Nat
      /\ mm_stats \in [1..Len(opt.files) -> Stats]
      /\ at.pc = "ops" /\ at.pass = "valid" /\ UNCHANGED <<opt, errors, outcome>>
  BY FilesExist DEF Types, ValidEnds, PassOver, At
<1>1. CASE at.testing = "libc"
  <2>1. at' = Pass("speed", 1) /\ mm_stats' = mm_stats
    BY <1>1 DEF ValidEnds, MeasureTime
  <2>2. at'.pc = "begin" /\ at'.testing = "libc"
    BY <1>0, <1>1, <2>1, PassFields
  <2>3. Judged' = Judged
    BY <1>1, <2>2 DEF Judged
  <2> QED
    BY <1>0, <2>1, <2>2, <2>3, SameTally
<1>2. CASE at.testing # "libc"
  <2>1. /\ at' = Pass("util", 1)
        /\ mm_stats' = [mm_stats EXCEPT ![at.t].valid = TRUE]
    BY <1>2 DEF ValidEnds
  <2>2. at'.pc = "begin" /\ at'.testing = at.testing /\ at'.pass = "util" /\ at'.t = at.t
    BY <1>0, <2>1, PassFields
  <2>3. Judged = at.t - 1 /\ Judged' = at.t
    BY <1>0, <1>2, <2>2 DEF Judged
  <2>4. /\ DOMAIN mm_stats' = DOMAIN mm_stats
        /\ mm_stats'[at.t].valid
        /\ \A k \in DOMAIN mm_stats : k # at.t => mm_stats'[k] = mm_stats[k]
    <3>1. mm_stats[at.t] \in Stats
      BY <1>0
    <3>2. mm_stats'[at.t] = [mm_stats[at.t] EXCEPT !.valid = TRUE]
      BY <1>0, <2>1
    <3> QED
      BY <1>0, <2>1, <3>1, <3>2 DEF Stats
  <2>5. Failed' = Failed
    <3>1. 1..at.t = (1..at.t - 1) \cup {at.t} /\ at.t \notin 1..at.t - 1
      BY <1>0
    <3>2. \A k \in 1..at.t - 1 : mm_stats'[k] = mm_stats[k]
      BY <1>0, <2>4
    <3> QED
      BY <2>3, <2>4, <3>1, <3>2 DEF Failed
  <2>6. \A k \in DOMAIN mm_stats : k > at.t => ~mm_stats'[k].valid
    BY <1>0, <2>3, <2>4 DEF Tally
  <2> QED
    BY <1>0, <2>2, <2>3, <2>4, <2>5, <2>6 DEF Tally
<1> QED
  BY <1>1, <1>2

\* The end of a utilization pass counts nothing.
LEMMA UtilTally ==
  ASSUME Types, Tally, UtilEnds
  PROVE  Tally'
<1>0. /\ at \in Place /\ mm_stats \in [1..Len(opt.files) -> Stats]
      /\ at.pc = "ops" /\ at.pass = "util" /\ UNCHANGED <<opt, errors, outcome>>
      /\ at.t \in 1..Len(opt.files)
  BY DEF Types, UtilEnds, PassOver, At
<1>1. at'.pc = "begin" /\ at'.testing = at.testing /\ at'.pass = "speed" /\ at'.t = at.t
  BY <1>0, PassFields DEF UtilEnds, MeasureTime
<1>2. Judged' = Judged
  BY <1>0, <1>1 DEF Judged
<1>3. /\ DOMAIN mm_stats' = DOMAIN mm_stats
      /\ \A k \in DOMAIN mm_stats : mm_stats'[k].valid = mm_stats[k].valid
  <2> DEFINE st == mm_stats[at.t]
  <2>1. mm_stats' = [mm_stats EXCEPT ![at.t] =
                       [st EXCEPT !.hwm = total.max, !.heapsize = mem_brk - HeapLo]]
    BY DEF UtilEnds
  <2>2. st \in Stats
    BY <1>0
  <2>3. [st EXCEPT !.hwm = total.max, !.heapsize = mem_brk - HeapLo].valid = st.valid
    BY <2>2 DEF Stats
  <2> QED
    BY <1>0, <2>1, <2>3
<1>4. Failed' = Failed
  <2>1. 1..Judged' = 1..Judged
    BY <1>2
  <2>2. 1..Judged \subseteq DOMAIN mm_stats
    BY <1>0, FilesExist DEF Judged, Place
  <2> QED
    BY <1>3, <2>1, <2>2 DEF Failed
<1> QED
  BY <1>0, <1>1, <1>2, <1>3, <1>4 DEF Tally

\* main reports the errors that there are.
LEMMA ReportTally ==
  ASSUME Types, Stages, Tally, Report
  PROVE  Tally'
<1>0. /\ at \in Place /\ at.pc = "report" /\ at.testing = "mm"
      /\ mm_stats \in [1..Len(opt.files) -> Stats] /\ DOMAIN mm_stats = 1..Len(opt.files)
      /\ Len(opt.files) \in Nat
  BY FilesExist DEF Report, At, Stages, Types
<1>1. /\ UNCHANGED <<mm_stats, errors>> /\ at'.pc = "exit"
      /\ outcome' = IF errors = 0 THEN "index" ELSE "errors"
  BY <1>0, MovesOn DEF Report, Ends
<1>2. Failed = {k \in DOMAIN mm_stats : ~mm_stats[k].valid}
  BY <1>0 DEF Failed, Judged
<1>3. errors = Cardinality(Failed)
  BY <1>0 DEF Tally
<1>4. IsFiniteSet(Failed)
  <2>1. IsFiniteSet(1..Len(opt.files))
    BY <1>0, FS_Interval
  <2> QED
    BY <1>0, <1>2, <2>1, FS_Subset
<1>5. errors = 0 <=> Failed = {}
  BY <1>3, <1>4, FS_EmptySet
<1> QED
  BY <1>1, <1>2, <1>3, <1>5 DEF Tally, ReportIsTrue

\* Every step keeps the number of errors that of the rejected traces.
LEMMA TallyHolds ==
  ASSUME Types, Reading, Stages, Tally, [Next]_vars
  PROVE  Tally'
<1>0. at \in Place
  BY DEF Types
<1>1. CASE UNCHANGED vars
  BY <1>1 DEF vars, mainVars, Tally, Failed, Judged, ReportIsTrue
<1>2. CASE \E how \in {"failed", "aborted", "undefined"} : Ends(how)
  BY <1>0, <1>2, MovesOn, EndTally DEF Ends
<1>3. CASE MemInit
  <2>1. CASE ~Ends("failed")
    <3>1. /\ at' = First("open", "mm", 1) /\ at.pc = "init"
          /\ UNCHANGED <<opt, mm_stats, errors, outcome>>
      BY <1>3, <2>1 DEF MemInit, At, mainVars
    <3>2. at.testing = "mm" /\ at.t = 1 /\ at.pass = "valid"
      BY <3>1 DEF Stages
    <3> QED
      BY <3>1, <3>2, StayTally DEF First
  <2> QED
    BY <1>2, <2>1
<1>4. CASE OpenTrace
  <2>1. CASE ~Ends("failed")
    <3>1. /\ at.pc = "open" /\ UNCHANGED <<opt, mm_stats, errors, outcome>>
          /\ at'.pc = "read" /\ at'.testing = at.testing /\ at'.t = at.t /\ at'.pass = at.pass
      BY <1>0, <1>4, <2>1, OpenFields DEF OpenTrace, At
    <3> QED
      BY <3>1, StayTally
  <2> QED
    BY <1>2, <2>1
<1>5. CASE NextOp /\ at.pc \in {"read", "ops"} /\ UNCHANGED <<opt, mm_stats, errors, outcome>>
  BY <1>0, <1>5, NextFields, StayTally
<1>6. CASE ReadRequest
  BY <1>2, <1>5, <1>6 DEF ReadRequest, NextOp, At
<1>7. CASE TraceRead
  <2>1. CASE ~Ends("aborted")
    <3>1. /\ at.pc = "read" /\ at.pass = "valid" /\ at' = Pass("valid", 1)
          /\ UNCHANGED <<opt, mm_stats, errors, outcome>>
      BY <1>7, <2>1 DEF TraceRead, At, mainVars, Stages
    <3> QED
      BY <1>0, <3>1, PassFields, StayTally
  <2> QED
    BY <1>2, <2>1
<1>8. CASE BeginPass
  <2>1. CASE at' = [at EXCEPT !.pc = "ops"] /\ UNCHANGED mainVars
    BY <1>0, <1>8, <2>1, MovesOn, StayTally DEF BeginPass, At, mainVars
  <2> QED
    BY <1>2, <1>8, <2>1, RejectTally DEF BeginPass, At
<1>9. CASE GivesUp
  BY <1>0, <1>9, MovesOn, EndTally DEF GivesUp
<1>10. CASE valid_malloc \/ valid_realloc \/ valid_free
  <2>1. at.pc = "ops" /\ Checked /\ (Accept \/ Reject)
    BY <1>10 DEF valid_malloc, valid_realloc, valid_free, Doing, At
  <2>2. CASE Accept
    BY <1>5, <2>1, <2>2 DEF Accept
  <2>3. CASE Reject
    BY <2>1, <2>3, RejectTally
  <2> QED
    BY <2>1, <2>2, <2>3
<1>11. CASE plain_malloc \/ plain_realloc \/ plain_free
  BY <1>5, <1>9, <1>11 DEF plain_malloc, plain_realloc, plain_free, Doing, At, Answered, mainVars
<1>12. CASE SpeedEnds \/ SampleEnds
  <2>1. at.pc = "ops" /\ at.pass = "speed" /\ UNCHANGED <<opt, mm_stats, errors, outcome>>
    BY <1>12 DEF SpeedEnds, SampleEnds, PassOver, At, mainVars
  <2>2. CASE at' = Pass("speed", at.rep + 1)
    <3>1. at.rep + 1 \in Nat
      BY <1>0 DEF Place
    <3> QED
      BY <1>0, <2>1, <2>2, <3>1, PassFields, StayTally
  <2>3. CASE at' = NextTrace
    BY <2>1, <2>3, NextTally
  <2> QED
    BY <1>12, <2>2, <2>3 DEF SpeedEnds, SampleEnds
<1> QED
  BY <1>1, <1>3, <1>4, <1>6, <1>7, <1>8, <1>10, <1>11, <1>12, ValidTally, UtilTally, ReportTally
  DEF Next

----------------------------------------------------------------------------
(* The list of ranges, and the blocks in use. *)

\* A new block in front of the list
LEMMA ListGrows ==
  ASSUME NEW rs \in Seq(Span), NEW own, NEW e, NEW id, NEW x \in Span, NEW e2,
         Lists(rs, own, e), id \notin own, e2[id] = x,
         \A other \in own : e2[other] = e[other],
         \A k \in DOMAIN rs : rs[k].lo # x.lo
  PROVE  Lists(Cons(x, rs), own \cup {id}, e2)
<1> DEFINE out == Cons(x, rs)
<1>1. /\ DOMAIN rs = 1..Len(rs) /\ Len(rs) \in Nat
  BY LenProperties
<1>2. /\ out \in Seq(Span) /\ Len(out) = Len(rs) + 1
      /\ out[1] = x /\ \A k \in 1..Len(rs) : out[k + 1] = rs[k]
  BY ConsRange
<1> HIDE DEF out
<1>3. DOMAIN out = 1..Len(rs) + 1
  BY <1>2, LenProperties
<1>4. \A k \in DOMAIN out : (k = 1 /\ out[k] = x)
                            \/ (k - 1 \in DOMAIN rs /\ out[k] = rs[k - 1])
  <2> SUFFICES ASSUME NEW k \in DOMAIN out, k # 1
               PROVE  k - 1 \in DOMAIN rs /\ out[k] = rs[k - 1]
    BY <1>2
  <2>1. k - 1 \in 1..Len(rs) /\ (k - 1) + 1 = k
    BY <1>1, <1>3
  <2> QED
    BY <1>1, <1>2, <2>1
<1>5. /\ IsFiniteSet(own) /\ Len(rs) = Cardinality(own)
      /\ \A j, k \in DOMAIN rs : rs[j].lo = rs[k].lo => j = k
      /\ \A k \in DOMAIN rs : \E b \in own : rs[k] = e[b]
      /\ \A b \in own : \E k \in DOMAIN rs : rs[k] = e[b]
      /\ \A b, other \in own : e[b].lo = e[other].lo => b = other
  BY DEF Lists
<1>6. IsFiniteSet(own \cup {id}) /\ Len(out) = Cardinality(own \cup {id})
  BY <1>2, <1>5, FS_AddElement
<1>7. ASSUME NEW j \in DOMAIN out, NEW k \in DOMAIN out, out[j].lo = out[k].lo
      PROVE  j = k
  <2>1. CASE j = 1
    BY <1>4, <1>7, <2>1
  <2>2. CASE k = 1
    BY <1>4, <1>7, <2>2
  <2>3. CASE j # 1 /\ k # 1
    <3>1. j - 1 = k - 1
      BY <1>4, <1>5, <1>7, <2>3
    <3> QED
      BY <1>1, <1>3, <3>1
  <2> QED
    BY <2>1, <2>2, <2>3
<1>8. ASSUME NEW k \in DOMAIN out
      PROVE  \E b \in own \cup {id} : out[k] = e2[b]
  BY <1>4, <1>5
<1>9. ASSUME NEW b \in own \cup {id}
      PROVE  \E k \in DOMAIN out : out[k] = e2[b]
  <2>1. CASE b = id
    <3>1. 1 \in DOMAIN out
      BY <1>1, <1>3
    <3> QED
      BY <1>2, <2>1, <3>1
  <2>2. CASE b \in own
    <3>1. PICK k \in DOMAIN rs : rs[k] = e[b]
      BY <1>5, <2>2
    <3>2. k + 1 \in DOMAIN out /\ out[k + 1] = e2[b]
      BY <1>1, <1>2, <1>3, <2>2, <3>1
    <3> QED
      BY <3>2
  <2> QED
    BY <2>1, <2>2
<1>10. ASSUME NEW b \in own \cup {id}, NEW other \in own \cup {id}, e2[b].lo = e2[other].lo
       PROVE  b = other
  <2>1. \A c \in own : e2[c].lo # x.lo
    <3> SUFFICES ASSUME NEW c \in own PROVE e2[c].lo # x.lo
      OBVIOUS
    <3>1. PICK k \in DOMAIN rs : rs[k] = e[c]
      BY <1>5
    <3>2. rs[k].lo # x.lo /\ e2[c] = e[c]
      OBVIOUS
    <3> QED
      BY ONLY <3>1, <3>2
  <2>2. CASE b \in own /\ other \in own
    BY <1>5, <1>10, <2>2
  <2>3. CASE b \notin own \/ other \notin own
    BY <1>10, <2>1, <2>3
  <2> QED
    BY <2>2, <2>3
<1>11. Lists(out, own \cup {id}, e2)
  BY <1>6, <1>7, <1>8, <1>9, <1>10 DEF Lists
<1> QED
  BY <1>11 DEF out

\* remove_range takes one block out of it, and no other.
LEMMA ListShrinks ==
  ASSUME NEW rs \in Seq(Span), NEW own, NEW e, NEW id \in own, Lists(rs, own, e)
  PROVE  Lists(remove_range(rs, e[id].lo), own \ {id}, e)
<1> DEFINE out == remove_range(rs, e[id].lo)
<1>1. /\ DOMAIN rs = 1..Len(rs) /\ Len(rs) \in Nat
  BY LenProperties
<1>2. /\ IsFiniteSet(own) /\ Len(rs) = Cardinality(own)
      /\ \A j, k \in DOMAIN rs : rs[j].lo = rs[k].lo => j = k
      /\ \A k \in DOMAIN rs : \E b \in own : rs[k] = e[b]
      /\ \A b \in own : \E k \in DOMAIN rs : rs[k] = e[b]
      /\ \A b, other \in own : e[b].lo = e[other].lo => b = other
  BY DEF Lists
<1>3. PICK m \in 1..Len(rs) :
        /\ rs[m].lo = e[id].lo
        /\ out \in Seq(Span) /\ Len(out) = Len(rs) - 1
        /\ \A k \in 1..Len(rs) - 1 : out[k] = IF k < m THEN rs[k] ELSE rs[k+1]
  <2>1. PICK p \in 1..Len(rs) : rs[p].lo = e[id].lo
    BY <1>1, <1>2
  <2>2. PICK m \in 1..Len(rs) : rs[m].lo = e[id].lo /\ Without(rs, m, out)
    BY <2>1, RemoveRange
  <2> QED
    BY <2>2 DEF Without
<1> HIDE DEF out
<1>4. DOMAIN out = 1..Len(rs) - 1
  BY <1>3, LenProperties
<1> DEFINE old(k) == IF k < m THEN k ELSE k + 1
<1>5. \A k \in DOMAIN out : old(k) \in DOMAIN rs /\ old(k) # m /\ out[k] = rs[old(k)]
  <2>1. \A k \in 1..Len(rs) - 1 : old(k) \in 1..Len(rs) /\ old(k) # m
    BY <1>1
  <2>2. \A k \in 1..Len(rs) - 1 : out[k] = rs[old(k)]
    BY <1>3
  <2> QED
    BY <1>1, <1>4, <2>1, <2>2
<1>6. \A j, k \in DOMAIN out : old(j) = old(k) => j = k
  BY <1>1, <1>3, <1>4
<1>7. \A j \in DOMAIN rs : j # m => \E k \in DOMAIN out : old(k) = j
  <2> SUFFICES ASSUME NEW j \in DOMAIN rs, j # m
               PROVE  \E k \in DOMAIN out : old(k) = j
    OBVIOUS
  <2>1. CASE j < m
    <3>1. j \in DOMAIN out /\ old(j) = j
      BY <1>1, <1>3, <1>4, <2>1
    <3> QED
      BY <3>1
  <2>2. CASE j > m
    <3>1. j - 1 \in DOMAIN out /\ old(j - 1) = j
      BY <1>1, <1>3, <1>4, <2>2
    <3> QED
      BY <3>1
  <2> QED
    BY <1>1, <1>3, <2>1, <2>2
<1> HIDE DEF old
<1>8. IsFiniteSet(own \ {id}) /\ Len(out) = Cardinality(own \ {id})
  BY <1>2, <1>3, FS_RemoveElement
<1>9. \A j, k \in DOMAIN out : out[j].lo = out[k].lo => j = k
  BY <1>2, <1>5, <1>6
<1>10. \A k \in DOMAIN out : \E b \in own \ {id} : out[k] = e[b]
  <2> SUFFICES ASSUME NEW k \in DOMAIN out
               PROVE  \E b \in own \ {id} : out[k] = e[b]
    OBVIOUS
  <2>1. PICK b \in own : rs[old(k)] = e[b]
    BY <1>2, <1>5
  <2>2. b # id
    <3>1. m \in DOMAIN rs /\ old(k) \in DOMAIN rs /\ old(k) # m
      BY <1>1, <1>5
    <3>2. rs[m].lo = e[id].lo
      BY <1>3, Zenon
    <3>3. \A j, l \in DOMAIN rs : rs[j].lo = rs[l].lo => j = l
      BY <1>2, Zenon
    <3> QED
      BY ONLY <2>1, <3>1, <3>2, <3>3, Zenon
  <2> QED
    BY <1>5, <2>1, <2>2
<1>11. \A b \in own \ {id} : \E k \in DOMAIN out : out[k] = e[b]
  <2> SUFFICES ASSUME NEW b \in own \ {id}
               PROVE  \E k \in DOMAIN out : out[k] = e[b]
    OBVIOUS
  <2>1. PICK j \in DOMAIN rs : rs[j] = e[b]
    BY <1>2
  <2>2. j # m
    <3>1. b \in own /\ id \in own /\ b # id
      OBVIOUS
    <3>2. rs[m].lo = e[id].lo
      BY <1>3, Zenon
    <3>3. \A x, y \in own : e[x].lo = e[y].lo => x = y
      BY <1>2, Zenon
    <3> QED
      BY ONLY <2>1, <3>1, <3>2, <3>3, Zenon
  <2>3. PICK k \in DOMAIN out : old(k) = j
    BY <1>7, <2>2
  <2> QED
    BY <1>5, <2>1, <2>3
<1>12. Lists(out, own \ {id}, e)
  BY <1>2, <1>8, <1>9, <1>10, <1>11 DEF Lists
<1> QED
  BY <1>12 DEF out

\* Whether the request that is due is for a block in use
LEMMA OwnedIds ==
  ASSUME Types, Reading, at.pc = "ops"
  PROVE  /\ Own \subseteq Ids
         /\ at.i <= Len(trace.ops) /\ trace.ops[at.i].type = "a" => index \notin Own
         /\ at.i <= Len(trace.ops) /\ trace.ops[at.i].type # "a" => index \in Own
<1>0. /\ trace.ops \in Seq(Request) /\ at.i \in Nat \ {0} /\ at.i <= Len(trace.ops) + 1
  BY DEF Types, Trace, Place, Reading
<1>1. Own \subseteq Ids
  <2> SUFFICES ASSUME NEW k \in LiveOps(at.i - 1)
               PROVE  trace.ops[k].index \in Ids
    BY DEF Own
  <2>1. k \in 1..Len(trace.ops)
    BY <1>0, LenProperties DEF LiveOps
  <2>2. trace.ops[k] \in Request
    BY <1>0, <2>1, ElementOfSeq
  <2> QED
    BY <2>2 DEF Request
<1> QED
  BY <1>1, Current DEF Own

\* What a request changes in the blocks in use
LEMMA OwnChanges ==
  ASSUME Types, Reading, Requests
  PROVE  Own' = (Own \ {index}) \cup (IF trace.ops[at.i].type # "f" THEN {index} ELSE {})
<1>0. at \in Place /\ at.i \in Nat \ {0} /\ at.pc = "ops" /\ at.i <= Len(trace.ops)
  BY DEF Types, Place, Requests
<1>1. index = trace.ops[at.i].index
  BY DEF index
<1>2. at'.i - 1 = at.i /\ trace'.ops = trace.ops
  <2>1. at'.i = at.i + 1 /\ trace'.ops = trace.ops
    BY <1>0, NextFields DEF Requests
  <2> QED
    BY <1>0, <2>1
<1>3. Own' = {trace.ops[k].index : k \in LiveOps(at.i)}
  BY <1>2 DEF Own, LiveOps
<1>4. LiveOps(at.i) = {j \in LiveOps(at.i - 1) : trace.ops[j].index # trace.ops[at.i].index}
                        \cup (IF trace.ops[at.i].type # "f" THEN {at.i} ELSE {})
  BY <1>0, LiveGrows
<1> QED
  BY <1>1, <1>3, <1>4 DEF Own

\* The extents of the blocks that the list has are ranges of the heap.
LEMMA ExtentsInHeap ==
  ASSUME NEW rs \in Seq(Span), NEW own, NEW e, Lists(rs, own, e), NEW id \in own
  PROVE  e[id] \in Span
<1>1. PICK k \in DOMAIN rs : rs[k] = e[id]
  BY DEF Lists
<1>2. k \in 1..Len(rs)
  BY LenProperties
<1> QED
  BY <1>1, <1>2, ElementOfSeq

\* While a trace is checked, Allocator's view of it is that of the requests.
LEMMA LiveIsOwn ==
  ASSUME Types, Checked, Own \subseteq Ids, NEW rs \in Seq(Span),
         NEW some, some \subseteq Own, Lists(rs, some, Extents)
  PROVE  /\ some \subseteq A!InUse
         /\ A!InUse \subseteq Own
         /\ \A id \in some : /\ live[id].ptr = Extents[id].lo
                             /\ live[id].ptr + live[id].size = Extents[id].hi + 1
                             /\ live[id].ptr \in Nat /\ live[id].size \in Nat
                             /\ live[id].size > 0
<1>1. \A id \in Ids : live[id] = IF id \in Own
                                 THEN [ptr |-> trace.blocks[id].addr, size |-> trace.block_sizes[id]]
                                 ELSE [ptr |-> 0, size |-> 0]
  BY DEF live, Own
<1>2. A!InUse \subseteq Own
  BY <1>1 DEF A!InUse, A!Dead
<1>3. ASSUME NEW id \in some
      PROVE  /\ id \in A!InUse
             /\ live[id].ptr = Extents[id].lo
             /\ live[id].ptr + live[id].size = Extents[id].hi + 1
             /\ live[id].ptr \in Nat /\ live[id].size \in Nat
             /\ live[id].size > 0
  <2>1. live[id] = [ptr |-> trace.blocks[id].addr, size |-> trace.block_sizes[id]]
    BY <1>1
  <2>2. trace.blocks[id].addr \in Nat /\ trace.block_sizes[id] \in Nat
    BY DEF Types, Trace, Pointer
  <2>3. Extents[id] = [lo |-> trace.blocks[id].addr,
                       hi |-> trace.blocks[id].addr + trace.block_sizes[id] - 1]
    BY DEF Extents
  <2>4. Extents[id] \in Span
    BY ExtentsInHeap
  <2>5. trace.block_sizes[id] > 0
    BY <2>2, <2>3, <2>4 DEF Span
  <2>6. live[id] # A!Dead
    BY <2>1, <2>2, <2>5 DEF A!Dead
  <2> QED
    BY <2>1, <2>2, <2>3, <2>5, <2>6 DEF A!InUse
<1> QED
  BY <1>2, <1>3

\* What add_range tests against what the answer is: it tests the ends of the
\* new range only, so it takes a range around an old one for a good one.
LEMMA AddRangeTests ==
  ASSUME Types, Checked, Own \subseteq Ids, NEW id \in Ids, NEW rs \in Seq(Span),
         Lists(rs, Own \ {id}, Extents),
         NEW p \in Nat, NEW n \in Nat, n > 0, NEW brk \in HeapLo..HeapEnd
  PROVE  LET wrong == Wrong(id, [ptr |-> p, size |-> n], brk)
             ok    == p # NULL /\ add_range(rs, p, n, brk)
         IN  /\ ok => wrong \subseteq {"around"}
             /\ wrong = {} => ok
             /\ wrong = {} => \A other \in Own \ {id} :
                                p + n - 1 < Extents[other].lo \/ Extents[other].hi < p
<1> DEFINE b == [ptr |-> p, size |-> n]
           others == A!InUse \ {id}
           ok == p # NULL /\ add_range(rs, p, n, brk)
           bounds == p # NULL /\ p % ALIGNMENT = 0 /\ HeapLo <= p /\ p + n <= brk
<1>0. b.ptr = p /\ b.size = n
  OBVIOUS
<1> HIDE DEF b
<1>1. /\ HeapLo \in Nat \ {0} /\ HeapEnd \in Nat /\ brk \in Nat /\ brk <= HeapEnd
  BY MdriverAssumption DEF HeapEnd
<1>2. /\ others = Own \ {id}
      /\ \A k \in others : /\ Extents[k] \in Span
                           /\ live[k].ptr = Extents[k].lo
                           /\ live[k].ptr + live[k].size = Extents[k].hi + 1
                           /\ live[k].ptr \in Nat /\ live[k].size \in Nat
                           /\ live[k].size > 0
  <2>1. Own \ {id} \subseteq Own
    OBVIOUS
  <2> QED
    BY <2>1, LiveIsOwn, ExtentsInHeap
<1>3. DOMAIN rs = 1..Len(rs) /\ \A k \in DOMAIN rs : rs[k] \in Span
  BY LenProperties, ElementOfSeq
<1>4. bounds <=> ~(b.ptr = NULL \/ ~A!Fits(b, brk))
  BY <1>0, <1>1 DEF A!Fits
<1>5. ok <=> bounds /\ \A k \in others : /\ p \notin Extents[k].lo..Extents[k].hi
                                         /\ p + n - 1 \notin Extents[k].lo..Extents[k].hi
  <2>1. (\A k \in DOMAIN rs : /\ p \notin rs[k].lo..rs[k].hi
                              /\ p + n - 1 \notin rs[k].lo..rs[k].hi)
        <=> \A k \in others : /\ p \notin Extents[k].lo..Extents[k].hi
                              /\ p + n - 1 \notin Extents[k].lo..Extents[k].hi
    BY <1>2 DEF Lists
  <2> QED
    BY <1>1, <2>1 DEF add_range
<1>6. \A k \in others :
        A!Apart(b, live[k]) <=> p + n - 1 < Extents[k].lo \/ Extents[k].hi < p
  BY <1>0, <1>2 DEF A!Apart, Span
<1>7. ASSUME ok
      PROVE  Wrong(id, b, brk) \subseteq {"around"}
  <2>1. \A k \in others : \/ A!Apart(b, live[k])
                          \/ /\ b.ptr < live[k].ptr
                             /\ live[k].ptr + live[k].size < b.ptr + b.size
    <3> SUFFICES ASSUME NEW k \in others, ~A!Apart(b, live[k])
                 PROVE  /\ b.ptr < live[k].ptr
                        /\ live[k].ptr + live[k].size < b.ptr + b.size
      OBVIOUS
    <3>1. /\ p \notin Extents[k].lo..Extents[k].hi
          /\ p + n - 1 \notin Extents[k].lo..Extents[k].hi
      BY <1>5, <1>7
    <3>2. Extents[k].lo \in Nat /\ Extents[k].hi \in Nat /\ Extents[k].lo <= Extents[k].hi
      BY <1>2 DEF Span
    <3>3. p + n - 1 >= Extents[k].lo /\ Extents[k].hi >= p
      BY <1>6, <3>2
    <3>4. p < Extents[k].lo /\ Extents[k].hi < p + n - 1
      BY <3>1, <3>2, <3>3
    <3> QED
      BY <1>0, <1>2, <3>2, <3>4
  <2>2. ~(b.ptr = NULL \/ ~A!Fits(b, brk))
    BY <1>4, <1>5, <1>7
  <2> QED
    BY <2>1, <2>2 DEF Wrong
<1>8. ASSUME Wrong(id, b, brk) = {}
      PROVE  /\ ok
             /\ \A k \in others : p + n - 1 < Extents[k].lo \/ Extents[k].hi < p
  <2>1. ~(b.ptr = NULL \/ ~A!Fits(b, brk)) /\ ~A!Overlaps(id, b)
    BY <1>8 DEF Wrong
  <2>2. \A k \in others : p + n - 1 < Extents[k].lo \/ Extents[k].hi < p
    BY <1>6, <2>1 DEF A!Overlaps
  <2>3. \A k \in others : /\ p \notin Extents[k].lo..Extents[k].hi
                          /\ p + n - 1 \notin Extents[k].lo..Extents[k].hi
    BY <1>2, <2>2 DEF Span
  <2> QED
    BY <1>4, <1>5, <2>1, <2>2, <2>3
<1> QED
  BY <1>2, <1>7, <1>8 DEF b

----------------------------------------------------------------------------
(* Requests while a trace is checked. *)

\* The extent of the block that got an answer, and the others
LEMMA RememberExtents ==
  ASSUME Types, NEW rs, NEW p \in Nat, index \in Ids, size \in Nat, Remember(rs, p)
  PROVE  /\ Extents'[index] = [lo |-> p, hi |-> p + size - 1]
         /\ \A id \in Ids : id # index => Extents'[id] = Extents[id]
<1> DEFINE ptr == [addr |-> p, from |-> at]
<1>1. ptr \in Pointer /\ ptr.addr = p
  BY DEF Types, Pointer
<1>2. Remembers(index, ptr, size)
  BY DEF Remember, Remembers
<1> HIDE DEF ptr
<1>3. /\ trace'.blocks = [trace.blocks EXCEPT ![index] = ptr]
      /\ trace'.block_sizes = [trace.block_sizes EXCEPT ![index] = size]
  BY <1>1, <1>2, TraceChanges DEF Types
<1>4. trace.blocks \in [Ids -> Pointer] /\ trace.block_sizes \in [Ids -> Nat]
  BY DEF Types, Trace
<1>5. /\ trace'.blocks[index] = ptr /\ trace'.block_sizes[index] = size
      /\ \A id \in Ids : id # index => /\ trace'.blocks[id] = trace.blocks[id]
                                       /\ trace'.block_sizes[id] = trace.block_sizes[id]
  BY <1>3, <1>4
<1> QED
  BY <1>1, <1>5 DEF Extents

\* An accepted answer keeps the list right.
LEMMA RememberChecks ==
  ASSUME Types, Reading, Checking, Checked, Requests, trace.ops[at.i].type # "f",
         NEW rs \in Seq(Span), Lists(rs, Own \ {index}, Extents),
         NEW p \in Nat, p # NULL, NEW brk \in HeapLo..HeapEnd,
         add_range(rs, p, size, brk), Remember(rs, p),
         fault' = fault \cup Wrong(index, [ptr |-> p, size |-> size], brk)
  PROVE  Checking'
<1>0. at.pc = "ops" /\ at.i <= Len(trace.ops)
  BY DEF Requests
<1>1. index \in Ids /\ size \in Nat /\ size > 0
  BY <1>0, Current
<1>2. Own \subseteq Ids /\ Own' = (Own \ {index}) \cup {index}
  BY <1>0, OwnChanges, OwnedIds
<1>3. /\ Extents'[index] = [lo |-> p, hi |-> p + size - 1]
      /\ \A id \in Ids : id # index => Extents'[id] = Extents[id]
  BY <1>1, RememberExtents
<1>4. /\ Wrong(index, [ptr |-> p, size |-> size], brk) \subseteq {"around"}
      /\ Wrong(index, [ptr |-> p, size |-> size], brk) = {} =>
           \A other \in Own \ {index} :
             p + size - 1 < Extents[other].lo \/ Extents[other].hi < p
  BY <1>1, <1>2, AddRangeTests
<1>5. fault \subseteq {"around"} /\ Written
  BY <1>0 DEF Checking
<1>6. Lists(ranges', Own', Extents')
  <2> DEFINE x == [lo |-> p, hi |-> p + size - 1]
  <2>1. x \in Span /\ x.lo = p
    BY <1>1, NewSpan
  <2>2. ranges' = Cons(x, rs)
    BY DEF Remember
  <2>3. \A k \in DOMAIN rs : rs[k].lo # x.lo
    <3>1. \A k \in DOMAIN rs : rs[k] \in Span /\ p \notin rs[k].lo..rs[k].hi
      BY LenProperties, ElementOfSeq DEF add_range
    <3> QED
      BY <2>1, <3>1 DEF Span
  <2>4. Extents'[index] = x /\ \A id \in Own \ {index} : Extents'[id] = Extents[id]
    BY <1>2, <1>3
  <2> HIDE DEF x
  <2>5. index \notin Own \ {index}
    OBVIOUS
  <2>6. ASSUME NEW e2, e2 = Extents'
        PROVE  Lists(Cons(x, rs), (Own \ {index}) \cup {index}, e2)
    BY <2>1, <2>3, <2>4, <2>5, <2>6, ListGrows
  <2>7. Lists(ranges', Own', Extents')
    BY <1>2, <2>2, <2>6
  <2> QED
    BY <2>7
<1>7. ASSUME fault' = {}, NEW id \in Own', NEW a \in Extents'[id].lo..Extents'[id].hi
      PROVE  mem'[a] = Fill(id)
  <2>1. fault = {} /\ Wrong(index, [ptr |-> p, size |-> size], brk) = {}
    BY <1>7
  <2>2. /\ mem' = [b \in DOMAIN mem |-> IF b \in p..p + size - 1 THEN Fill(index) ELSE mem[b]]
        /\ DOMAIN mem = HeapLo..HeapEnd - 1
    BY DEF Remember, Types
  <2>3. CASE id = index
    <3>1. a \in p..p + size - 1
      BY <1>3, <1>7, <2>3
    <3>2. a \in DOMAIN mem
      <4>1. [lo |-> p, hi |-> p + size - 1] \in Span
        BY <1>1, NewSpan
      <4>2. HeapLo <= p /\ p + size - 1 < HeapEnd /\ HeapLo \in Nat /\ HeapEnd \in Nat
        BY <4>1, MdriverAssumption DEF Span, HeapEnd
      <4> QED
        BY <1>1, <2>2, <3>1, <4>2
    <3> QED
      BY <2>2, <2>3, <3>1, <3>2
  <2>4. CASE id # index
    <3>1. id \in Own \ {index} /\ a \in Extents[id].lo..Extents[id].hi /\ Extents[id] \in Span
      BY <1>2, <1>3, <1>7, <2>4, ExtentsInHeap
    <3>2. mem[a] = Fill(id)
      BY <1>5, <2>1, <3>1 DEF Written
    <3>3. a \notin p..p + size - 1
      <4>1. p + size - 1 < Extents[id].lo \/ Extents[id].hi < p
        BY <1>4, <2>1, <3>1
      <4> QED
        BY <1>1, <3>1, <4>1 DEF Span
    <3>4. a \in DOMAIN mem
      BY <2>2, <3>1, MdriverAssumption DEF Span, HeapEnd
    <3> QED
      BY <2>2, <3>2, <3>3, <3>4
  <2> QED
    BY <2>3, <2>4
<1>8. fault' \subseteq {"around"}
  BY <1>4, <1>5
<1> QED
  BY <1>6, <1>7, <1>8 DEF Checking, Written

\* The list when a block is freed or moved
LEMMA RemovedList ==
  ASSUME Types, Reading, Checking, Checked, at.pc = "ops", at.i <= Len(trace.ops),
         index \in Own
  PROVE  /\ remove_range(ranges, trace.blocks[index].addr) \in Seq(Span)
         /\ Lists(remove_range(ranges, trace.blocks[index].addr), Own \ {index}, Extents)
         /\ Extents[index] \in Span /\ Extents[index].lo = trace.blocks[index].addr
         /\ Extents[index].hi = trace.blocks[index].addr + trace.block_sizes[index] - 1
<1>1. Lists(ranges, Own, Extents) /\ ranges \in Seq(Span)
  BY DEF Checking, Types
<1>2. index \in Ids
  BY Current
<1>3. /\ Extents[index].lo = trace.blocks[index].addr
      /\ Extents[index].hi = trace.blocks[index].addr + trace.block_sizes[index] - 1
  BY <1>2 DEF Extents
<1> QED
  BY <1>1, <1>3, ListShrinks, RemoveType, ExtentsInHeap

\* A checked free takes the range of its block off the list.
LEMMA FreeChecks ==
  ASSUME Types, Reading, Checking, Checked, Requests, valid_free
  PROVE  Checking'
<1>0. at.pc = "ops" /\ at.i <= Len(trace.ops) /\ trace.ops[at.i].type = "f"
  BY DEF Requests, valid_free, Doing
<1>1. /\ ranges' = remove_range(ranges, trace.blocks[index].addr)
      /\ UNCHANGED <<trace, mem, fault>>
  BY DEF valid_free
<1>2. index \in Own /\ Own' = Own \ {index} /\ Extents' = Extents
  BY <1>0, <1>1, OwnChanges, OwnedIds DEF Extents
<1>3. Lists(ranges', Own', Extents')
  <2>1. Lists(remove_range(ranges, trace.blocks[index].addr), Own \ {index}, Extents)
    BY <1>0, <1>2, RemovedList
  <2> QED
    BY <1>1, <1>2, <2>1
<1>4. Written /\ fault \subseteq {"around"}
  BY <1>0 DEF Checking
<1>5. Written'
  BY <1>1, <1>2, <1>4 DEF Written
<1> QED
  BY <1>1, <1>3, <1>4, <1>5 DEF Checking

----------------------------------------------------------------------------
(* The bytes that realloc has to keep. *)

\* The smaller one of two numbers
LEMMA MinOfTwo ==
  ASSUME NEW m \in Int, NEW n \in Int
  PROVE  Min({m, n}) \in {m, n} /\ Min({m, n}) <= m /\ Min({m, n}) <= n
<1>1. \E x \in {m, n} : \A y \in {m, n} : x <= y
  <2>1. CASE m <= n
    BY <2>1
  <2>2. CASE n <= m
    BY <2>2
  <2> QED
    BY <2>1, <2>2
<1> QED
  BY <1>1 DEF Min

\* The comparison of eval_mm_valid: it sees bytes that were lost, and of those
\* that were not it refuses only the ones with bit 7 set.
LEMMA CopyTests ==
  ASSUME Types, Reading, Checking, Checked, at.pc = "ops", at.i <= Len(trace.ops),
         index \in Own, size > 0, NEW kept \in BOOLEAN
  PROVE  LET data == Copy(kept)
             same == \A j \in DOMAIN data : char(data[j]) = Fill(index)
         IN  /\ same => kept
             /\ kept /\ fault = {} /\ ~same => Fill(index) >= 128
<1> DEFINE n == Min({size, trace.block_sizes[index]})
           old == trace.blocks[index].addr
           data == Copy(kept)
<1>1. /\ Extents[index] \in Span /\ Extents[index].lo = old
      /\ Extents[index].hi = old + trace.block_sizes[index] - 1
  BY RemovedList
<1>2. index \in Ids /\ index \in Nat /\ size \in Nat
  BY Current
<1>3. old \in Nat /\ trace.block_sizes[index] \in Nat
  BY <1>2 DEF Types, Trace, Pointer
<1>4. trace.block_sizes[index] > 0
  BY <1>1, <1>3 DEF Span
<1>5. n \in Nat /\ n > 0 /\ n <= trace.block_sizes[index]
  <2>1. size \in Int /\ trace.block_sizes[index] \in Int
    BY <1>2, <1>3
  <2>2. n \in {size, trace.block_sizes[index]} /\ n <= trace.block_sizes[index]
    BY <2>1, MinOfTwo
  <2> HIDE DEF n
  <2> QED
    BY <1>2, <1>3, <1>4, <2>2
<1>6. data = [j \in 0..n - 1 |-> IF kept \/ j > 0 THEN mem[old + j] ELSE Junk]
  BY DEF Copy
<1> HIDE DEF n, old, data
<1>7. Fill(index) \in 0..255
  BY <1>2 DEF Fill
<1>8. ASSUME ~kept
      PROVE  \E j \in DOMAIN data : char(data[j]) # Fill(index)
  <2>1. 0 \in DOMAIN data /\ data[0] = Junk
    BY <1>5, <1>6, <1>8
  <2>2. char(Junk) # Fill(index)
    <3>1. Junk \in Int /\ Junk < 0
      BY DEF Junk
    <3>2. ~(Junk >= 128)
      BY <3>1
    <3>3. char(Junk) = Junk
      BY <3>2 DEF char
    <3>4. Junk \notin 0..255
      BY <3>1
    <3> QED
      BY <1>7, <3>3, <3>4, Zenon
  <2> QED
    BY <2>1, <2>2
<1>9. ASSUME kept, fault = {}, NEW j \in DOMAIN data, char(data[j]) # Fill(index)
      PROVE  Fill(index) >= 128
  <2>1. j \in 0..n - 1 /\ data[j] = mem[old + j]
    BY <1>6, <1>9
  <2>2. old + j \in Extents[index].lo..Extents[index].hi
    <3>1. old + j \in old..old + trace.block_sizes[index] - 1
      BY <1>3, <1>5, <2>1
    <3> QED
      BY <1>1, <3>1
  <2>3. mem[old + j] = Fill(index)
    BY <1>9, <2>2 DEF Checking, Written
  <2> QED
    BY <1>7, <1>9, <2>1, <2>3 DEF char
<1> QED
  BY <1>8, <1>9 DEF data

\* A checked realloc exchanges a range for another.
LEMMA ReallocChecks ==
  ASSUME Types, Reading, Checking, Checked, Requests, valid_realloc
  PROVE  Checking'
<1>0. at.pc = "ops" /\ at.i <= Len(trace.ops) /\ trace.ops[at.i].type = "r"
  BY DEF Requests, valid_realloc, Doing
<1>1. index \in Own /\ size \in Nat /\ size > 0
  BY <1>0, OwnedIds, Current
<1> DEFINE rs == remove_range(ranges, trace.blocks[index].addr)
<1>2. rs \in Seq(Span) /\ Lists(rs, Own \ {index}, Extents)
  BY <1>0, <1>1, RemovedList
<1>3. at'.pc = "ops"
  BY <1>0, NextFields DEF Types, Requests
<1>4. ~Reject
  BY <1>3, AfterTrace DEF Reject
<1>5. PICK newp \in Answers, brk \in mem_sbrk(mem_brk), kept \in BOOLEAN :
        /\ fault' = fault \cup Wrong(index, [ptr |-> newp, size |-> size], brk)
                          \cup (IF kept THEN {} ELSE {"lost"})
        /\ newp # NULL /\ add_range(rs, newp, size, brk)
        /\ \A j \in DOMAIN Copy(kept) : char(Copy(kept)[j]) = Fill(index)
        /\ Remember(rs, newp)
  BY <1>4 DEF valid_realloc
<1> HIDE DEF rs
<1>6. newp \in Nat /\ brk \in HeapLo..HeapEnd
  BY <1>5, BrkType, MdriverAssumption DEF Answers, HeapEnd, Types
<1>7. kept
  BY <1>0, <1>1, <1>5, CopyTests
<1>8. fault' = fault \cup Wrong(index, [ptr |-> newp, size |-> size], brk)
  BY <1>5, <1>7
<1> QED
  BY <1>0, <1>2, <1>5, <1>6, <1>8, RememberChecks

\* A checked malloc adds a range that passed the tests.
LEMMA MallocChecks ==
  ASSUME Types, Reading, Checking, Checked, Requests, valid_malloc
  PROVE  Checking'
<1>0. at.pc = "ops" /\ at.i <= Len(trace.ops) /\ trace.ops[at.i].type = "a"
  BY DEF Requests, valid_malloc, Doing
<1>1. index \notin Own
  BY <1>0, OwnedIds
<1>2. Own \ {index} = Own /\ Lists(ranges, Own, Extents) /\ ranges \in Seq(Span)
  BY <1>0, <1>1 DEF Checking, Types
<1>3. at'.pc = "ops"
  BY <1>0, NextFields DEF Types, Requests
<1>4. ~Reject
  BY <1>3, AfterTrace DEF Reject
<1>5. PICK p \in Answers, brk \in mem_sbrk(mem_brk) :
        /\ fault' = fault \cup Wrong(index, [ptr |-> p, size |-> size], brk)
        /\ p # NULL /\ add_range(ranges, p, size, brk) /\ Remember(ranges, p)
  BY <1>4 DEF valid_malloc
<1>6. p \in Nat /\ brk \in HeapLo..HeapEnd
  BY <1>5, BrkType, MdriverAssumption DEF Answers, HeapEnd, Types
<1> QED
  BY <1>0, <1>2, <1>5, <1>6, RememberChecks

\* A pass begins with an empty list of ranges.
LEMMA BeginChecks ==
  ASSUME Types, BeginPass, at.i = 1, at' = [at EXCEPT !.pc = "ops"], trace' = trace
  PROVE  Checking'
<1>0. at \in Place
  BY DEF Types
<1>1. at'.pc = "ops" /\ at'.i = 1 /\ at'.testing = at.testing /\ at'.pass = at.pass
  BY <1>0, MovesOn
<1>2. Own' = {}
  BY <1>1 DEF Own, LiveOps
<1>3. CASE Checked
  <2>1. ~Reject /\ \A how : ~Ends(how)
    <3>1. NextTrace.pc # "ops"
      BY AfterTrace
    <3>2. ~Reject
      BY <1>1, <3>1 DEF Reject
    <3>3. \A how : ~Ends(how)
      BY <1>0, <1>1, MovesOn DEF Ends
    <3> QED
      BY <3>2, <3>3
  <2>2. ranges' = <<>> /\ fault' = {}
    BY <1>3, <2>1 DEF BeginPass, Checked
  <2>3. DOMAIN <<>> = {} /\ Len(<<>>) = 0
    OBVIOUS
  <2>4. Lists(ranges', Own', Extents')
    BY <1>2, <2>2, <2>3, FS_EmptySet DEF Lists
  <2> QED
    BY <1>2, <2>2, <2>4 DEF Checking, Written
<1>4. CASE ~Checked
  BY <1>1, <1>4 DEF Checking, Checked
<1> QED
  BY <1>3, <1>4

\* Every step keeps the list of ranges that of the blocks in use.
LEMMA CheckingHolds ==
  ASSUME Types, Reading, Checking, [Next]_vars
  PROVE  Checking'
<1>0. at \in Place
  BY DEF Types
<1>1. CASE at'.pc # "ops"
  BY <1>1 DEF Checking
<1>2. CASE UNCHANGED vars
  <2>1. UNCHANGED <<at, trace, ranges, mem, fault>>
    BY <1>2 DEF vars, mainVars, checkVars
  <2>2. Own' = Own /\ Extents' = Extents /\ (Checked' <=> Checked)
    BY <2>1 DEF Own, LiveOps, Extents, Checked
  <2>3. Written' <=> Written
    BY <2>1, <2>2 DEF Written
  <2> QED
    BY <2>1, <2>2, <2>3 DEF Checking
<1>3. CASE at'.pc = "ops" /\ Requests
  <2>1. at'.testing = at.testing /\ at'.pass = at.pass /\ at.pc = "ops"
    BY <1>0, <1>3, NextFields DEF Requests
  <2>2. Checked' <=> Checked
    BY <2>1 DEF Checked
  <2>3. CASE Checked
    <3>1. valid_malloc \/ valid_realloc \/ valid_free
      <4>1. ~ValidEnds /\ ~UtilEnds /\ ~SpeedEnds /\ ~SampleEnds /\ ~Report
        <5>1. at.i <= Len(trace.ops) /\ at.i \in Nat /\ Len(trace.ops) \in Nat
          BY <1>0, <1>3, LenProperties DEF Requests, Types, Trace, Place
        <5>2. ~(at.i > Len(trace.ops))
          BY <5>1
        <5>3. \A pass : ~PassOver(pass)
          BY <5>2 DEF PassOver
        <5> QED
          BY <2>1, <5>3 DEF ValidEnds, UtilEnds, SpeedEnds, SampleEnds, Report, At
      <4>2. ~UNCHANGED vars
        BY <1>0, <1>3, NextFields DEF vars, Requests, Place
      <4> QED
        BY <2>1, <2>3, <4>1, <4>2
        DEF Next, MemInit, OpenTrace, ReadRequest, TraceRead, BeginPass, At,
            plain_malloc, plain_realloc, plain_free, Unchecked
    <3> QED
      BY <1>3, <2>3, <3>1, MallocChecks, ReallocChecks, FreeChecks
  <2>4. CASE ~Checked
    BY <2>2, <2>4 DEF Checking
  <2> QED
    BY <2>3, <2>4
<1>4. CASE BeginPass /\ at.i = 1 /\ at' = [at EXCEPT !.pc = "ops"] /\ UNCHANGED <<opt, trace>>
  BY <1>4, BeginChecks
<1> QED
  BY <1>1, <1>2, <1>3, <1>4, PassSteps

----------------------------------------------------------------------------
(* The invariant, and the properties. *)

\* The initial state has the invariant.
LEMMA InitInv == Init => IInv
<1> SUFFICES ASSUME Init
             PROVE  IInv
  OBVIOUS
<1>1. Types
  BY InitTypes
<1>2. at.pc \in {"open", "init"} /\ at.pass = "valid" /\ at.rep = 1
      /\ at.t = 1 /\ (at.pc = "init" => at.testing = "mm")
  BY DEF Init, First
<1>3. Reading /\ Stages /\ Pointers /\ Checking
  BY <1>2 DEF Reading, Stages, Pointers, Checking
<1>4. Repeats
  BY <1>2, MdriverAssumption DEF Repeats
<1>5. Tally
  <2>1. Judged = 0
    BY <1>2 DEF Judged
  <2>2. Failed = {}
    BY <2>1 DEF Failed
  <2>3. \A k \in DOMAIN mm_stats : ~mm_stats[k].valid
    BY DEF Init, NoStats
  <2> QED
    BY <1>2, <2>2, <2>3, FS_EmptySet DEF Tally, Init
<1> QED
  BY <1>1, <1>3, <1>4, <1>5 DEF IInv

\* Every step keeps the invariant.
LEMMA NextInv == IInv /\ [Next]_vars => IInv'
<1> SUFFICES ASSUME IInv, [Next]_vars
             PROVE  IInv'
  OBVIOUS
<1> USE DEF IInv
<1>1. Types'
  BY NextTypes
<1>2. Reading'
  BY ReadingHolds
<1>3. Stages'
  BY StagesHold
<1>4. Repeats'
  BY RepeatsHolds
<1>5. Pointers'
  BY PointersHold
<1>6. Tally'
  BY TallyHolds
<1>7. Checking'
  BY CheckingHolds
<1> QED
  BY <1>1, <1>2, <1>3, <1>4, <1>5, <1>6, <1>7

(***************************************************************************)
(* In every reachable state of the driver, its requests are those of the   *)
(* file, its pointers are of this pass, its errors count the traces that   *)
(* failed, and its range list is that of the blocks in use.                *)
(***************************************************************************)
THEOREM Invariance == Spec => []IInv
BY InitInv, NextInv, PTL DEF Spec

(***************************************************************************)
(* Every variable has its type, whatever the allocator answers and however *)
(* long the traces are.                                                    *)
(***************************************************************************)
THEOREM TypeCorrect == Spec => []TypeOK
<1>1. ASSUME IInv
      PROVE  TypeOK
  <2>1. /\ at \in Place /\ at.t \in 1..Len(opt.files)
        /\ ranges \in Seq(Span) /\ mem_brk \in HeapLo..HeapEnd
        /\ mem \in [HeapLo..HeapEnd - 1 -> Bytes] /\ errors \in Nat
        /\ fault \subseteq {"init", "bad", "around", "lost"}
        /\ outcome \in {"running", "index", "errors", "failed", "aborted", "undefined"}
    BY <1>1 DEF IInv, Types
  <2>2. at.t \in DOMAIN opt.files
    BY <1>1, <2>1, FilesExist, LenProperties DEF IInv
  <2>3. at.rep \in 1..Max({Runs, maxsamples})
    <3>1. Runs \in Int /\ maxsamples \in Int
      BY MdriverAssumption, FcycAssumption
    <3>2. /\ Max({Runs, maxsamples}) \in {Runs, maxsamples}
          /\ Max({Runs, maxsamples}) >= Runs /\ Max({Runs, maxsamples}) >= maxsamples
      BY <3>1, MaxOfTwo
    <3>3. at.rep \in Nat /\ at.rep >= 1 /\ (at.rep <= Runs \/ at.rep <= maxsamples)
      BY <1>1, <2>1 DEF IInv, Repeats, Place
    <3> QED
      BY <3>1, <3>2, <3>3
  <2>4. \A k \in DOMAIN ranges : HeapLo <= ranges[k].lo /\ ranges[k].hi < HeapEnd
    BY <2>1, LenProperties, ElementOfSeq DEF Span
  <2> QED
    BY <2>1, <2>2, <2>3, <2>4 DEF TypeOK, Place, Bytes
<1> QED
  BY <1>1, Invariance, PTL

(***************************************************************************)
(* The pointer that a pass frees or moves is the last one that this pass   *)
(* got for the block (mdriver.c:597, 651, 708, 718).                       *)
(***************************************************************************)
THEOREM PointersAreFresh == Spec => []FreshPointers
<1>1. ASSUME IInv
      PROVE  FreshPointers
  BY <1>1 DEF IInv, Pointers, FreshPointers, At
<1> QED
  BY <1>1, Invariance, PTL

(***************************************************************************)
(* main prints the performance index exactly if every trace was valid, and *)
(* else the number of those that were not (mdriver.c:284-307).             *)
(***************************************************************************)
THEOREM Reports == Spec => []ReportIsTrue
<1>1. ASSUME IInv
      PROVE  ReportIsTrue
  <2>1. CASE at.pc = "exit"
    BY <1>1, <2>1 DEF IInv, Tally
  <2>2. CASE at.pc # "exit"
    BY <1>1, <2>2 DEF IInv, Tally, ReportIsTrue
  <2> QED
    BY <2>1, <2>2
<1> QED
  BY <1>1, Invariance, PTL

(***************************************************************************)
(* While a trace is checked, the list of ranges is that of the blocks in   *)
(* use, each once: what remove_range and add_range do to it loses no block *)
(* and keeps none too long (mdriver.c:341-429).                            *)
(***************************************************************************)
THEOREM ListIsExact == Spec => []RangesAreLive
<1>1. ASSUME IInv, Checked, at.pc = "ops"
      PROVE  /\ Len(ranges) = Cardinality(A!InUse)
             /\ ToSet(ranges) = {[lo |-> live[id].ptr, hi |-> live[id].ptr + live[id].size - 1] :
                                   id \in A!InUse}
  <2>1. Types /\ Lists(ranges, Own, Extents) /\ ranges \in Seq(Span)
    BY <1>1 DEF IInv, Checking, Types
  <2>2. Own \subseteq Ids
    BY <1>1, OwnedIds DEF IInv
  <2>3. /\ A!InUse = Own
        /\ \A id \in Own : /\ live[id].ptr = Extents[id].lo
                           /\ live[id].ptr + live[id].size = Extents[id].hi + 1
                           /\ live[id].ptr \in Nat /\ live[id].size \in Nat
    BY <1>1, <2>1, <2>2, LiveIsOwn
  <2>4. \A id \in Own : [lo |-> live[id].ptr, hi |-> live[id].ptr + live[id].size - 1] = Extents[id]
    <3> SUFFICES ASSUME NEW id \in Own
                 PROVE  [lo |-> live[id].ptr, hi |-> live[id].ptr + live[id].size - 1] = Extents[id]
      OBVIOUS
    <3>1. Extents[id] \in Span
      BY <2>1, ExtentsInHeap
    <3> QED
      BY <2>3, <3>1 DEF Span
  <2>5. ToSet(ranges) = {Extents[id] : id \in Own}
    BY <2>1 DEF Lists, ToSet
  <2>6. {[lo |-> live[id].ptr, hi |-> live[id].ptr + live[id].size - 1] : id \in A!InUse} =
          {Extents[id] : id \in Own}
    BY <2>3, <2>4
  <2>7. Len(ranges) = Cardinality(A!InUse)
    BY <2>1, <2>3 DEF Lists
  <2> QED
    BY <2>5, <2>6, <2>7
<1>2. ASSUME IInv
      PROVE  RangesAreLive
  BY <1>1, <1>2 DEF RangesAreLive, At
<1> QED
  BY <1>2, Invariance, PTL

----------------------------------------------------------------------------
(* The verdict. *)

\* What a rejected answer means
LEMMA MallocRejects ==
  ASSUME IInv, Checked, valid_malloc, Reject
  PROVE  fault' # {}
<1>0. Types /\ Reading /\ Checking /\ at.pc = "ops" /\ at.i <= Len(trace.ops)
      /\ trace.ops[at.i].type = "a"
  BY DEF IInv, valid_malloc, Doing, At
<1>1. index \in Ids /\ size \in Nat /\ size > 0
  BY <1>0, Current
<1>2. Own \subseteq Ids /\ index \notin Own
  BY <1>0, OwnedIds
<1>3. Own \ {index} = Own /\ Lists(ranges, Own, Extents) /\ ranges \in Seq(Span)
  BY <1>0, <1>2 DEF Checking, Types
<1>4. ~Accept
  <2>1. NextTrace.pc # "ops"
    BY <1>0, AfterTrace
  <2> QED
    BY <1>0, <2>1, NextFields DEF Accept, Reject, Types
<1>5. PICK p \in Answers, brk \in mem_sbrk(mem_brk) :
        /\ fault' = fault \cup Wrong(index, [ptr |-> p, size |-> size], brk)
        /\ p = NULL \/ ~add_range(ranges, p, size, brk)
  BY <1>4 DEF valid_malloc
<1>6. p \in Nat /\ brk \in HeapLo..HeapEnd
  BY <1>0, <1>5, BrkType, MdriverAssumption DEF Answers, HeapEnd, Types
<1>7. Wrong(index, [ptr |-> p, size |-> size], brk) # {}
  <2>1. Lists(ranges, Own \ {index}, Extents)
    BY <1>3
  <2>2. Wrong(index, [ptr |-> p, size |-> size], brk) = {} =>
          p # NULL /\ add_range(ranges, p, size, brk)
    BY <1>0, <1>1, <1>2, <1>3, <1>6, <2>1, AddRangeTests
  <2> QED
    BY <1>5, <2>2
<1> QED
  BY <1>5, <1>7

\* A faultless realloc is refused only for a byte that is negative as a char.
LEMMA ReallocRejects ==
  ASSUME IInv, Checked, valid_realloc, Reject, fault' = {}
  PROVE  Fill(index) >= 128
<1>0. Types /\ Reading /\ Checking /\ at.pc = "ops" /\ at.i <= Len(trace.ops)
      /\ trace.ops[at.i].type = "r"
  BY DEF IInv, valid_realloc, Doing, At
<1>1. index \in Ids /\ size \in Nat /\ size > 0
  BY <1>0, Current
<1>2. Own \subseteq Ids /\ index \in Own
  BY <1>0, OwnedIds
<1> DEFINE rs == remove_range(ranges, trace.blocks[index].addr)
<1>3. rs \in Seq(Span) /\ Lists(rs, Own \ {index}, Extents)
  BY <1>0, <1>2, RemovedList
<1>4. ~Accept
  <2>1. NextTrace.pc # "ops"
    BY <1>0, AfterTrace
  <2> QED
    BY <1>0, <2>1, NextFields DEF Accept, Reject, Types
<1>5. PICK newp \in Answers, brk \in mem_sbrk(mem_brk), kept \in BOOLEAN :
        /\ fault' = fault \cup Wrong(index, [ptr |-> newp, size |-> size], brk)
                          \cup (IF kept THEN {} ELSE {"lost"})
        /\ \/ newp = NULL \/ ~add_range(rs, newp, size, brk)
           \/ ~\A j \in DOMAIN Copy(kept) : char(Copy(kept)[j]) = Fill(index)
  BY <1>4 DEF valid_realloc
<1> HIDE DEF rs
<1>6. newp \in Nat /\ brk \in HeapLo..HeapEnd
  BY <1>0, <1>5, BrkType, MdriverAssumption DEF Answers, HeapEnd, Types
<1>7. fault = {} /\ kept /\ Wrong(index, [ptr |-> newp, size |-> size], brk) = {}
  BY <1>5
<1>8. newp # NULL /\ add_range(rs, newp, size, brk)
  BY <1>0, <1>1, <1>2, <1>3, <1>6, <1>7, AddRangeTests
<1>9. ~\A j \in DOMAIN Copy(kept) : char(Copy(kept)[j]) = Fill(index)
  BY <1>5, <1>8
<1> QED
  BY <1>0, <1>1, <1>2, <1>7, <1>9, CopyTests

(***************************************************************************)
(* The verdict of eval_mm_valid is right but for its two known mistakes:   *)
(* add_range accepts a payload around another (mdriver.c:379), and the     *)
(* comparison of eval_mm_valid refuses the bytes of a block whose number   *)
(* has bit 7 set (mdriver.c:626).                                          *)
(***************************************************************************)
THEOREM Verdicts == Spec => VerdictIsExact
<1>1. ASSUME IInv, Next, Checked, mm_stats' # mm_stats
      PROVE  fault \subseteq {"around"}
  <2>1. ValidEnds
    BY <1>1
    DEF Next, MemInit, Ends, OpenTrace, ReadRequest, TraceRead, BeginPass, Reject, Accept,
        valid_malloc, valid_realloc, valid_free, plain_malloc, plain_realloc, plain_free,
        GivesUp, Answered, UtilEnds, SpeedEnds, SampleEnds, Report, PassOver, mainVars, Checked
  <2>2. at.pc = "ops"
    BY <2>1 DEF ValidEnds, PassOver, At
  <2> QED
    BY <1>1, <2>2 DEF IInv, Checking
<1>2. ASSUME IInv, Next, Checked, errors' # errors
      PROVE  fault' # {} \/ (trace.ops[at.i].type = "r" /\ Fill(index) >= 128)
  <2>1. \/ BeginPass /\ Reject /\ fault' = {"init"}
        \/ valid_malloc /\ Reject
        \/ valid_realloc /\ Reject
    BY <1>2
    DEF Next, MemInit, Ends, OpenTrace, ReadRequest, TraceRead, BeginPass, Accept,
        valid_malloc, valid_realloc, valid_free, plain_malloc, plain_realloc, plain_free,
        Unchecked, ValidEnds, UtilEnds, SpeedEnds, SampleEnds, Report, mainVars
  <2>2. valid_realloc => trace.ops[at.i].type = "r"
    BY DEF valid_realloc, Doing
  <2> QED
    BY <1>2, <2>1, <2>2, MallocRejects, ReallocRejects
<1>3. ASSUME IInv, [Next]_vars
      PROVE  [Checked => /\ mm_stats' # mm_stats => fault \subseteq {"around"}
                         /\ errors' # errors =>
                              fault' # {} \/ (trace.ops[at.i].type = "r" /\ Fill(index) >= 128)]_vars
  BY <1>1, <1>2, <1>3
<1> QED
  BY <1>3, Invariance, PTL DEF Spec, VerdictIsExact

----------------------------------------------------------------------------
(* The sums of eval_mm_util.  A fold over a set is the only solution of     *)
(* the equations for its sums, and these equations have a solution.         *)

\* The sizes of the requests in S together
SizeSum(ops, S) == MapThenSumSet(LAMBDA k : ops[k].size, S)

\* g is what a sum should be, for every set of requests in D.
AddsUp(g, ops, D) ==
  /\ g \in [SUBSET D -> Nat] /\ g[{}] = 0
  /\ \A S \in SUBSET D : \A x \in S : g[S] = ops[x].size + g[S \ {x}]

\* There is such a g: the one for the first n requests is extended to the next.
LEMMA SumExists ==
  ASSUME NEW ops
  PROVE  \A n \in Nat : (\A k \in 1..n : ops[k].size \in Nat) => \E g : AddsUp(g, ops, 1..n)
<1> DEFINE Good == {n \in Nat : (\A k \in 1..n : ops[k].size \in Nat) =>
                                  \E g : AddsUp(g, ops, 1..n)}
<1>1. 0 \in Good
  <2> DEFINE g == [S \in SUBSET (1..0) |-> 0]
  <2>1. SUBSET (1..0) = {{}}
    OBVIOUS
  <2>2. AddsUp(g, ops, 1..0)
    BY <2>1 DEF AddsUp
  <2> QED
    BY <2>2
<1>2. ASSUME NEW n \in Nat, n \in Good
      PROVE  n + 1 \in Good
  <2> SUFFICES ASSUME \A k \in 1..n + 1 : ops[k].size \in Nat
               PROVE  \E g : AddsUp(g, ops, 1..n + 1)
    OBVIOUS
  <2>1. 1..n \subseteq 1..n + 1 /\ 1..n + 1 = (1..n) \cup {n + 1} /\ n + 1 \notin 1..n
    OBVIOUS
  <2>2. PICK g : AddsUp(g, ops, 1..n)
    BY <1>2, <2>1
  <2> DEFINE m == n + 1
             h == [S \in SUBSET (1..m) |->
                     IF m \in S THEN ops[m].size + g[S \ {m}] ELSE g[S]]
  <2>3. ops[m].size \in Nat
    BY <2>1
  <2>4. \A S \in SUBSET (1..m) : S \ {m} \in SUBSET (1..n) /\ (m \notin S => S \in SUBSET (1..n))
    BY <2>1
  <2> HIDE DEF m
  <2>5. h \in [SUBSET (1..m) -> Nat]
    BY <2>2, <2>3, <2>4 DEF AddsUp
  <2>6. h[{}] = 0
    BY <2>2 DEF AddsUp
  <2>7. ASSUME NEW S \in SUBSET (1..m), NEW x \in S
        PROVE  h[S] = ops[x].size + h[S \ {x}]
    <3>1. S \ {x} \in SUBSET (1..m)
      OBVIOUS
    <3>2. CASE x = m
      BY <3>1, <3>2
    <3>3. CASE x # m /\ m \notin S
      BY <2>2, <2>4, <3>1, <3>3 DEF AddsUp
    <3>4. CASE x # m /\ m \in S
      <4>1. g[S \ {m}] = ops[x].size + g[(S \ {m}) \ {x}]
        BY <2>2, <2>4, <3>4 DEF AddsUp
      <4>2. (S \ {m}) \ {x} = (S \ {x}) \ {m}
        OBVIOUS
      <4>3. h[S] = ops[m].size + g[S \ {m}] /\ h[S \ {x}] = ops[m].size + g[(S \ {x}) \ {m}]
        BY <3>1, <3>4
      <4>4. ops[x].size \in Nat /\ g[(S \ {x}) \ {m}] \in Nat
        <5>1. (S \ {x}) \ {m} \in SUBSET (1..n)
          BY <2>4, <3>1
        <5> QED
          BY <2>2, <5>1 DEF AddsUp, m
      <4> HIDE DEF h
      <4>5. \A a, b, c \in Nat : a + (b + c) = b + (a + c)
        OBVIOUS
      <4>6. h[S] = ops[m].size + (ops[x].size + g[(S \ {x}) \ {m}])
        BY <4>1, <4>2, <4>3
      <4>7. PICK a, b, c \in Nat : /\ a = ops[m].size /\ b = ops[x].size
                                  /\ c = g[(S \ {x}) \ {m}]
        BY <2>3, <4>4
      <4>8. h[S] = a + (b + c) /\ h[S \ {x}] = a + c
        BY <4>3, <4>6, <4>7
      <4>9. h[S] = b + h[S \ {x}]
        BY <4>5, <4>8
      <4> QED
        BY <4>7, <4>9
    <3> QED
      BY <3>2, <3>3, <3>4
  <2> HIDE DEF h
  <2>8. AddsUp(h, ops, 1..m)
    BY <2>5, <2>6, <2>7 DEF AddsUp
  <2> QED
    BY <2>8 DEF m
<1> HIDE DEF Good
<1>3. \A n \in Nat : n \in Good
  BY <1>1, <1>2, NatInduct
<1> QED
  BY <1>3 DEF Good

\* The recursive definition of the fold has that solution, and no other.
LEMMA SumIs ==
  ASSUME NEW ops, NEW n \in Nat, NEW g, AddsUp(g, ops, 1..n), NEW T \in SUBSET (1..n)
  PROVE  SizeSum(ops, T) = g[T]
<1> DEFINE Solves(f) ==
      f = [S \in SUBSET T |->
             IF S = {} THEN 0
             ELSE ops[CHOOSE x \in S : TRUE].size + f[S \ {CHOOSE x \in S : TRUE}]]
           s == CHOOSE f : Solves(f)
<1>1. SizeSum(ops, T) = s[T]
  BY DEF SizeSum, MapThenSumSet, MapThenFoldSet
<1>2. Solves([S \in SUBSET T |-> g[S]])
  <2> DEFINE h == [S \in SUBSET T |-> g[S]]
             rec(S) == IF S = {} THEN 0
                       ELSE ops[CHOOSE x \in S : TRUE].size + h[S \ {CHOOSE x \in S : TRUE}]
  <2>1. ASSUME NEW S \in SUBSET T
        PROVE  g[S] = rec(S)
    <3>1. CASE S = {}
      BY <3>1 DEF AddsUp
    <3>2. CASE S # {}
      <4> DEFINE x == CHOOSE y \in S : TRUE
      <4>1. x \in S
        BY <3>2
      <4> HIDE DEF x
      <4>2. g[S] = ops[x].size + g[S \ {x}] /\ h[S \ {x}] = g[S \ {x}]
        BY <4>1 DEF AddsUp
      <4> QED
        BY <3>2, <4>2 DEF x
    <3> QED
      BY <3>1, <3>2
  <2>2. h = [S \in SUBSET T |-> rec(S)]
    BY <2>1
  <2> QED
    BY <2>2
<1>3. Solves(s)
  BY <1>2
<1> HIDE DEF s
<1>4. ASSUME NEW S \in SUBSET T
      PROVE  /\ S = {} => s[S] = 0
             /\ S # {} => \E x \in S : s[S] = ops[x].size + s[S \ {x}]
  <2>1. s[S] = IF S = {} THEN 0
               ELSE ops[CHOOSE x \in S : TRUE].size + s[S \ {CHOOSE x \in S : TRUE}]
    BY <1>3
  <2>2. S # {} => (CHOOSE x \in S : TRUE) \in S
    OBVIOUS
  <2> QED
    BY <2>1, <2>2
<1> HIDE DEF Solves
<1>5. IsFiniteSet(T)
  <2>1. IsFiniteSet(1..n)
    BY FS_Interval
  <2> QED
    BY <2>1, FS_Subset
<1> DEFINE Good == {k \in Nat : \A S \in SUBSET T : Cardinality(S) = k => s[S] = g[S]}
<1>6. 0 \in Good
  <2>1. \A S \in SUBSET T : Cardinality(S) = 0 => S = {}
    BY <1>5, FS_Subset, FS_EmptySet
  <2> QED
    BY <1>4, <2>1 DEF AddsUp
<1>7. ASSUME NEW k \in Nat, k \in Good
      PROVE  k + 1 \in Good
  <2> SUFFICES ASSUME NEW S \in SUBSET T, Cardinality(S) = k + 1
               PROVE  s[S] = g[S]
    OBVIOUS
  <2>1. IsFiniteSet(S) /\ S # {}
    <3>1. IsFiniteSet(S)
      BY <1>5, FS_Subset
    <3>2. Cardinality({}) = 0 /\ k + 1 # 0
      BY FS_EmptySet
    <3> QED
      BY <3>1, <3>2
  <2>2. PICK x \in S : s[S] = ops[x].size + s[S \ {x}]
    BY <1>4, <2>1
  <2>3. Cardinality(S \ {x}) = k
    <3>1. Cardinality(S \ {x}) = Cardinality(S) - 1
      BY <2>1, FS_RemoveElement, Zenon
    <3> QED
      BY <3>1
  <2>4. s[S \ {x}] = g[S \ {x}]
    BY <1>7, <2>3
  <2> QED
    BY <2>2, <2>4 DEF AddsUp
<1> HIDE DEF Good
<1>8. \A k \in Nat : k \in Good
  BY <1>6, <1>7, NatInduct
<1>9. Cardinality(T) \in Nat
  BY <1>5, FS_CardinalityType
<1> QED
  BY <1>1, <1>8, <1>9 DEF Good

\* A sum is a number, 0 for no request, and one request more adds its size.
LEMMA SumFacts ==
  ASSUME NEW n \in Nat, NEW ops, \A k \in 1..n : ops[k].size \in Nat
  PROVE  \E g : AddsUp(g, ops, 1..n) /\ \A S \in SUBSET (1..n) : SizeSum(ops, S) = g[S]
<1>1. PICK g : AddsUp(g, ops, 1..n)
  BY SumExists
<1>2. \A T \in SUBSET (1..n) : SizeSum(ops, T) = g[T]
  BY <1>1, SumIs
<1> QED
  BY <1>1, <1>2

\* While utilization is measured, each block has the size of the request that
\* made it, and the totals are those of the requests so far.
Utilization ==
  at.pass = "util" => at.testing = "mm" /\
    (at.pc = "ops" =>
       /\ \A k \in LiveOps(at.i - 1) : trace.block_sizes[trace.ops[k].index] = trace.ops[k].size
       /\ total.size = LiveBytes(at.i - 1)
       /\ \E n \in 0..at.i - 1 : total.max = LiveBytes(n)
       /\ \A n \in 0..at.i - 1 : total.max >= LiveBytes(n))

\* The bytes in use are a sum.
LEMMA LiveBytesIs ==
  ASSUME NEW n
  PROVE  /\ LiveBytes(n) = SizeSum(trace.ops, LiveOps(n))
         /\ LiveBytes(n)' = SizeSum(trace'.ops, LiveOps(n)')
<1>1. LiveBytes(n) = SizeSum(trace.ops, LiveOps(n))
  BY DEF LiveBytes, SizeSum
<1>2. LiveBytes(n)' = SizeSum(trace'.ops, LiveOps(n)')
  BY DEF LiveBytes, SizeSum, MapThenSumSet, MapThenFoldSet
<1> QED
  BY <1>1, <1>2

\* The requests of a trace have sizes.
LEMMA SizesAreNumbers ==
  ASSUME Types
  PROVE  \A k \in 1..Len(trace.ops) : trace.ops[k].size \in Nat /\ trace.ops[k].index \in Ids
<1>1. trace.ops \in Seq(Request)
  BY DEF Types, Trace
<1>2. \A k \in 1..Len(trace.ops) : trace.ops[k] \in Request
  BY <1>1, ElementOfSeq
<1> QED
  BY <1>2 DEF Request

\* Blocks in use hold a number of bytes.
LEMMA LiveBytesNat ==
  ASSUME Types, Reading, at.pc = "ops", NEW n \in 0..at.i - 1
  PROVE  LiveBytes(n) \in Nat
<1>1. \A k \in 1..Len(trace.ops) : trace.ops[k].size \in Nat
  BY SizesAreNumbers
<1>2. Len(trace.ops) \in Nat /\ at.i \in Nat /\ at.i <= Len(trace.ops) + 1
  BY LenProperties DEF Types, Trace, Place, Reading
<1>3. LiveOps(n) \in SUBSET (1..Len(trace.ops))
  BY <1>2 DEF LiveOps
<1>4. SizeSum(trace.ops, LiveOps(n)) \in Nat
  <2>0. PICK ops, m : ops = trace.ops /\ m = Len(trace.ops)
    OBVIOUS
  <2>1. m \in Nat /\ \A k \in 1..m : ops[k].size \in Nat
    BY <1>1, <1>2, <2>0
  <2>2. PICK g : AddsUp(g, ops, 1..m) /\ \A S \in SUBSET (1..m) : SizeSum(ops, S) = g[S]
    BY <2>1, SumFacts
  <2> QED
    BY <1>3, <2>0, <2>2 DEF AddsUp
<1> QED
  BY <1>4, LiveBytesIs

\* What the blocks in use hold together, after one request more
LEMMA LiveBytesStep ==
  ASSUME Types, Reading, at.pc = "ops", at.i <= Len(trace.ops),
         \A k \in LiveOps(at.i - 1) : trace.block_sizes[trace.ops[k].index] = trace.ops[k].size
  PROVE  /\ LiveBytes(at.i - 1) \in Nat
         /\ trace.ops[at.i].type = "a" => LiveBytes(at.i) = LiveBytes(at.i - 1) + size
         /\ trace.ops[at.i].type = "r" =>
              LiveBytes(at.i) = LiveBytes(at.i - 1) + (size - trace.block_sizes[index])
         /\ trace.ops[at.i].type = "f" =>
              LiveBytes(at.i) = LiveBytes(at.i - 1) + (-trace.block_sizes[index])
<1> DEFINE n   == Len(trace.ops)
           i   == at.i
           old == LiveOps(i - 1)
           new == LiveOps(i)
<1>1. /\ n \in Nat /\ i \in 1..n /\ index = trace.ops[i].index /\ size = trace.ops[i].size
      /\ trace.ops[i].type \in {"a", "r", "f"} /\ trace.block_sizes[index] \in Nat
  <2>1. trace.ops \in Seq(Request) /\ trace.block_sizes \in [Ids -> Nat]
    BY DEF Types, Trace
  <2> QED
    BY <2>1, Current, LenProperties DEF Request, index, size
<1>2. \A k \in 1..n : trace.ops[k].size \in Nat
  BY SizesAreNumbers
<1>3. /\ trace.ops[i].type = "a" => \A k \in old : trace.ops[k].index # index
      /\ trace.ops[i].type # "a" => \E k \in old : trace.ops[k].index = index
  BY Current
<1>4. /\ new = {k \in old : trace.ops[k].index # index} \cup (IF trace.ops[i].type # "f" THEN {i} ELSE {})
      /\ old \in SUBSET (1..n) /\ new \in SUBSET (1..n) /\ i \notin old
  <2>1. new = {k \in old : trace.ops[k].index # trace.ops[i].index}
                \cup (IF trace.ops[i].type # "f" THEN {i} ELSE {})
    BY <1>1, LiveGrows
  <2>2. index = trace.ops[i].index
    BY <1>1
  <2>3. old \in SUBSET (1..n) /\ new \in SUBSET (1..n) /\ i \notin old
    BY <1>1 DEF LiveOps
  <2> QED
    BY <2>1, <2>2, <2>3
<1>5. \A j, k \in old : trace.ops[j].index = trace.ops[k].index => j = k
  BY <1>1, OneOwner
<1>6. LiveBytes(i - 1) = SizeSum(trace.ops, old) /\ LiveBytes(i) = SizeSum(trace.ops, new)
  BY DEF LiveBytes, SizeSum
<1>7. \A k \in old : trace.block_sizes[trace.ops[k].index] = trace.ops[k].size
  OBVIOUS
<1> HIDE DEF n, i, old, new
<1>8. n \in Nat
  BY <1>1
<1>9. PICK g : AddsUp(g, trace.ops, 1..n) /\ \A S \in SUBSET (1..n) : SizeSum(trace.ops, S) = g[S]
  <2>0. PICK ops : ops = trace.ops
    OBVIOUS
  <2>1. \A k \in 1..n : ops[k].size \in Nat
    BY <1>2, <2>0
  <2>2. \E g : AddsUp(g, ops, 1..n) /\ \A S \in SUBSET (1..n) : SizeSum(ops, S) = g[S]
    BY <1>8, <2>1, SumFacts
  <2> QED
    BY <2>0, <2>2
<1>10. /\ \A S \in SUBSET (1..n) : g[S] \in Nat
      /\ \A S \in SUBSET (1..n) : \A x \in S : g[S] = trace.ops[x].size + g[S \ {x}]
  BY <1>9 DEF AddsUp
<1>11. LiveBytes(i - 1) = g[old] /\ LiveBytes(i) = g[new]
  BY <1>4, <1>6, <1>9
<1>12. CASE trace.ops[i].type = "a"
  <2>1. new = old \cup {i} /\ new \ {i} = old /\ i \in new
    BY <1>3, <1>4, <1>12
  <2>2. g[new] = trace.ops[i].size + g[old] /\ g[old] \in Nat
    BY <1>4, <1>10, <2>1
  <2>3. g[new] = g[old] + size
    BY <1>1, <1>2, <2>2
  <2> QED
    BY <1>11, <1>12, <2>2, <2>3 DEF i
<1>13. CASE trace.ops[i].type # "a"
  <2>1. PICK k \in old : trace.ops[k].index = index
    BY <1>3, <1>13
  <2>2. trace.ops[k].size = trace.block_sizes[index] /\ trace.ops[k].size \in Nat
    BY <1>1, <1>7, <2>1
  <2>3. {j \in old : trace.ops[j].index # index} = old \ {k}
    BY <1>5, <2>1
  <2>4. old \ {k} \in SUBSET (1..n)
    BY <1>4
  <2>5. g[old] = trace.ops[k].size + g[old \ {k}] /\ g[old \ {k}] \in Nat /\ g[old] \in Nat
    BY <1>4, <1>10, <2>1, <2>4
  <2>6. CASE trace.ops[i].type = "f"
    <3>1. new = old \ {k}
      BY <1>4, <2>3, <2>6
    <3>2. g[new] = g[old] + (-trace.block_sizes[index])
      BY <2>2, <2>5, <3>1
    <3> QED
      BY <1>11, <2>5, <2>6, <3>2 DEF i
  <2>7. CASE trace.ops[i].type = "r"
    <3>1. i \in new /\ new \ {i} = old \ {k}
      BY <1>4, <2>3, <2>7
    <3>2. g[new] = trace.ops[i].size + g[old \ {k}]
      BY <1>4, <1>10, <3>1
    <3>4. size = trace.ops[i].size /\ size \in Nat
      BY <1>1, <1>2
    <3>3. g[new] = g[old] + (size - trace.block_sizes[index])
      BY <2>2, <2>5, <3>2, <3>4
    <3> QED
      BY <1>11, <2>5, <2>7, <3>3 DEF i
  <2> QED
    BY <1>1, <1>13, <2>6, <2>7
<1> QED
  BY <1>4, <1>12, <1>13, <1>10, <1>11 DEF i

\* A request counts what it changes, and remembers its size.
LEMMA RequestCounts ==
  ASSUME Types, Reading, Stages, at.pc = "ops", at.pass = "util", at'.pc = "ops",
         \/ valid_malloc \/ valid_realloc \/ valid_free
         \/ plain_malloc \/ plain_realloc \/ plain_free
  PROVE  \E more \in Int :
           /\ trace.ops[at.i].type = "a" => more = size
           /\ trace.ops[at.i].type = "r" => more = size - trace.block_sizes[index]
           /\ trace.ops[at.i].type = "f" => more = -trace.block_sizes[index]
           /\ trace.ops[at.i].type \in {"a", "r", "f"} /\ at.i <= Len(trace.ops)
           /\ total' = [size |-> total.size + more, max |-> Max({total.max, total.size + more})]
           /\ trace'.ops = trace.ops
           /\ trace'.block_sizes = IF trace.ops[at.i].type = "f" THEN trace.block_sizes
                                   ELSE [trace.block_sizes EXCEPT ![index] = size]
           /\ at' = [at EXCEPT !.i = @ + 1]
<1>0. at \in Place /\ trace \in Trace
  BY DEF Types
<1>1. ~(valid_malloc \/ valid_realloc \/ valid_free)
  BY DEF valid_malloc, valid_realloc, valid_free, Checked
<1>2. ~GivesUp
  BY <1>0, MovesOn DEF GivesUp
<1>3. at.i <= Len(trace.ops) /\ trace.ops[at.i].type \in {"a", "r", "f"}
  BY <1>1 DEF plain_malloc, plain_realloc, plain_free, Doing
<1>4. index \in Ids /\ size \in Nat /\ trace.block_sizes[index] \in Nat
  BY <1>0, <1>3, Current DEF Trace
<1>5. Answered => /\ trace'.ops = trace.ops
                  /\ trace'.block_sizes = [trace.block_sizes EXCEPT ![index] = size]
                  /\ at' = [at EXCEPT !.i = @ + 1]
  BY <1>0 DEF Answered, NextOp, Trace
<1>6. CASE plain_malloc
  <2>1. Answered /\ Counted(size) /\ trace.ops[at.i].type = "a"
    BY <1>2, <1>6 DEF plain_malloc, Doing
  <2>2. total' = [size |-> total.size + size, max |-> Max({total.max, total.size + size})]
    BY <2>1 DEF Counted
  <2> DEFINE more == size
  <2>3. more = size /\ more \in Int
    BY <1>4
  <2> HIDE DEF more
  <2> QED
    BY <1>3, <1>5, <2>1, <2>2, <2>3
<1>7. CASE plain_realloc
  <2> DEFINE more == size - trace.block_sizes[index]
  <2>1. Answered /\ Counted(more) /\ trace.ops[at.i].type = "r"
    BY <1>2, <1>7 DEF plain_realloc, Doing
  <2>2. more \in Int
    BY <1>4
  <2>3. total' = [size |-> total.size + more, max |-> Max({total.max, total.size + more})]
    BY <2>1 DEF Counted
  <2> HIDE DEF more
  <2> QED
    BY <1>3, <1>5, <2>1, <2>2, <2>3 DEF more
<1>8. CASE plain_free
  <2> DEFINE more == -trace.block_sizes[index]
  <2>1. Counted(more) /\ trace.ops[at.i].type = "f" /\ NextOp /\ trace' = trace
    BY <1>8 DEF plain_free, Doing, mainVars
  <2>2. more \in Int
    BY <1>4
  <2> QED
    BY <1>3, <2>1, <2>2 DEF Counted, NextOp
<1> QED
  BY <1>1, <1>6, <1>7, <1>8

\* A request keeps the totals those of the requests so far.
LEMMA TotalsHold ==
  ASSUME Types, Reading, Stages, Utilization, at.pc = "ops", at.pass = "util", at'.pc = "ops",
         \/ valid_malloc \/ valid_realloc \/ valid_free
         \/ plain_malloc \/ plain_realloc \/ plain_free
  PROVE  Utilization'
<1>0. /\ at \in Place /\ at.i \in Nat \ {0} /\ trace \in Trace /\ total \in [size : Int, max : Int]
      /\ trace.block_sizes \in [Ids -> Nat]
  BY DEF Types, Place, Trace
<1>1. PICK more \in Int :
           /\ trace.ops[at.i].type = "a" => more = size
           /\ trace.ops[at.i].type = "r" => more = size - trace.block_sizes[index]
           /\ trace.ops[at.i].type = "f" => more = -trace.block_sizes[index]
           /\ trace.ops[at.i].type \in {"a", "r", "f"} /\ at.i <= Len(trace.ops)
           /\ total' = [size |-> total.size + more, max |-> Max({total.max, total.size + more})]
           /\ trace'.ops = trace.ops
           /\ trace'.block_sizes = IF trace.ops[at.i].type = "f" THEN trace.block_sizes
                                   ELSE [trace.block_sizes EXCEPT ![index] = size]
           /\ at' = [at EXCEPT !.i = @ + 1]
  BY RequestCounts
<1>2. at'.i = at.i + 1 /\ at'.i - 1 = at.i /\ at'.pass = "util" /\ at'.testing = at.testing
  BY <1>0, <1>1 DEF Place
<1>3. \A n \in Nat : LiveOps(n)' = LiveOps(n) /\ LiveBytes(n)' = LiveBytes(n)
  <2>1. \A n \in Nat : LiveOps(n)' = LiveOps(n)
    BY <1>1 DEF LiveOps
  <2> QED
    BY <1>1, <2>1, LiveBytesIs
<1>4. /\ \A k \in LiveOps(at.i - 1) : trace.block_sizes[trace.ops[k].index] = trace.ops[k].size
      /\ total.size = LiveBytes(at.i - 1) /\ at.testing = "mm"
      /\ \E n \in 0..at.i - 1 : total.max = LiveBytes(n)
      /\ \A n \in 0..at.i - 1 : total.max >= LiveBytes(n)
  BY DEF Utilization
<1>5. LiveBytes(at.i) = LiveBytes(at.i - 1) + more /\ LiveBytes(at.i - 1) \in Nat
  BY <1>1, <1>4, LiveBytesStep
<1>6. total'.size = LiveBytes(at.i) /\ total'.max = Max({total.max, LiveBytes(at.i)})
  BY <1>1, <1>4, <1>5
<1>7. /\ total'.max \in {total.max, LiveBytes(at.i)}
      /\ total'.max >= total.max /\ total'.max >= LiveBytes(at.i)
      /\ total'.max \in Int
  <2>1. total.max \in Int /\ LiveBytes(at.i) \in Int
    BY <1>0, <1>1, <1>5
  <2> QED
    BY <1>6, <2>1, MaxOfTwo
<1>8. 0..at.i = (0..at.i - 1) \cup {at.i} /\ \A n \in 0..at.i : n \in Nat
  BY <1>0
<1>9. \E n \in 0..at.i : total'.max = LiveBytes(n)
  BY <1>4, <1>7, <1>8
<1>10. \A n \in 0..at.i : total'.max >= LiveBytes(n)
  <2>1. ASSUME NEW n \in 0..at.i - 1
        PROVE  total'.max >= LiveBytes(n)
    <3>1. total.max >= LiveBytes(n) /\ LiveBytes(n) \in Int
      BY <1>0, <1>1, <1>4, LiveBytesNat
    <3> QED
      BY <1>0, <1>7, <3>1
  <2> QED
    BY <1>7, <1>8, <2>1
<1>11. ASSUME NEW k \in LiveOps(at.i)
       PROVE  trace'.block_sizes[trace.ops[k].index] = trace.ops[k].size
  <2>1. LiveOps(at.i) = {j \in LiveOps(at.i - 1) : trace.ops[j].index # trace.ops[at.i].index}
                          \cup (IF trace.ops[at.i].type # "f" THEN {at.i} ELSE {})
    BY <1>0, LiveGrows
  <2>2. index = trace.ops[at.i].index /\ size = trace.ops[at.i].size /\ index \in Ids
    BY <1>1, Current DEF index, size
  <2>3. trace'.block_sizes = IF trace.ops[at.i].type = "f" THEN trace.block_sizes
                             ELSE [trace.block_sizes EXCEPT ![index] = size]
    BY <1>1
  <2>4. CASE k \in LiveOps(at.i - 1) /\ trace.ops[k].index # trace.ops[at.i].index
    <3>1. trace.block_sizes[trace.ops[k].index] = trace.ops[k].size
      BY <1>4, <2>4
    <3> QED
      BY ONLY <1>0, <2>2, <2>3, <2>4, <3>1
  <2>5. CASE k = at.i /\ trace.ops[at.i].type # "f"
    BY ONLY <1>0, <2>2, <2>3, <2>5
  <2>6. \/ k \in LiveOps(at.i - 1) /\ trace.ops[k].index # trace.ops[at.i].index
        \/ k = at.i /\ trace.ops[at.i].type # "f"
    BY <2>1, Zenon
  <2> QED
    BY <2>4, <2>5, <2>6
<1>12. LiveOps(at.i - 1)' = LiveOps(at.i) /\ LiveBytes(at.i - 1)' = LiveBytes(at.i)
  BY <1>0, <1>2, <1>3
<1>13. \A n \in 0..at.i : LiveBytes(n)' = LiveBytes(n)
  BY <1>3, <1>8
<1>14. /\ at'.testing = "mm" /\ total'.size = LiveBytes(at.i - 1)'
       /\ \A k \in LiveOps(at.i - 1)' : trace'.block_sizes[trace'.ops[k].index] = trace'.ops[k].size
  BY <1>1, <1>2, <1>4, <1>6, <1>11, <1>12
<1>15. /\ \E n \in 0..at'.i - 1 : total'.max = LiveBytes(n)'
       /\ \A n \in 0..at'.i - 1 : total'.max >= LiveBytes(n)'
  BY <1>2, <1>9, <1>10, <1>13
<1> QED
  BY <1>14, <1>15 DEF Utilization

\* Only the allocator under test has its utilization measured.
LEMMA OnlyMM ==
  ASSUME Types, Reading, Stages, Utilization, [Next]_vars
  PROVE  at'.pass = "util" => at'.testing = "mm"
<1>0. at \in Place /\ at.rep + 1 \in Nat
  BY DEF Types, Place
<1>1. CASE at'.pass = at.pass /\ at'.testing = at.testing
  BY <1>1 DEF Utilization
<1>2. CASE at' = NextTrace
  BY <1>2, AfterTrace
<1>3. CASE \E how : Ends(how)
  BY <1>0, <1>1, <1>3, MovesOn DEF Ends
<1>4. CASE MemInit
  BY <1>3, <1>4 DEF MemInit, First
<1>5. CASE OpenTrace
  BY <1>0, <1>1, <1>3, <1>5, OpenFields DEF OpenTrace
<1>6. CASE ReadRequest
  BY <1>0, <1>1, <1>3, <1>6, NextFields DEF ReadRequest, NextOp
<1>7. CASE TraceRead
  BY <1>0, <1>3, <1>7, PassFields DEF TraceRead
<1>8. CASE BeginPass
  BY <1>0, <1>1, <1>2, <1>3, <1>8, MovesOn DEF BeginPass, Reject
<1>9. CASE \/ valid_malloc \/ valid_realloc \/ valid_free
           \/ plain_malloc \/ plain_realloc \/ plain_free
  <2>1. CASE NextOp
    BY <1>0, <1>1, <2>1, NextFields
  <2>2. CASE GivesUp
    BY <1>0, <1>1, <2>2, MovesOn DEF GivesUp
  <2> QED
    BY <1>2, <1>9, <2>1, <2>2
    DEF valid_malloc, valid_realloc, valid_free, plain_malloc, plain_realloc, plain_free,
        Accept, Reject, Answered
<1>10. CASE ValidEnds
  BY <1>0, <1>10, PassFields DEF ValidEnds, MeasureTime
<1>11. CASE UtilEnds \/ SpeedEnds \/ SampleEnds
  BY <1>0, <1>2, <1>11, PassFields DEF UtilEnds, SpeedEnds, SampleEnds, MeasureTime
<1>12. CASE Report
  BY <1>3, <1>12 DEF Report
<1>13. CASE UNCHANGED vars
  BY <1>1, <1>13 DEF vars
<1> QED
  BY <1>4, <1>5, <1>6, <1>7, <1>8, <1>9, <1>10, <1>11, <1>12, <1>13 DEF Next

\* Every step does.
LEMMA UtilizationHolds ==
  ASSUME Types, Reading, Stages, Utilization, [Next]_vars
  PROVE  Utilization'
<1>0. at \in Place
  BY DEF Types
<1>1. CASE UNCHANGED vars
  <2>1. at' = at /\ trace' = trace /\ total' = total
    BY <1>1 DEF vars, mainVars, measureVars
  <2>2. \A n : LiveOps(n)' = LiveOps(n)
    BY <2>1 DEF LiveOps
  <2>3. \A n : LiveBytes(n)' = LiveBytes(n)
    BY <2>1, <2>2, LiveBytesIs
  <2> QED
    BY <2>1, <2>2, <2>3 DEF Utilization
<1>2. CASE /\ at.pc = "ops" /\ at'.pc = "ops"
           /\ \/ valid_malloc \/ valid_realloc \/ valid_free
              \/ plain_malloc \/ plain_realloc \/ plain_free
  <2>1. at'.pass = at.pass
    <3>1. CASE Reject \/ GivesUp
      BY <1>0, <1>2, <3>1, AfterTrace, MovesOn DEF Reject, GivesUp
    <3>2. CASE NextOp
      BY <1>0, <3>2 DEF NextOp, Place
    <3> QED
      BY <1>2, <3>1, <3>2 DEF valid_malloc, valid_realloc, valid_free, plain_malloc,
           plain_realloc, plain_free, Accept, Answered
  <2>2. CASE at.pass = "util"
    BY <1>2, <2>2, TotalsHold
  <2> QED
    BY <2>1, <2>2 DEF Utilization
<1>3. CASE BeginPass /\ at'.pc = "ops"
  <2>1. at.i = 1 /\ at' = [at EXCEPT !.pc = "ops"] /\ UNCHANGED trace /\ at.pc = "begin"
    <3>1. ~Reject /\ ~Ends("failed")
      BY <1>0, <1>3, AfterTrace, MovesOn DEF Reject, Ends
    <3> QED
      BY <1>3, <3>1 DEF BeginPass, At, Reading, mainVars
  <2>2. at'.i = 1 /\ at'.pass = at.pass /\ at'.testing = at.testing
    BY <1>0, <2>1 DEF Place
  <2>3. CASE at.pass = "util"
    <3>1. at.testing = "mm" /\ total' = [size |-> 0, max |-> 0]
      <4>1. ~Reject /\ ~Ends("failed")
        BY <1>0, <1>3, AfterTrace, MovesOn DEF Reject, Ends
      <4> QED
        BY <1>3, <2>3, <4>1 DEF BeginPass, Utilization
    <3>2. LiveOps(0)' = {}
      BY DEF LiveOps
    <3>3. LiveBytes(0)' = 0
      <4>1. LiveBytes(0)' = SizeSum(trace'.ops, {})
        BY <3>2, LiveBytesIs
      <4>2. PICK ops : ops = trace'.ops
        OBVIOUS
      <4>3. PICK m : m = 0
        OBVIOUS
      <4>4. m \in Nat /\ \A k \in 1..m : ops[k].size \in Nat
        BY <4>3
      <4>5. PICK g : AddsUp(g, ops, 1..m) /\ \A S \in SUBSET (1..m) : SizeSum(ops, S) = g[S]
        BY <4>4, SumFacts
      <4> QED
        BY <4>1, <4>2, <4>5 DEF AddsUp
    <3> QED
      BY <2>2, <3>1, <3>2, <3>3 DEF Utilization
  <2> QED
    BY <2>2, <2>3 DEF Utilization
<1>4. CASE at'.pc # "ops"
  BY <1>4, OnlyMM DEF Utilization
<1>5. CASE at'.pc = "ops"
  <2>1. \/ UNCHANGED vars
        \/ BeginPass
        \/ valid_malloc \/ valid_realloc \/ valid_free
        \/ plain_malloc \/ plain_realloc \/ plain_free
    <3>0. at.i \in Nat /\ Len(trace.ops) \in Nat
      BY LenProperties DEF Types, Place, Trace
    <3>1. CASE Requests /\ Next
      BY <1>0, <3>0, <3>1
      DEF Next, Requests, MemInit, OpenTrace, ReadRequest, TraceRead, At, ValidEnds,
          UtilEnds, SpeedEnds, SampleEnds, Report, PassOver
    <3> QED
      BY <1>5, <3>1, PassSteps
  <2>2. CASE BeginPass
    BY <1>3, <1>5, <2>2
  <2>3. CASE \/ valid_malloc \/ valid_realloc \/ valid_free
             \/ plain_malloc \/ plain_realloc \/ plain_free
    BY <1>2, <1>5, <2>3 DEF valid_malloc, valid_realloc, valid_free, plain_malloc,
                            plain_realloc, plain_free, Doing, At
  <2> QED
    BY <1>1, <2>1, <2>2, <2>3
<1> QED
  BY <1>4, <1>5

(***************************************************************************)
(* eval_mm_util's total_size is the sum of the sizes of the blocks in use, *)
(* and max_total_size the largest that this sum has been since the pass    *)
(* began (mdriver.c:663-735).                                              *)
(***************************************************************************)
THEOREM HighWater == Spec => []HighWaterMark
<1>1. Init => Utilization
  BY DEF Init, Utilization, First
<1>2. IInv /\ Utilization /\ [Next]_vars => Utilization'
  BY UtilizationHolds DEF IInv
<1>3. ASSUME IInv, Utilization, at.pc = "ops", at.pass = "util"
      PROVE  total = [size |-> LiveBytes(at.i - 1),
                      max  |-> Max({LiveBytes(n) : n \in 0..at.i - 1})]
  <2> DEFINE T == {LiveBytes(n) : n \in 0..at.i - 1}
  <2>1. total.max \in T /\ (\A m \in T : total.max >= m) /\ total.size = LiveBytes(at.i - 1)
    BY <1>3 DEF Utilization
  <2>2. \A m \in T : m \in Nat
    <3> SUFFICES ASSUME NEW n \in 0..at.i - 1
                 PROVE  LiveBytes(n) \in Nat
      OBVIOUS
    <3> QED
      BY <1>3, LiveBytesNat DEF IInv
  <2>3. total \in [size : Int, max : Int]
    BY <1>3 DEF IInv, Types
  <2> HIDE DEF T
  <2>4. Max(T) \in T /\ \A m \in T : Max(T) >= m
    BY <2>1 DEF Max
  <2>5. Max(T) = total.max
    BY <2>1, <2>2, <2>4
  <2> QED
    BY <2>1, <2>3, <2>5 DEF T
<1>4. IInv /\ Utilization => HighWaterMark
  BY <1>3 DEF HighWaterMark, At
<1> QED
  BY <1>1, <1>2, <1>4, Invariance, PTL DEF Spec

----------------------------------------------------------------------------
(* The cycle counter. *)

(***************************************************************************)
(* get_counter is the difference of the two counts modulo the range of     *)
(* the counter, whatever the halves do: the borrow from the upper half is  *)
(* taken exactly if the lower one has wrapped (clock.c:46-70).             *)
(***************************************************************************)
THEOREM CounterIsExact ==
  ASSUME NEW start \in Nat, NEW stop \in Nat
  PROVE  get_counter(access_counter(start), access_counter(stop)) =
           (stop - start) % (HalfWord * HalfWord)
<1> DEFINE H  == HalfWord
           s1 == start \div H   s0 == start % H
           t1 == stop \div H    t0 == stop % H
           sh == s1 % H          th == t1 % H
           lo == (t0 - s0) % H
           b  == IF lo > t0 THEN 1 ELSE 0
           hi == (th - sh - b) % H
<1>1. H \in Nat /\ H > 0
  BY FcycAssumption
<1>2. get_counter(access_counter(start), access_counter(stop)) = hi * H + lo
  BY DEF get_counter, access_counter
<1> HIDE DEF H
<1>3. /\ s1 \in Int /\ s0 \in 0..H - 1 /\ start = H * s1 + s0
      /\ t1 \in Int /\ t0 \in 0..H - 1 /\ stop = H * t1 + t0
  BY <1>1
<1> HIDE DEF s1, s0, t1, t0
<1>4. lo \in 0..H - 1 /\ b \in {0, 1} /\ t0 - s0 = lo - H * b
  <2>1. CASE t0 >= s0
    <3>1. t0 - s0 \in 0..H - 1
      BY <1>1, <1>3, <2>1
    <3>2. lo = t0 - s0
      BY <1>1, <3>1, SmallRemainder
    <3> HIDE DEF lo
    <3>3. b = 0
      BY <1>1, <1>3, <3>2
    <3> QED
      BY <1>1, <3>1, <3>2, <3>3
  <2>2. CASE t0 < s0
    <3>1. /\ t0 - s0 \in Int /\ -H <= t0 - s0 /\ t0 - s0 < 0
      BY <1>1, <1>3, <2>2
    <3>2. lo = t0 - s0 + H
      BY <1>1, <3>1, ModNegative
    <3> HIDE DEF lo
    <3>3. b = 1
      BY <1>1, <1>3, <3>2
    <3> QED
      BY <1>1, <1>3, <2>2, <3>1, <3>2, <3>3
  <2> QED
    BY <1>3, <2>1, <2>2
<1> HIDE DEF lo, b
<1> DEFINE D == t1 - s1 - b
<1>5. stop - start = H * D + lo
  BY <1>1, <1>3, <1>4
<1>6. hi = D % H
  <2> DEFINE ks == s1 \div H   kt == t1 \div H
  <2>1. /\ ks \in Int /\ sh \in Int /\ s1 = H * ks + sh
        /\ kt \in Int /\ th \in Int /\ t1 = H * kt + th
    BY <1>1, <1>3
  <2> HIDE DEF ks, kt, sh, th
  <2>2. D = H * (kt - ks) + (th - sh - b) /\ kt - ks \in Int /\ th - sh - b \in Int
    BY <1>1, <1>4, <2>1
  <2> HIDE DEF D
  <2> QED
    BY <1>1, <2>2, SameRemainder
<1> DEFINE K == D \div H
<1>7. K \in Int /\ hi \in 0..H - 1 /\ D = H * K + hi
  <2>1. D \in Int
    BY <1>3, <1>4
  <2> HIDE DEF D, hi
  <2> QED
    BY <1>1, <1>6, <2>1
<1> HIDE DEF K, D, hi
<1> DEFINE W == H * H
           r == hi * H + lo
<1>8. stop - start = W * K + r
  BY <1>1, <1>4, <1>5, <1>7
<1>9. W \in Nat /\ W > 0 /\ r \in 0..W - 1
  <2>1. (H - 1) * H + (H - 1) = W - 1
    BY <1>1
  <2>2. hi * H <= (H - 1) * H /\ hi * H >= 0 /\ hi * H \in Int
    BY <1>1, <1>7
  <2>3. W \in Nat /\ W > 0
    BY <1>1
  <2> HIDE DEF W
  <2> QED
    BY <1>1, <1>4, <2>1, <2>2, <2>3
<1> HIDE DEF W, r
<1>10. (stop - start) % W = r
  BY <1>7, <1>8, <1>9, DivisionIsUnique
<1> QED
  BY <1>2, <1>10 DEF W, r, H

----------------------------------------------------------------------------
(* The samples of fcyc. *)

\* order lists the first n times of s from the smallest to the largest.
Sorts(order, s, n) ==
  /\ order \in [1..n -> 1..n]
  /\ \A i, j \in 1..n : i < j => order[i] # order[j] /\ s[order[i]] <= s[order[j]]

\* The first k of the times s in that order
Along(order, s, k) == [i \in 1..k |-> s[order[i]]]

Sampling ==
  /\ sampler \in [values : Seq(Int), samplecount : Nat] /\ spent \in Seq(Int)
  /\ sampler.samplecount = Len(spent)
  /\ \E order : /\ Sorts(order, spent, Len(spent))
                /\ sampler.values = Along(order, spent, Min({kbest, Len(spent)}))

\* It is a sequence of them.
LEMMA AlongType ==
  ASSUME NEW order, NEW s, NEW k \in Nat, \A i \in 1..k : s[order[i]] \in Int
  PROVE  /\ Along(order, s, k) \in Seq(Int) /\ Len(Along(order, s, k)) = k
         /\ \A i \in 1..k : Along(order, s, k)[i] = s[order[i]]
BY DEF Along

\* The smaller one of two numbers
LEMMA MinIs ==
  ASSUME NEW m \in Int, NEW n \in Int
  PROVE  Min({m, n}) = IF m <= n THEN m ELSE n
<1> DEFINE k == IF m <= n THEN m ELSE n
<1>1. k \in {m, n} /\ \A y \in {m, n} : k <= y
  OBVIOUS
<1>2. Min({m, n}) \in {m, n} /\ \A y \in {m, n} : Min({m, n}) <= y
  <2> HIDE DEF k
  <2> QED
    BY <1>1 DEF Min
<1> QED
  BY <1>1, <1>2

\* Position i of out holds what was at i, the new one, or what was at i - 1.
Opened(out, s, n, pos, new) ==
  /\ \A i \in 1..n + 1 : i <= pos => out[i] = s[i] /\ i \in 1..n
  /\ \A i \in 1..n + 1 : i = pos + 1 => out[i] = new
  /\ \A i \in 1..n + 1 : i > pos + 1 => out[i] = s[i - 1] /\ i - 1 \in 1..n

\* A number that is put behind the smaller ones keeps the order.
LEMMA SortedInsert ==
  ASSUME NEW n \in Nat, NEW s, NEW t, NEW order, NEW pos \in 0..n,
         Sorts(order, s, n),
         \A i \in 1..n : t[i] = s[i] /\ s[i] \in Int,
         t[n + 1] \in Int,
         \A i \in 1..n : i <= pos => s[order[i]] <= t[n + 1],
         \A i \in 1..n : i > pos => t[n + 1] <= s[order[i]],
         NEW q \in [1..n + 1 -> 1..n + 1], Opened(q, order, n, pos, n + 1)
  PROVE  Sorts(q, t, n + 1)
<1>1. /\ \A i \in 1..n : order[i] \in 1..n
      /\ \A i, j \in 1..n : i < j => order[i] # order[j] /\ s[order[i]] <= s[order[j]]
  BY DEF Sorts
<1>2. \A a, b \in 1..n : a < b => order[a] # order[b] /\ t[order[a]] <= t[order[b]]
  BY <1>1
<1>3. /\ \A i \in 1..n + 1 : i <= pos => q[i] = order[i] /\ i \in 1..n
      /\ \A i \in 1..n + 1 : i = pos + 1 => q[i] = n + 1
      /\ \A i \in 1..n + 1 : i > pos + 1 => q[i] = order[i - 1] /\ i - 1 \in 1..n /\ i - 1 > pos
  <2>1. /\ \A i \in 1..n + 1 : i <= pos => q[i] = order[i] /\ i \in 1..n
        /\ \A i \in 1..n + 1 : i = pos + 1 => q[i] = n + 1
        /\ \A i \in 1..n + 1 : i > pos + 1 => q[i] = order[i - 1] /\ i - 1 \in 1..n
    BY Zenon DEF Opened
  <2>2. n \in Nat /\ pos \in Int
    OBVIOUS
  <2>3. \A i \in 1..n + 1 : i > pos + 1 => i - 1 > pos
    BY ONLY <2>2
  <2> QED
    BY ONLY <2>1, <2>3
<1>4. ASSUME NEW i \in 1..n + 1, NEW j \in 1..n + 1, i < j
      PROVE  q[i] # q[j] /\ t[q[i]] <= t[q[j]]
  <2>1. CASE j <= pos
    <3>1. q[i] = order[i] /\ q[j] = order[j] /\ i \in 1..n /\ j \in 1..n
      <4>1. pos \in Int /\ i <= pos /\ i \in 1..n + 1 /\ j \in 1..n + 1
        BY <1>4, <2>1
      <4> QED
        BY ONLY <1>3, <2>1, <4>1
    <3> QED
      BY <1>1, <1>4, <3>1
  <2>2. CASE j = pos + 1
    <3>1. q[i] = order[i] /\ q[j] = n + 1 /\ i \in 1..n /\ i <= pos
      BY <1>3, <1>4, <2>2
    <3>2. order[i] \in 1..n /\ t[order[i]] = s[order[i]]
      BY <1>1, <3>1
    <3>3. s[order[i]] <= t[n + 1]
      BY <3>1
    <3>4. order[i] # n + 1
      BY <3>2
    <3> QED
      BY <3>1, <3>2, <3>3, <3>4
  <2>3. CASE j > pos + 1 /\ i <= pos
    <3>1. q[i] = order[i] /\ q[j] = order[j - 1] /\ i \in 1..n /\ j - 1 \in 1..n /\ i < j - 1
      <4>1. /\ i \in 1..n + 1 /\ j \in 1..n + 1 /\ pos \in Int /\ n \in Int
            /\ i <= pos /\ j > pos + 1 /\ i < j - 1
        BY <2>3
      <4> QED
        BY <1>3, <4>1
    <3>2. PICK k \in 1..n : k = j - 1
      BY <3>1
    <3>3. order[i] # order[k] /\ t[order[i]] <= t[order[k]]
      BY <1>2, <3>1, <3>2
    <3> QED
      BY <3>1, <3>2, <3>3
  <2>4. CASE j > pos + 1 /\ i = pos + 1
    <3>1. q[i] = n + 1 /\ q[j] = order[j - 1] /\ j - 1 \in 1..n /\ j - 1 > pos
      BY <1>3, <2>4
    <3>2. PICK k \in 1..n : k = j - 1
      BY <3>1
    <3>3. order[k] \in 1..n /\ k > pos /\ q[j] = order[k]
      BY <1>1, <3>1, <3>2
    <3>4. t[n + 1] <= s[order[k]] /\ s[order[k]] = t[order[k]]
      BY <3>3
    <3> QED
      <4>1. order[k] \in 1..n /\ n \in Nat
        BY <3>3
      <4> QED
        BY ONLY <3>1, <3>3, <3>4, <4>1
  <2>5. CASE j > pos + 1 /\ i > pos + 1
    <3>1. q[i] = order[i - 1] /\ q[j] = order[j - 1] /\ i - 1 \in 1..n /\ j - 1 \in 1..n /\ i - 1 < j - 1
      <4>1. /\ i \in 1..n + 1 /\ j \in 1..n + 1 /\ i > pos + 1 /\ j > pos + 1 /\ i - 1 < j - 1
        BY <1>4, <2>5
      <4> QED
        BY <1>3, <4>1
    <3> QED
      BY <1>2, <3>1
  <2> QED
    BY <1>4, <2>1, <2>2, <2>3, <2>4, <2>5
<1> QED
  BY <1>4 DEF Sorts

\* Where the insertion sort stops: behind the last value that is not larger.
LEMMA StopsAt ==
  ASSUME NEW m \in Nat, NEW s \in Seq(Int), Len(s) = m, NEW val \in Int
  PROVE  \E pos \in 0..m :
           /\ Inserted(s, val) = InsertAt(s, pos + 1, val)
           /\ pos # 0 => s[pos] <= val
           /\ \A i \in 1..m : i > pos => val < s[i]
<1> DEFINE T == {0} \cup {i \in DOMAIN s : s[i] <= val}
<1>1. DOMAIN s = 1..m /\ \A i \in 1..m : s[i] \in Int
  BY LenProperties, ElementOfSeq
<1>2. T \subseteq 0..m /\ T # {}
  BY <1>1
<1>3. \E x \in T : \A y \in T : x >= y
  <2> DEFINE U == {k \in Nat : \E x \in T : k = m - x}
  <2>1. U \subseteq Nat /\ U # {}
    BY <1>2
  <2>2. PICK k \in U : \A y \in U : k <= y
    <3> HIDE DEF U
    <3> QED
      BY <2>1, NatMin
  <2>3. PICK x \in T : k = m - x
    BY <2>2
  <2>4. \A y \in T : m - y \in U
    BY <1>2
  <2>5. \A y \in T : m - x <= m - y
    BY <2>2, <2>3, <2>4
  <2> QED
    BY <1>2, <2>3, <2>5
<1>4. Max(T) \in T /\ \A y \in T : Max(T) >= y
  <2> HIDE DEF T
  <2> QED
    BY <1>3 DEF Max
<1>5. Max(T) \in 0..m /\ (Max(T) # 0 => s[Max(T)] <= val)
  BY <1>1, <1>4
<1>6. ASSUME NEW i \in 1..m, i > Max(T)
      PROVE  val < s[i]
  <2>1. i \notin T
    BY <1>4, <1>5, <1>6
  <2> QED
    BY <1>1, <2>1
<1>7. Inserted(s, val) = InsertAt(s, Max(T) + 1, val)
  BY DEF Inserted
<1> HIDE DEF T
<1> QED
  BY <1>5, <1>6, <1>7

\* A sequence with one more number in it
LEMMA InsertIs ==
  ASSUME NEW s \in Seq(Int), NEW val \in Int, NEW pos \in 0..Len(s)
  PROVE  /\ InsertAt(s, pos + 1, val) \in Seq(Int)
         /\ Len(InsertAt(s, pos + 1, val)) = Len(s) + 1
         /\ Opened(InsertAt(s, pos + 1, val), s, Len(s), pos, val)
<1> DEFINE m == Len(s)
           l == SubSeq(s, 1, pos)
           r == SubSeq(s, pos + 1, m)
<1>1. m \in Nat /\ pos \in Nat /\ pos <= m /\ \A i \in 1..m : s[i] \in Int
  BY LenProperties, ElementOfSeq
<1>2. l \in Seq(Int) /\ Len(l) = pos /\ \A i \in 1..pos : l[i] = s[i]
  BY <1>1, SubSeqProperties
<1>3. r \in Seq(Int) /\ Len(r) = m - pos /\ \A i \in 1..m - pos : r[i] = s[pos + i]
  <2>1. \A i \in pos + 1..m : s[i] \in Int
    BY <1>1
  <2> HIDE DEF m
  <2>2. /\ r \in Seq(Int) /\ Len(r) = (IF pos + 1 <= m THEN m - (pos + 1) + 1 ELSE 0)
        /\ \A i \in 1..m - (pos + 1) + 1 : r[i] = s[pos + 1 + i - 1]
    BY <1>1, <2>1, SubSeqProperties
  <2> QED
    BY <1>1, <2>2
<1>4. InsertAt(s, pos + 1, val) = l \o <<val>> \o r
  <2>1. \A k : InsertAt(s, k, val) = SubSeq(s, 1, k - 1) \o <<val>> \o SubSeq(s, k, Len(s))
    BY Zenon DEF InsertAt
  <2>2. PICK k : k = pos + 1 /\ k - 1 = pos
    OBVIOUS
  <2>3. InsertAt(s, k, val) = SubSeq(s, 1, k - 1) \o <<val>> \o SubSeq(s, k, Len(s))
    BY <2>1
  <2> QED
    BY <2>2, <2>3 DEF l, r, m
<1> HIDE DEF l, r, m
<1> DEFINE c == l \o <<val>>
<1>5. /\ c \in Seq(Int) /\ Len(c) = pos + 1
      /\ \A i \in 1..pos + 1 : c[i] = IF i <= pos THEN s[i] ELSE val
  <2>1. <<val>> \in Seq(Int) /\ Len(<<val>>) = 1 /\ <<val>>[1] = val
    OBVIOUS
  <2>2. /\ c \in Seq(Int) /\ Len(c) = pos + 1
        /\ \A i \in 1..pos + 1 : c[i] = IF i <= pos THEN l[i] ELSE <<val>>[i - pos]
    BY <1>2, <2>1, ConcatProperties
  <2> QED
    BY <1>1, <1>2, <2>1, <2>2
<1> HIDE DEF c
<1>6. /\ c \o r \in Seq(Int) /\ Len(c \o r) = m + 1
      /\ \A i \in 1..m + 1 : (c \o r)[i] = IF i <= pos + 1 THEN c[i] ELSE r[i - (pos + 1)]
  <2>1. /\ c \o r \in Seq(Int) /\ Len(c \o r) = Len(c) + Len(r)
        /\ \A i \in 1..Len(c) + Len(r) : (c \o r)[i] = IF i <= Len(c) THEN c[i] ELSE r[i - Len(c)]
    BY <1>3, <1>5, ConcatProperties
  <2>2. Len(c) + Len(r) = m + 1
    BY <1>1, <1>3, <1>5
  <2> QED
    BY <1>5, <2>1, <2>2
<1> DEFINE out == c \o r
<1> HIDE DEF out
<1>7. ASSUME NEW i \in 1..m + 1
      PROVE  /\ i <= pos => out[i] = s[i] /\ i \in 1..m
             /\ i = pos + 1 => out[i] = val
             /\ i > pos + 1 => out[i] = s[i - 1] /\ i - 1 \in 1..m
  <2>1. CASE i <= pos + 1
    <3>1. out[i] = c[i] /\ i \in 1..pos + 1
      BY <1>1, <1>6, <2>1 DEF out
    <3>2. i <= pos => c[i] = s[i] /\ i \in 1..m
      BY <1>1, <1>5, <3>1
    <3>3. i = pos + 1 => c[i] = val
      BY <1>1, <1>5, <3>1
    <3> QED
      BY <1>1, <2>1, <3>1, <3>2, <3>3
  <2>2. CASE i > pos + 1
    <3> DEFINE j == i - (pos + 1)
    <3>1. j \in 1..m - pos /\ pos + j = i - 1 /\ ~(i <= pos + 1) /\ ~(i <= pos) /\ i # pos + 1
      BY <1>1, <2>2
    <3>2. out[i] = r[j]
      BY <1>6, <3>1 DEF out
    <3>3. i - 1 \in 1..m
      BY <1>1, <2>2
    <3> HIDE DEF j
    <3>4. r[j] = s[pos + j]
      BY <1>3, <3>1
    <3> QED
      BY <3>1, <3>2, <3>3, <3>4
  <2> QED
    BY <1>1, <2>1, <2>2
<1>8. out \in Seq(Int) /\ Len(out) = m + 1
  BY <1>6 DEF out
<1>9. Opened(out, s, m, pos, val)
  BY <1>7 DEF Opened
<1>10. out = InsertAt(s, pos + 1, val)
  BY <1>4 DEF out, c
<1> QED
  BY <1>8, <1>9, <1>10 DEF m

\* A sample is put in its place among those that are kept.
LEMMA AddSampleSorts ==
  ASSUME NEW smp \in [values : Seq(Int), samplecount : Nat], NEW times \in Seq(Int), NEW val \in Int,
         smp.samplecount = Len(times),
         NEW order, Sorts(order, times, Len(times)),
         smp.values = Along(order, times, Min({kbest, Len(times)}))
  PROVE  LET all == Append(times, val)
             new == add_sample(smp, val)
         IN  /\ new \in [values : Seq(Int), samplecount : Nat] /\ all \in Seq(Int)
             /\ new.samplecount = Len(all)
             /\ \E q : /\ Sorts(q, all, Len(all))
                       /\ new.values = Along(q, all, Min({kbest, Len(all)}))
<1> DEFINE n == Len(times)
           all == Append(times, val)
           new == add_sample(smp, val)
           values == smp.values
<1>1. n \in Nat /\ kbest \in Nat /\ kbest > 0
  BY LenProperties, FcycAssumption
<1>2. /\ all \in Seq(Int) /\ Len(all) = n + 1 /\ all[n + 1] = val
      /\ \A i \in 1..n : all[i] = times[i] /\ times[i] \in Int
  <2>1. \A i \in 1..n : times[i] \in Int
    BY ElementOfSeq
  <2> QED
    BY <2>1, AppendProperties
<1>3. new.samplecount = n + 1
  BY DEF add_sample
<1>4. /\ values \in Seq(Int) /\ values = Along(order, times, Min({kbest, n}))
      /\ smp.samplecount = n
  OBVIOUS
<1>5. /\ \A i \in 1..n : order[i] \in 1..n /\ times[order[i]] \in Int
      /\ \A i, j \in 1..n : i < j => times[order[i]] <= times[order[j]]
  BY <1>2 DEF Sorts
<1>6. new.values = IF n < kbest THEN Inserted(values, val)
                   ELSE IF val < Last(values) THEN Inserted(Front(values), val)
                   ELSE values
  BY <1>4 DEF add_sample
<1> HIDE DEF n, all, new, values
<1>7. ASSUME NEW pos \in 0..n, pos # 0 => times[order[pos]] <= val,
             \A i \in 1..n : i > pos => val <= times[order[i]]
      PROVE  \E q \in [1..n + 1 -> 1..n + 1] :
               Opened(q, order, n, pos, n + 1) /\ Sorts(q, all, n + 1)
  <2> DEFINE q == [i \in 1..n + 1 |-> IF i <= pos THEN order[i]
                                      ELSE IF i = pos + 1 THEN n + 1 ELSE order[i - 1]]
  <2>1. q \in [1..n + 1 -> 1..n + 1]
    BY <1>1, <1>5
  <2>2. Opened(q, order, n, pos, n + 1)
    BY <1>1 DEF Opened
  <2> HIDE DEF q
  <2>3. ASSUME NEW i \in 1..n, i <= pos
        PROVE  times[order[i]] <= all[n + 1]
    <3>1. pos \in 1..n /\ times[order[pos]] <= val
      BY <1>1, <1>7, <2>3
    <3>2. i = pos \/ times[order[i]] <= times[order[pos]]
      BY <1>1, <1>5, <2>3, <3>1
    <3>3. times[order[i]] \in Int /\ times[order[pos]] \in Int /\ val \in Int
      BY <1>5, <3>1
    <3>4. \A x, y, z \in Int : x <= y /\ y <= z => x <= z
      OBVIOUS
    <3> QED
      BY <1>2, <3>1, <3>2, <3>3, <3>4, Zenon
  <2>4. Sorts(order, times, n)
    BY DEF n
  <2>5. all[n + 1] \in Int /\ \A i \in 1..n : i > pos => all[n + 1] <= times[order[i]]
    BY <1>2, <1>7
  <2>6. Sorts(q, all, n + 1)
    BY <1>1, <1>2, <2>1, <2>2, <2>3, <2>4, <2>5, SortedInsert
  <2> QED
    BY <2>1, <2>2, <2>6
<1>8. ASSUME NEW m \in 0..n, NEW base \in Seq(Int), base = Along(order, times, m),
             m < n => val <= times[order[m + 1]], NEW k, k = m + 1
      PROVE  \E p : /\ Sorts(p, all, n + 1)
                    /\ Inserted(base, val) = Along(p, all, k)
  <2>1. m \in Nat /\ m <= n /\ Len(base) = m /\ \A i \in 1..m : i \in 1..n /\ base[i] = times[order[i]]
    BY <1>1, <1>8 DEF Along
  <2>2. PICK pos \in 0..m :
           /\ Inserted(base, val) = InsertAt(base, pos + 1, val)
           /\ pos # 0 => base[pos] <= val
           /\ \A i \in 1..m : i > pos => val < base[i]
    BY <1>8, <2>1, StopsAt
  <2> DEFINE out == InsertAt(base, pos + 1, val)
  <2>3. out \in Seq(Int) /\ Len(out) = m + 1 /\ Opened(out, base, m, pos, val)
    <3>1. pos \in 0..Len(base)
      BY <2>1
    <3> QED
      BY <1>8, <2>1, <3>1, InsertIs
  <2>4. pos \in 0..n /\ (pos # 0 => times[order[pos]] <= val)
    BY <1>1, <2>1, <2>2
  <2>5. ASSUME NEW i \in 1..n, i > pos
        PROVE  val <= times[order[i]]
    <3>1. CASE i <= m
      <4>1. i \in 1..m /\ base[i] = times[order[i]]
        BY <2>1, <3>1
      <4>2. val < times[order[i]]
        BY <2>2, <2>5, <4>1
      <4> QED
        BY <1>5, <4>2
    <3>2. CASE i > m
      <4>1. m + 1 \in 1..n /\ val <= times[order[m + 1]]
        BY <1>1, <1>8, <2>1, <3>2
      <4>2. i = m + 1 \/ m + 1 < i
        BY <1>1, <2>1, <3>2
      <4>3. i # m + 1 => times[order[m + 1]] <= times[order[i]]
        BY <1>5, <4>1, <4>2
      <4>4. times[order[i]] \in Int /\ times[order[m + 1]] \in Int /\ val \in Int
        BY <1>5, <4>1
      <4>5. \A x, y, z \in Int : x <= y /\ y <= z => x <= z
        OBVIOUS
      <4> QED
        BY <4>1, <4>3, <4>4, <4>5, Zenon
    <3> QED
      BY <2>1, <3>1, <3>2
  <2>6. PICK q \in [1..n + 1 -> 1..n + 1] : Opened(q, order, n, pos, n + 1) /\ Sorts(q, all, n + 1)
    BY <1>7, <2>4, <2>5
  <2> HIDE DEF out
  <2>7. ASSUME NEW i \in 1..m + 1
        PROVE  out[i] = all[q[i]]
    <3>1. i \in 1..n + 1
      BY <1>1, <2>1
    <3>2. CASE i <= pos
      <4>1. i \in 1..m /\ i \in 1..n /\ out[i] = base[i] /\ q[i] = order[i]
        BY <2>1, <2>3, <2>6, <3>1, <3>2 DEF Opened
      <4> QED
        BY <1>2, <1>5, <2>1, <4>1
    <3>3. CASE i = pos + 1
      <4>1. out[i] = val /\ q[i] = n + 1
        BY <2>3, <2>6, <3>1, <3>3 DEF Opened
      <4> QED
        BY <1>2, <4>1
    <3>4. CASE i > pos + 1
      <4>1. i - 1 \in 1..m /\ i - 1 \in 1..n /\ out[i] = base[i - 1] /\ q[i] = order[i - 1]
        BY <2>1, <2>3, <2>6, <3>1, <3>4 DEF Opened
      <4> QED
        BY <1>2, <1>5, <2>1, <4>1
    <3> QED
      BY <1>1, <2>1, <3>2, <3>3, <3>4
  <2>8. out = [i \in 1..m + 1 |-> all[q[i]]]
    <3>1. out = [i \in 1..m + 1 |-> out[i]]
      BY <2>1, <2>3
    <3> QED
      BY <2>7, <3>1
  <2> QED
    <3>1. out = Along(q, all, m + 1)
      BY <2>8 DEF Along
    <3>2. Inserted(base, val) = Along(q, all, k)
      BY <1>8, <2>2, <3>1 DEF out
    <3> QED
      BY <2>6, <3>2
<1> DEFINE Kept == \E p : /\ Sorts(p, all, n + 1)
                         /\ new.values = Along(p, all, Min({kbest, n + 1}))
<1>9. ASSUME n < kbest
      PROVE  Kept
  <2>1. Min({kbest, n}) = n /\ Min({kbest, n + 1}) = n + 1
    <3>1. \A a, b \in Int : Min({a, b}) = IF a <= b THEN a ELSE b
      BY MinIs
    <3> QED
      BY <1>1, <1>9, <3>1
  <2>2. n \in 0..n /\ ~(n < n) /\ values = Along(order, times, n) /\ values \in Seq(Int)
    BY <1>1, <1>4, <2>1
  <2>3. PICK p : Sorts(p, all, n + 1) /\ Inserted(values, val) = Along(p, all, n + 1)
    BY <1>8, <2>2
  <2> QED
    BY <1>6, <1>9, <2>1, <2>3
<1>10. ASSUME n >= kbest
       PROVE  Kept
  <2>1. Min({kbest, n}) = kbest /\ Min({kbest, n + 1}) = kbest
    <3>1. \A a, b \in Int : Min({a, b}) = IF a <= b THEN a ELSE b
      BY MinIs
    <3>2. kbest \in Int /\ n \in Int /\ n + 1 \in Int /\ kbest <= n /\ kbest <= n + 1
      BY <1>1, <1>10
    <3> QED
      BY <3>1, <3>2
  <2>2. /\ Len(values) = kbest /\ values = Along(order, times, kbest)
        /\ \A i \in 1..kbest : values[i] = times[order[i]]
    <3>1. values = Along(order, times, kbest)
      BY <1>4, <2>1
    <3>2. \A i \in 1..kbest : times[order[i]] \in Int
      BY <1>1, <1>5, <1>10
    <3>3. kbest \in Nat
      BY <1>1
    <3> HIDE DEF Kept
    <3>4. /\ Len(Along(order, times, kbest)) = kbest
          /\ \A i \in 1..kbest : Along(order, times, kbest)[i] = times[order[i]]
      BY ONLY <3>2, <3>3, AlongType, Zenon
    <3> QED
      BY <3>1, <3>4
  <2>3. kbest \in 1..n /\ Last(values) = times[order[kbest]]
    BY <1>1, <1>10, <2>2 DEF Last
  <2>4. CASE val < Last(values)
    <3>1. Front(values) \in Seq(Int) /\ Front(values) = Along(order, times, kbest - 1)
      <4>1. Front(values) = SubSeq(values, 1, kbest - 1)
        BY <2>2, Zenon DEF Front
      <4>2. \A i \in 1..kbest - 1 : values[i] = times[order[i]] /\ values[i] \in Int
        BY <1>1, <1>5, <2>2, <2>3
      <4>3. SubSeq(values, 1, kbest - 1) = [i \in 1..kbest - 1 |-> values[i]]
        BY <1>1
      <4> QED
        BY <1>1, <4>1, <4>2, <4>3 DEF Along
    <3>2. kbest - 1 \in 0..n /\ kbest - 1 + 1 = kbest /\ val <= times[order[kbest]]
      BY <1>1, <1>5, <1>10, <2>3, <2>4
    <3>3. PICK m \in 0..n : m = kbest - 1
      BY <3>2
    <3>4. m + 1 = kbest
      BY <3>2, <3>3
    <3>5. PICK p : Sorts(p, all, n + 1) /\ Inserted(Front(values), val) = Along(p, all, kbest)
      BY <1>8, <3>1, <3>2, <3>3, <3>4
    <3> QED
      BY <1>1, <1>6, <1>10, <2>1, <2>4, <3>4, <3>5
  <2>5. CASE ~(val < Last(values))
    <3>1. new.values = values
      BY <1>1, <1>6, <1>10, <2>5
    <3>2. PICK pos \in 0..n :
             /\ pos >= kbest /\ pos # 0
             /\ times[order[pos]] <= val
             /\ \A i \in 1..n : i > pos => val <= times[order[i]]
      <4> DEFINE all_n == [i \in 1..n |-> times[order[i]]]
      <4>1. all_n \in Seq(Int) /\ Len(all_n) = n /\ \A i \in 1..n : all_n[i] = times[order[i]]
        BY <1>1, <1>5
      <4> HIDE DEF all_n
      <4>2. PICK pos \in 0..n :
               /\ pos # 0 => all_n[pos] <= val
               /\ \A i \in 1..n : i > pos => val < all_n[i]
        BY <1>1, <4>1, StopsAt
      <4>3. all_n[kbest] <= val /\ all_n[kbest] \in Int
        BY <1>5, <2>3, <2>5, <4>1
      <4>4. pos >= kbest
        BY <1>1, <2>3, <4>2, <4>3
      <4>5. pos \in 1..n /\ pos # 0
        BY <1>1, <4>4
      <4>6. \A i \in 1..n : i > pos => val <= times[order[i]]
        BY <1>5, <4>1, <4>2
      <4> QED
        BY <4>1, <4>2, <4>4, <4>5, <4>6
    <3>3. PICK q \in [1..n + 1 -> 1..n + 1] : Opened(q, order, n, pos, n + 1) /\ Sorts(q, all, n + 1)
      BY <1>7, <3>2
    <3>4. ASSUME NEW i \in 1..kbest
          PROVE  all[q[i]] = times[order[i]]
      <4>1. i \in 1..n /\ i \in 1..n + 1 /\ i <= pos
        BY <1>1, <2>3, <3>2
      <4>2. q[i] = order[i]
        BY <3>3, <4>1 DEF Opened
      <4> QED
        BY <1>2, <1>5, <4>1, <4>2
    <3>5. values = Along(q, all, kbest)
      BY <2>2, <3>4 DEF Along
    <3> QED
      BY <2>1, <3>1, <3>3, <3>5
  <2> QED
    BY <2>4, <2>5
<1>11. Kept
  <2>1. n < kbest \/ n >= kbest
    BY <1>1
  <2> HIDE DEF Kept
  <2> QED
    BY <1>9, <1>10, <2>1
<1>12. new \in [values : Seq(Int), samplecount : Nat]
  <2>1. PICK p : Sorts(p, all, n + 1) /\ new.values = Along(p, all, Min({kbest, n + 1}))
    BY <1>11
  <2>2. PICK k \in Nat : k = Min({kbest, n + 1}) /\ k <= n + 1
    <3>1. \A a, b \in Int : Min({a, b}) = IF a <= b THEN a ELSE b
      BY MinIs
    <3> QED
      BY <1>1, <3>1
  <2>3. \A i \in 1..k : all[p[i]] \in Int
    <3> SUFFICES ASSUME NEW i \in 1..k
                 PROVE  all[p[i]] \in Int
      OBVIOUS
    <3>1. i \in 1..n + 1 /\ p[i] \in 1..n + 1
      BY <1>1, <2>1, <2>2 DEF Sorts
    <3> QED
      BY <1>1, <1>2, <3>1
  <2>4. new.values \in Seq(Int)
    <3>1. new.values = Along(p, all, k)
      BY <2>1, <2>2
    <3>2. Along(p, all, k) \in Seq(Int)
      BY <2>2, <2>3, AlongType
    <3> QED
      BY <3>1, <3>2
  <2>5. new = [values |-> new.values, samplecount |-> new.samplecount]
    BY DEF new, add_sample
  <2> QED
    BY <1>1, <1>3, <2>4, <2>5
<1> QED
  BY <1>2, <1>3, <1>11, <1>12 DEF n, all, new

\* No times are in order.
LEMMA NoSamples ==
  \E order : Sorts(order, <<>>, 0) /\ <<>> = Along(order, <<>>, Min({kbest, 0}))
<1> DEFINE none == [i \in 1..0 |-> i]
<1>1. Min({kbest, 0}) = 0
  BY FcycAssumption, MinIs
<1>2. Sorts(none, <<>>, 0) /\ Along(none, <<>>, 0) = <<>>
  BY DEF Sorts, Along
<1> QED
  BY <1>1, <1>2

\* Every step keeps the times of a pass, and the smallest of them.
LEMMA SamplingHolds ==
  ASSUME \A d \in Durations : d + cyc_per_tick < HalfWord * HalfWord,
         Types, Sampling, [Next]_vars
  PROVE  Sampling'
<1>1. CASE sampler' = sampler /\ spent' = spent
  BY <1>1 DEF Sampling
<1>2. CASE sampler' = init_sampler /\ spent' = <<>>
  <2>1. sampler' = [values |-> <<>>, samplecount |-> 0] /\ Len(spent') = 0
    BY <1>2 DEF init_sampler
  <2>2. sampler' \in [values : Seq(Int), samplecount : Nat] /\ spent' \in Seq(Int)
    BY <1>2, <2>1
  <2> QED
    BY <1>2, <2>1, <2>2, NoSamples DEF Sampling
<1>3. ASSUME SampleEnds
      PROVE  Sampling'
  <2>1. PICK start \in Counts, d \in Durations, inside \in 0..1, edge \in 0..1 :
           LET stop == start + d + inside * cyc_per_tick
               cyc  == get_comp_counter(access_counter(start), access_counter(stop), inside, edge)
           IN  /\ sampler' = add_sample(sampler, cyc)
               /\ spent' = Append(spent, d - edge * cyc_per_tick)
    BY <1>3 DEF SampleEnds
  <2> DEFINE more == inside * cyc_per_tick
             stop == start + d + more
             less == edge * cyc_per_tick
             val  == d - less
  <2>2. start \in Nat /\ d \in Nat /\ more \in Nat /\ more <= cyc_per_tick /\ less \in Nat
    BY MdriverAssumption, FcycAssumption
  <2>3. get_comp_counter(access_counter(start), access_counter(stop), inside, edge) = val
    <3> DEFINE H2 == HalfWord * HalfWord
    <3>1. stop \in Nat /\ stop - start = d + more /\ d + more \in Nat
      BY <2>2
    <3>2. H2 \in Nat /\ d + more < H2
      <4>1. HalfWord \in Nat /\ cyc_per_tick \in Nat /\ d + cyc_per_tick < HalfWord * HalfWord
        BY FcycAssumption
      <4>2. H2 \in Nat /\ d + cyc_per_tick < H2
        BY <4>1
      <4> HIDE DEF H2, more
      <4> QED
        BY <2>2, <4>1, <4>2
    <3>3. get_counter(access_counter(start), access_counter(stop)) = (stop - start) % H2
      <4> HIDE DEF stop
      <4> QED
        BY <2>2, <3>1, CounterIsExact
    <3>4. (d + more) % H2 = d + more
      <4> HIDE DEF H2, more
      <4> QED
        BY <3>1, <3>2, SmallRemainder
    <3>5. get_counter(access_counter(start), access_counter(stop)) = d + more
      <4> HIDE DEF stop, more, H2
      <4> QED
        BY <3>1, <3>3, <3>4
    <3>6. (inside + edge) * cyc_per_tick = more + less
      BY FcycAssumption
    <3>7. get_comp_counter(access_counter(start), access_counter(stop), inside, edge)
            = d + more - (more + less)
      <4> DEFINE from == access_counter(start)   to == access_counter(stop)
      <4> HIDE DEF from, to
      <4>1. get_comp_counter(from, to, inside, edge) =
               get_counter(from, to) - (inside + edge) * cyc_per_tick
        BY DEF get_comp_counter
      <4>2. get_counter(from, to) = d + more
        BY <3>5 DEF from, to
      <4>3. PICK a, b : a = get_counter(from, to) /\ b = (inside + edge) * cyc_per_tick
        OBVIOUS
      <4>4. get_comp_counter(from, to, inside, edge) = a - b /\ a = d + more
        BY <4>1, <4>2, <4>3
      <4>5. b = more + less
        BY <3>6, <4>3
      <4> HIDE DEF more, less
      <4>6. get_comp_counter(from, to, inside, edge) = d + more - (more + less)
        BY <2>2, <4>4, <4>5
      <4> QED
        BY <4>6 DEF from, to
    <3> HIDE DEF stop, more, less
    <3> QED
      BY <2>2, <3>7 DEF val
  <2>4. sampler' = add_sample(sampler, val) /\ spent' = Append(spent, val) /\ val \in Int
    <3> HIDE DEF more, less
    <3>1. val \in Int
      BY <2>2
    <3> HIDE DEF val
    <3> QED
      BY <2>1, <2>3, <3>1 DEF more, less, stop, val
  <2> HIDE DEF val
  <2>5. PICK order : /\ Sorts(order, spent, Len(spent))
                     /\ sampler.values = Along(order, spent, Min({kbest, Len(spent)}))
    BY DEF Sampling
  <2>6. PICK smp, times : smp = sampler /\ times = spent
    OBVIOUS
  <2>7. /\ smp \in [values : Seq(Int), samplecount : Nat] /\ times \in Seq(Int)
        /\ smp.samplecount = Len(times)
        /\ Sorts(order, times, Len(times))
        /\ smp.values = Along(order, times, Min({kbest, Len(times)}))
    BY <2>5, <2>6 DEF Sampling
  <2>8. LET all == Append(times, val)
            new == add_sample(smp, val)
        IN  /\ new \in [values : Seq(Int), samplecount : Nat] /\ all \in Seq(Int)
            /\ new.samplecount = Len(all)
            /\ \E q : /\ Sorts(q, all, Len(all))
                      /\ new.values = Along(q, all, Min({kbest, Len(all)}))
    BY <2>4, <2>7, AddSampleSorts
  <2>9. sampler' = add_sample(smp, val) /\ spent' = Append(times, val)
    BY <2>4, <2>6
  <2> QED
    BY <2>8, <2>9 DEF Sampling
<1>4. \/ sampler' = sampler /\ spent' = spent
      \/ sampler' = init_sampler /\ spent' = <<>>
      \/ SampleEnds
  <2>1. CASE UNCHANGED vars
    BY <2>1 DEF vars, measureVars
  <2>2. CASE MemInit \/ OpenTrace \/ ReadRequest \/ TraceRead \/ BeginPass \/ Report
    <3>1. CASE MemInit \/ OpenTrace \/ ReadRequest \/ TraceRead
      BY <3>1, Zenon DEF MemInit, OpenTrace, ReadRequest, TraceRead, Ends, measureVars
    <3>2. CASE BeginPass \/ Report
      BY <3>2, Zenon DEF BeginPass, Report, Ends, Reject, measureVars
    <3> QED
      BY <2>2, <3>1, <3>2
  <2>3. CASE \/ valid_malloc \/ valid_realloc \/ valid_free
             \/ plain_malloc \/ plain_realloc \/ plain_free
    <3>1. CASE valid_malloc
      BY <3>1, Zenon DEF valid_malloc, Reject, Accept, GivesUp, measureVars
    <3>2. CASE valid_realloc
      BY <3>2, ZenonT(30) DEF valid_realloc, Reject, Accept, GivesUp, measureVars
    <3>3. CASE valid_free
      BY <3>3, Zenon DEF valid_free, Reject, Accept, GivesUp, measureVars
    <3>4. CASE plain_malloc \/ plain_realloc \/ plain_free
      BY <3>4, Zenon DEF plain_malloc, plain_realloc, plain_free, GivesUp, Answered, measureVars
    <3> QED
      BY <2>3, <3>1, <3>2, <3>3, <3>4
  <2>4. CASE ValidEnds \/ UtilEnds \/ SpeedEnds
    BY <2>4 DEF ValidEnds, UtilEnds, SpeedEnds, MeasureTime, measureVars
  <2> QED
    BY <2>1, <2>2, <2>3, <2>4 DEF Next
<1> QED
  BY <1>1, <1>2, <1>3, <1>4

(***************************************************************************)
(* What fcyc returns is among the kbest smallest of all the times, in      *)
(* order, and timer ticks inside a pass do not count (fcyc.c:66-89,        *)
(* clock.c:53-71, 252-278), if no pass outlasts the cycle counter: its     *)
(* 2^64 cycles are the hypothesis.                                         *)
(***************************************************************************)
THEOREM KBest ==
  ASSUME \A d \in Durations : d + cyc_per_tick < HalfWord * HalfWord
  PROVE  Spec => []KBestKept
<1>1. Init => Sampling
  <2> SUFFICES ASSUME Init
               PROVE  Sampling
    OBVIOUS
  <2>1. sampler = [values |-> <<>>, samplecount |-> 0] /\ spent = <<>> /\ Len(spent) = 0
    BY DEF Init, init_sampler
  <2>2. sampler \in [values : Seq(Int), samplecount : Nat] /\ spent \in Seq(Int)
    BY <2>1
  <2> QED
    BY <2>1, <2>2, NoSamples DEF Sampling
<1>2. IInv /\ Sampling /\ [Next]_vars => Sampling'
  BY SamplingHolds DEF IInv
<1>3. Sampling => KBestKept
  BY DEF Sampling, KBestKept, Sorts, Along
<1> QED
  BY <1>1, <1>2, <1>3, Invariance, PTL DEF Spec
=============================================================================
