------------------------------ MODULE Mdriver ------------------------------
(***************************************************************************)
(* The allocator test driver src/lab7/mdriver.c with the memory system     *)
(* memlib.c and the timers of fsecs.c: it reads each trace, checks the     *)
(* allocator's answers against its list of ranges, measures utilization    *)
(* and time, and reports.  The allocator is any program behind mm_init,    *)
(* mm_malloc, mm_realloc and mm_free; a step is one call with the checks   *)
(* that follow it.                                                         *)
(***************************************************************************)
EXTENDS Fcyc, FiniteSets, FiniteSetsExt

CONSTANTS
  Suites,      \* the lists of trace files that main may be given
  ALIGNMENT, MAX_HEAP,
  HeapLo,      \* where the memory of mem_init lies
  Runs,        \* how often ftimer_gettod calls its function: 10 in fsecs
  Counts,      \* readings of the cycle counter when a sample starts
  Durations    \* cycles that a pass may take

ASSUME MdriverAssumption ==
  /\ ALIGNMENT \in Nat \ {0} /\ MAX_HEAP \in Nat /\ Runs \in Nat \ {0}
  /\ HeapLo \in Nat \ {0} /\ HeapLo % ALIGNMENT = 0
  /\ Counts \cup Durations \subseteq Nat

\* A block is owned after the first n requests: the last one for it is no free.
Owned(ops, n, id) == \E k \in 1..n : /\ ops[k].type # "f" /\ ops[k].index = id
                                     /\ \A j \in k+1..n : ops[j].index # id

\* What checktrace.pl demands of the requests of a file, and add_range of sizes
Consistent(ops) ==
  \A n \in DOMAIN ops :
    /\ ops[n].type = "a" => ~Owned(ops, n - 1, ops[n].index)
    /\ ops[n].type \in {"r", "f"} => Owned(ops, n - 1, ops[n].index)
    /\ ops[n].type \in {"a", "r"} => ops[n].size > 0

TraceFile == [num_ids : Nat, num_ops : Nat,
              lines : Seq([type : STRING, index : Nat, size : Nat])]

ASSUME SuitesAssumption ==
  \A files \in Suites : /\ files \in Seq(TraceFile) /\ files # <<>>
                        /\ \A t \in DOMAIN files : Consistent(files[t].lines)

VARIABLES
  opt,      \* the files, whether -l is given, the timer of config.h
  at,       \* where main is: the allocator under test, trace, pass,
            \* repetition of it, request
  trace,    \* trace_t
  ranges,   \* the list of ranges, newest first
  mem_brk,
  mem,      \* the bytes of the heap
  total,    \* total_size and max_total_size of eval_mm_util
  sampler,  \* of fcyc
  spent,    \* the times it should have measured, as KEEP_SAMPLES would log them
  errors, mm_stats,
  outcome,  \* what main has printed, or how it ended
  fault     \* what the allocator has done wrong in this trace

mainVars    == <<opt, trace, errors, mm_stats, outcome>>
checkVars   == <<ranges, mem, fault>>
measureVars == <<total, sampler, spent>>
vars == <<mainVars, at, checkVars, mem_brk, measureVars>>

NULL    == 0
HeapEnd == HeapLo + MAX_HEAP
Junk    == -1            \* a byte that is the fill of no block
Ids     == UNION {{l.index : l \in ToSet(f.lines)} : f \in UNION {ToSet(s) : s \in Suites}}

\* The low byte of a block's number, and a byte read through a char pointer
Fill(index) == index % 256
char(byte)  == IF byte >= 128 THEN byte - 256 ELSE byte

\* Requests op k that still own their block after the first n requests
LiveOps(n) ==
  {k \in 1..n : /\ trace.ops[k].type # "f"
                /\ \A j \in k+1..n : trace.ops[j].index # trace.ops[k].index}

\* The call of a pass that a request is part of; a pointer remembers it.
Call(i)  == [at EXCEPT !.i = i]
NoCall   == [pc |-> "none", testing |-> "mm", t |-> 0, pass |-> "valid", rep |-> 0, i |-> 0]
NoPtr    == [addr |-> NULL, from |-> NoCall]
NoTrace  == [num_ids |-> 0, num_ops |-> 0, ops |-> <<>>,
             blocks |-> [id \in Ids |-> NoPtr], block_sizes |-> [id \in Ids |-> 0]]
NoMemory == [a \in HeapLo..HeapEnd - 1 |-> Junk]
NoStats  == [valid |-> FALSE, hwm |-> 0, heapsize |-> 0]

First(pc, testing, t) == [pc |-> pc, testing |-> testing, t |-> t,
                          pass |-> "valid", rep |-> 1, i |-> 1]

Init ==
  /\ opt \in [files : Suites, run_libc : BOOLEAN, timer : {"gettod", "fcyc"}]
  /\ at = IF opt.run_libc THEN First("open", "libc", 1) ELSE First("init", "mm", 1)
  /\ trace = NoTrace /\ ranges = <<>> /\ mem_brk = HeapLo /\ mem = NoMemory
  /\ total = [size |-> 0, max |-> 0] /\ sampler = init_sampler /\ spent = <<>>
  /\ errors = 0 /\ mm_stats = [k \in DOMAIN opt.files |-> NoStats]
  /\ outcome = "running" /\ fault = {}

\* exit(1), a failed assertion, or a write behind an array
Ends(how) ==
  /\ outcome' = how /\ at' = [at EXCEPT !.pc = "exit"]
  /\ UNCHANGED <<opt, trace, errors, mm_stats, checkVars, mem_brk, measureVars>>

At(pc) == at.pc = pc

\* The loops of main over the traces: the next one, or what follows the loop
NextTrace == IF at.t < Len(opt.files) THEN First("open", at.testing, at.t + 1)
             ELSE IF at.testing = "libc" THEN First("init", "mm", 1)
             ELSE First("report", "mm", 1)

Pass(pass, rep) == [at EXCEPT !.pc = "begin", !.pass = pass, !.rep = rep, !.i = 1]

MemInit ==
  /\ At("init")
  /\ \/ Ends("failed")
     \/ /\ at' = First("open", "mm", 1) /\ mem_brk' = HeapLo
        /\ UNCHANGED <<mainVars, checkVars, measureVars>>

----------------------------------------------------------------------------
(* read_trace *)

File == opt.files[at.t]

OpenTrace ==
  /\ At("open")
  /\ \/ Ends("failed")
     \/ /\ trace' = [NoTrace EXCEPT !.num_ids = File.num_ids, !.num_ops = File.num_ops]
        /\ at' = [at EXCEPT !.pc = "read", !.i = 1]
        /\ UNCHANGED <<opt, errors, mm_stats, outcome, checkVars, mem_brk, measureVars>>

\* A bogus type ends the driver; nothing tests the number of lines yet.
ReadRequest ==
  /\ At("read") /\ at.i <= Len(File.lines)
  /\ LET line == File.lines[at.i] IN
     \/ line.type \notin {"a", "r", "f"} /\ Ends("failed")
     \/ line.type \in {"a", "r", "f"} /\ at.i > trace.num_ops /\ Ends("undefined")
     \/ /\ line.type \in {"a", "r", "f"} /\ at.i <= trace.num_ops
        /\ trace' = [trace EXCEPT !.ops = Append(@, line)]
        /\ at' = [at EXCEPT !.i = @ + 1]
        /\ UNCHANGED <<opt, errors, mm_stats, outcome, checkVars, mem_brk, measureVars>>

\* max_index starts at 0 and leaves out the requests to free.
max_index == Max({0} \cup {op.index : op \in {o \in ToSet(trace.ops) : o.type # "f"}})

TraceRead ==
  /\ At("read") /\ at.i > Len(File.lines)
  /\ \/ /\ max_index # trace.num_ids - 1 \/ trace.num_ops # Len(trace.ops)
        /\ Ends("aborted")
     \/ /\ max_index = trace.num_ids - 1 /\ trace.num_ops = Len(trace.ops)
        /\ at' = Pass("valid", 1)
        /\ UNCHANGED <<mainVars, checkVars, mem_brk, measureVars>>

----------------------------------------------------------------------------
(* A pass over the trace.  The memory system gives the allocator what it    *)
(* asks for up to MAX_HEAP and takes nothing back.                          *)

mem_sbrk(brk) == {b \in brk..HeapEnd : (b - HeapLo) % ALIGNMENT = 0}

Doing(type) == /\ At("ops") /\ at.i <= Len(trace.ops)
               /\ trace.ops[at.i].type = type
Checked     == at.testing = "mm" /\ at.pass = "valid"
index       == trace.ops[at.i].index
size        == trace.ops[at.i].size
NextOp      == at' = [at EXCEPT !.i = @ + 1]

\* Mutant of Reject: a path that reports nothing.
RejectSilently == /\ at' = NextTrace
                  /\ UNCHANGED <<opt, errors, mm_stats, outcome, measureVars>>

\* malloc_error, and `return 0` of eval_mm_valid
Reject == /\ errors' = errors + 1 /\ at' = NextTrace
          /\ UNCHANGED <<opt, mm_stats, outcome, measureVars>>

Accept == NextOp /\ UNCHANGED <<opt, errors, mm_stats, outcome, measureVars>>

\* mem_reset_brk and mm_init.  A pass reads no byte that it has not filled, so
\* what earlier passes have left in the heap is forgotten.
BeginPass ==
  /\ At("begin")
  /\ \/ /\ at.testing = "libc"
        /\ at' = [at EXCEPT !.pc = "ops"]
        /\ UNCHANGED <<mainVars, checkVars, mem_brk, measureVars>>
     \/ /\ at.testing = "mm" /\ at.pass # "valid" /\ Ends("failed")
     \/ \E brk \in mem_sbrk(HeapLo) :
        /\ at.testing = "mm" /\ mem_brk' = brk /\ mem' = NoMemory
        /\ ranges' = IF Checked THEN <<>> ELSE ranges
        /\ \/ /\ Checked /\ Reject
              /\ fault' = {"init"} /\ UNCHANGED trace
           \/ /\ at' = [at EXCEPT !.pc = "ops"]
              /\ fault' = IF Checked THEN {} ELSE fault
              /\ total' = IF at.pass = "util" THEN [size |-> 0, max |-> 0] ELSE total
              /\ UNCHANGED <<mainVars, sampler, spent>>

----------------------------------------------------------------------------
(* eval_mm_valid *)

\* Mutant of add_range: the last byte is not tested.
add_rangeLow(rs, lo, n, brk) ==
  /\ lo % ALIGNMENT = 0 /\ HeapLo <= lo /\ lo + n - 1 < brk
  /\ \A k \in DOMAIN rs : lo \notin rs[k].lo..rs[k].hi

\* Mutant of add_range: the end of the heap is not tested.
add_rangeBeyond(rs, lo, n, brk) ==
  LET hi == lo + n - 1 IN
  /\ lo % ALIGNMENT = 0
  /\ \A k \in DOMAIN rs : lo \notin rs[k].lo..rs[k].hi /\ hi \notin rs[k].lo..rs[k].hi

\* add_range accepts lo..lo+n-1 in the heap that ends at brk.
add_range(rs, lo, n, brk) ==
  LET hi == lo + n - 1 IN
  /\ lo % ALIGNMENT = 0
  /\ HeapLo <= lo /\ hi < brk
  /\ \A k \in DOMAIN rs : lo \notin rs[k].lo..rs[k].hi /\ hi \notin rs[k].lo..rs[k].hi

\* Mutant of remove_range: the last record of the list stays.
remove_rangeKeepsLast(rs, lo) ==
  IF Len(rs) < 2 THEN rs ELSE RemoveFirstMatch(rs, LAMBDA r : r.lo = lo)

remove_range(rs, lo) == RemoveFirstMatch(rs, LAMBDA r : r.lo = lo)

\* The payload of each block, as the requests so far have left it
live == [id \in Ids |->
           IF Checked /\ \E k \in LiveOps(at.i - 1) : trace.ops[k].index = id
           THEN [ptr |-> trace.blocks[id].addr, size |-> trace.block_sizes[id]]
           ELSE [ptr |-> 0, size |-> 0]]

A == INSTANCE Allocator WITH live <- live, brk <- mem_brk, Handles <- Ids,
                             HeapLo <- HeapLo, MaxHeap <- HeapEnd,
                             ALIGNMENT <- ALIGNMENT

\* What is wrong with the answer b for block id: "around" is an overlap with
\* payloads that lie strictly inside b only.
Wrong(id, b, brk) ==
  LET inside(k) == b.ptr < live[k].ptr /\ live[k].ptr + live[k].size < b.ptr + b.size
  IN  IF b.ptr = NULL \/ ~A!Fits(b, brk) THEN {"bad"}
      ELSE IF ~A!Overlaps(id, b) THEN {}
      ELSE IF \A k \in A!InUse \ {id} : A!Apart(b, live[k]) \/ inside(k) THEN {"around"}
      ELSE {"bad"}

Answers == 0..HeapEnd + 1

\* The new range, memset, and the record of the region
Remember(rs, p) ==
  /\ ranges' = Cons([lo |-> p, hi |-> p + size - 1], rs)
  /\ mem' = [a \in DOMAIN mem |-> IF a \in p..p + size - 1 THEN Fill(index) ELSE mem[a]]
  /\ trace' = [trace EXCEPT !.blocks[index] = [addr |-> p, from |-> at],
                            !.block_sizes[index] = size]

valid_malloc ==
  /\ Doing("a") /\ Checked
  /\ \E p \in Answers, brk \in mem_sbrk(mem_brk) :
       /\ mem_brk' = brk
       /\ fault' = fault \cup Wrong(index, [ptr |-> p, size |-> size], brk)
       /\ \/ /\ p = NULL \/ ~add_range(ranges, p, size, brk)
             /\ Reject /\ UNCHANGED <<trace, ranges, mem>>
          \/ /\ p # NULL /\ add_range(ranges, p, size, brk)
             /\ Remember(ranges, p) /\ Accept

\* The first bytes of the new block, after a realloc that has kept them or not
Copy(kept) ==
  [j \in 0..Min({size, trace.block_sizes[index]}) - 1 |->
     IF kept \/ j > 0 THEN mem[trace.blocks[index].addr + j] ELSE Junk]

\* The old range goes before the new one is tested; the comparison is with a
\* char, so that it fails for every number with bit 7 set.
valid_realloc ==
  /\ Doing("r") /\ Checked
  /\ \E newp \in Answers, brk \in mem_sbrk(mem_brk), kept \in BOOLEAN :
       LET rs   == remove_range(ranges, trace.blocks[index].addr)
           data == Copy(kept)
           fits == newp # NULL /\ add_range(rs, newp, size, brk)
           same == \A j \in DOMAIN data : char(data[j]) = Fill(index)
       IN
       /\ mem_brk' = brk
       /\ fault' = fault \cup Wrong(index, [ptr |-> newp, size |-> size], brk)
                         \cup (IF kept THEN {} ELSE {"lost"})
       /\ \/ /\ newp = NULL
             /\ Reject /\ UNCHANGED <<trace, ranges, mem>>
          \/ /\ newp # NULL /\ ~fits
             /\ ranges' = rs
             /\ Reject /\ UNCHANGED <<trace, mem>>
          \/ /\ fits /\ ~same
             /\ ranges' = Cons([lo |-> newp, hi |-> newp + size - 1], rs)
             /\ Reject /\ UNCHANGED <<trace, mem>>
          \/ fits /\ same /\ Remember(rs, newp) /\ Accept

valid_free ==
  /\ Doing("f") /\ Checked
  /\ ranges' = remove_range(ranges, trace.blocks[index].addr)
  /\ Accept /\ UNCHANGED <<trace, mem, mem_brk, fault>>

----------------------------------------------------------------------------
(* eval_mm_util, eval_mm_speed, eval_libc_valid and eval_libc_speed: the   *)
(* calls alone.  A pointer is known by the call that returned it.          *)

Unchecked == ~Checked

\* app_error or unix_error; eval_libc_valid counts an error before it.
GivesUp ==
  /\ errors' = IF at.pass = "valid" THEN errors + 1 ELSE errors
  /\ outcome' = "failed" /\ at' = [at EXCEPT !.pc = "exit"]
  /\ UNCHANGED <<opt, trace, mm_stats, checkVars, mem_brk, measureVars>>

\* eval_mm_util keeps the sum of the sizes in use and its largest value.
Counted(more) ==
  total' = IF at.pass # "util" THEN total
           ELSE [size |-> total.size + more, max |-> Max({total.max, total.size + more})]

Answered ==
  /\ \E brk \in mem_sbrk(mem_brk) :
       mem_brk' = IF at.testing = "mm" THEN brk ELSE mem_brk
  /\ trace' = [trace EXCEPT !.blocks[index] = [addr |-> NULL, from |-> at],
                            !.block_sizes[index] = IF at.pass = "util" THEN size ELSE @]
  /\ NextOp
  /\ UNCHANGED <<opt, errors, mm_stats, outcome, checkVars, sampler, spent>>

plain_malloc ==
  /\ Doing("a") /\ Unchecked
  /\ GivesUp \/ (Answered /\ Counted(size))

\* Mutant of plain_realloc: the pointer to a block that has moved is not kept.
plain_reallocForgets ==
  /\ Doing("r") /\ Unchecked
  /\ GivesUp \/ (Accept /\ UNCHANGED <<trace, checkVars, mem_brk>>)

plain_realloc ==
  /\ Doing("r") /\ Unchecked
  /\ GivesUp \/ (Answered /\ Counted(size - trace.block_sizes[index]))

\* Mutant of plain_free: what is freed stays in the sum.
plain_freeCounts ==
  /\ Doing("f") /\ Unchecked
  /\ Accept /\ UNCHANGED <<trace, checkVars, mem_brk>>

\* max_total_size is not looked at: the sum falls.
plain_free ==
  /\ Doing("f") /\ Unchecked
  /\ Counted(-trace.block_sizes[index])
  /\ NextOp
  /\ UNCHANGED <<mainVars, checkVars, mem_brk, sampler, spent>>

----------------------------------------------------------------------------
(* main between the passes: the first that is valid is followed by the     *)
(* others.                                                                 *)

PassOver(pass) == At("ops") /\ at.i > Len(trace.ops) /\ at.pass = pass

MeasureTime == sampler' = init_sampler /\ spent' = <<>> /\ at' = Pass("speed", 1)

ValidEnds ==
  /\ PassOver("valid")
  /\ \/ /\ at.testing = "libc" /\ MeasureTime /\ UNCHANGED mm_stats
     \/ /\ at.testing = "mm" /\ at' = Pass("util", 1)
        /\ mm_stats' = [mm_stats EXCEPT ![at.t].valid = TRUE]
        /\ UNCHANGED <<sampler, spent>>
  /\ UNCHANGED <<opt, trace, errors, outcome, checkVars, mem_brk, total>>

UtilEnds ==
  /\ PassOver("util")
  /\ mm_stats' = [mm_stats EXCEPT ![at.t].hwm = total.max,
                                  ![at.t].heapsize = mem_brk - HeapLo]
  /\ MeasureTime
  /\ UNCHANGED <<opt, trace, errors, outcome, checkVars, mem_brk, total>>

\* ftimer_gettod: Runs repetitions
SpeedEnds ==
  /\ PassOver("speed") /\ opt.timer = "gettod"
  /\ at' = IF at.rep < Runs THEN Pass("speed", at.rep + 1) ELSE NextTrace
  /\ UNCHANGED <<mainVars, checkVars, mem_brk, measureVars>>

\* fcyc: a sample each time, compensated for the ticks that came in between
SampleEnds ==
  /\ PassOver("speed") /\ opt.timer = "fcyc"
  /\ \E start \in Counts, d \in Durations, inside, edge \in 0..1 :
       LET stop == start + d + inside * cyc_per_tick
           cyc  == get_comp_counter(access_counter(start), access_counter(stop), inside, edge)
       IN  /\ sampler' = add_sample(sampler, cyc)
           /\ spent' = Append(spent, d - edge * cyc_per_tick)
  /\ at' = IF Goes_on(sampler') THEN Pass("speed", at.rep + 1) ELSE NextTrace
  /\ UNCHANGED <<mainVars, checkVars, mem_brk, total>>

\* The performance index, or the number of errors
Report ==
  /\ At("report")
  /\ Ends(IF errors = 0 THEN "index" ELSE "errors")

Next == \/ MemInit \/ OpenTrace \/ ReadRequest \/ TraceRead \/ BeginPass
        \/ valid_malloc \/ valid_realloc \/ valid_free
        \/ plain_malloc \/ plain_realloc \/ plain_free
        \/ ValidEnds \/ UtilEnds \/ SpeedEnds \/ SampleEnds \/ Report

Spec == Init /\ [][Next]_vars
----------------------------------------------------------------------------
(* Properties. *)

LiveBytes(n) == MapThenSumSet(LAMBDA k : trace.ops[k].size, LiveOps(n))

\* Every variable has its type.
TypeOK ==
  /\ at.pc \in {"init", "open", "read", "begin", "ops", "report", "exit"}
  /\ at.testing \in {"libc", "mm"} /\ at.pass \in {"valid", "util", "speed"}
  /\ at.t \in DOMAIN opt.files /\ at.rep \in 1..Max({Runs, maxsamples})
  /\ \A k \in DOMAIN ranges : HeapLo <= ranges[k].lo /\ ranges[k].hi < HeapEnd
  /\ mem_brk \in HeapLo..HeapEnd
  /\ DOMAIN mem = HeapLo..HeapEnd - 1
  /\ \A a \in DOMAIN mem : mem[a] \in {Junk} \cup {Fill(id) : id \in Ids}
  /\ errors \in Nat /\ fault \subseteq {"init", "bad", "around", "lost"}
  /\ outcome \in {"running", "index", "errors", "failed", "aborted", "undefined"}

(***************************************************************************)
(* "We use the range list to detect any overlapping allocated blocks"      *)
(* (mdriver.c:341): while a trace is checked, the list holds the range of  *)
(* every block in use, once, and nothing of a freed or moved block or of   *)
(* an earlier trace, even one that was given up half way.                  *)
(***************************************************************************)
RangesAreLive ==
  Checked /\ At("ops") =>
    /\ Len(ranges) = Cardinality(A!InUse)
    /\ ToSet(ranges) = {[lo |-> live[id].ptr, hi |-> live[id].ptr + live[id].size - 1] :
                          id \in A!InUse}

(***************************************************************************)
(* The verdict of eval_mm_valid is right, in both directions but for two   *)
(* cases: a trace that passes had no wrong answer, unless a payload around *)
(* an older one (mdriver.c:379), and a trace that fails had one, unless    *)
(* it was the realloc of a number with bit 7 set (mdriver.c:626).          *)
(***************************************************************************)
VerdictIsExact ==
  [][Checked =>
       /\ mm_stats' # mm_stats => fault \subseteq {"around"}
       /\ errors' # errors =>
            fault' # {} \/ (trace.ops[at.i].type = "r" /\ Fill(index) >= 128)]_vars

(***************************************************************************)
(* No pass hands the allocator a pointer of an earlier pass, whose heap is *)
(* gone, or one that a realloc has replaced: the pointer of a request to   *)
(* free or realloc is what the last request for that block returned.       *)
(***************************************************************************)
FreshPointers ==
  At("ops") /\ at.i <= Len(trace.ops) /\ trace.ops[at.i].type # "a" =>
    \A k \in LiveOps(at.i - 1) :
      trace.ops[k].index = index => trace.blocks[index].from = Call(k)

(***************************************************************************)
(* "Utilization is the ratio hwm/heapsize" (mdriver.c:663), where hwm is   *)
(* the most that the blocks in use have ever held together.                *)
(***************************************************************************)
HighWaterMark ==
  At("ops") /\ at.pass = "util" =>
    total = [size |-> LiveBytes(at.i - 1),
             max  |-> Max({LiveBytes(n) : n \in 0..at.i - 1})]

(***************************************************************************)
(* The performance index is printed exactly if every trace was valid, and  *)
(* otherwise the number of the traces that were not.                       *)
(***************************************************************************)
ReportIsTrue ==
  LET failed == {k \in DOMAIN mm_stats : ~mm_stats[k].valid} IN
  /\ outcome = "index" => failed = {}
  /\ outcome = "errors" => errors = Cardinality(failed) /\ failed # {}

(***************************************************************************)
(* fcyc keeps the kbest smallest of the times that the passes took, in     *)
(* order, across the wrap of the counter's lower half (clock.c:62): timer  *)
(* ticks cancel out, but for one between the two readings of a clock,      *)
(* which makes a time too short by cyc_per_tick.                           *)
(***************************************************************************)
KBestKept ==
  LET n == Len(spent) IN
  \E order \in [1..n -> 1..n] :
    /\ \A i, j \in 1..n :
         i < j => order[i] # order[j] /\ spent[order[i]] <= spent[order[j]]
    /\ sampler.values = [i \in 1..Min({kbest, n}) |-> spent[order[i]]]
=============================================================================
