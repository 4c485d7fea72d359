# SE101: a verification development

The repository holds the labs of a systems course: programs in C, each a small
system of its own. This directory models them in TLA+, checks the models with
TLC and proves theorems about the shell, the allocator and its driver, the proxy,
the assembler and the simulator with TLAPS. `PROJECT.json` lists runs, mutants, the source lines behind every definition, hazards, findings, theorems.

Line numbers below refer to the files under `src/`.

## 1. Inventory

| component | source | modules | status |
|---|---|---|---|
| tsh, the shell: job list | lab9/tsh.c 484-600 | `JobList` | modelled, proved |
| tsh: main loop, built-ins, handlers | lab9/tsh.c 94-480 | `Tsh`, `JobControl` | modelled, proved |
| mm, the allocator | lab7/mm.c | `Heap`, `Malloc`, `Allocator` | modelled, proved |
| mdriver, its driver, with memlib.c | lab7/mdriver.c, memlib.c | `Allocator`, `Mdriver` | modelled, proved |
| fsecs.c, ftimer.c, fcyc.c, clock.c | lab7 | `Fcyc`, `Mdriver` | gettimeofday, K-best and the counter; not the interval timer, not calibration |
| proxy | lab10/proxy.c | `Proxy` | modelled, proved |
| csapp, system call wrappers and Rio | lab10/csapp.c | `Proxy` | the part the proxy uses |
| y64asm, the Y86-64 assembler | lab5/y64asm.c | `Y64`, `Y64parse`, `Y64asm` | modelled; proved but for the parser |
| y64sim, the Y86-64 simulator | lab4/y64sim.c | `Y64`, `Y64sim` | modelled, proved |
| y64.c, a draft of the assembler | lab5/y64.c | - | near duplicate, not built |
| cache lab | lab8 | - | csim.c is a stub that prints zeros; trans.c copies arrays |
| yat.c, sdriver, grade.py, test programs | lab4, 5, 9, 10 | - | they drive the programs; Tsh's children and Proxy's peers stand for what they run |

### The shell (lab9)

*State.* The array `jobs` of MAXJOBS slots (pid, job id, state), the counter
`nextjid`, the flag `chld_reaped`; in the kernel the pending signals, the stack
of handlers and the children. *Operations.* `eval` forks a job and adds it;
`do_bgfg` restarts one; `waitfg` polls `chld_reaped`; `sigchld_handler` waits
for one child and updates the list; `sigint_handler` and `sigtstp_handler`
forward keys to the foreground job. *Interaction.* The handlers interrupt the
main loop and each other and share the list, the counter and the flag with it.
*Hard.* Everything `do_bgfg` and the key handlers read may be stale when they
use it; SIGCHLDs merge; a child ends before it is added. *Correct means:* at most
one foreground job, nothing but the foreground job gets the keys, a job leaves
the list when and only when it has been reaped, the shell waits exactly as long
as the foreground job is one.

### The allocator (lab7)

*State.* One array of bytes with boundary tags (size and allocated bit in a
header and a footer), segregated free lists whose links lie in the free blocks,
the break. *Operations.* `mm_init`, `mm_malloc`, `mm_free`, `mm_realloc`, over
`extend_heap`, `coalesce`, `place`, `insert_block`, `remove_block` and three
searches. The code also recognises the sizes of the course's test traces (16,
64, 112, 448, 4092, 4095, 8190) and serves them by rules of their own.
*Interaction.* The client calls in any order; `mdriver` keeps the range of each
payload and refuses one that overlaps another. *Hard.* Long sequences of calls;
`remove_block` finds the list by a size that is about to change; realloc that
fails half way; the limit of the heap. *Correct means:* `mm_check`'s conditions
(tags agree, no two free blocks touch, each free block is on the list of its
size), no block lost, payloads apart.

### The driver of the allocator (lab7)

*State.* One record per trace (requests, pointers, sizes), one list of the
ranges in use, the break and the bytes of the heap, two sums for the
utilization, the samples of the timer, the number of errors, the results per
trace. *Operations.* `read_trace`; for libc, if asked for, a validity and a speed
pass; for mm a validity, a utilization and a speed pass, which is repeated; the report.
*Interaction.* It calls the allocator and believes nothing it answers; the
allocator gets its memory from `mem_sbrk`; the timer calls the pass.
*Hard.* All passes share one trace record and one range list, also after a
trace that was given up half way; a realloc changes the list twice; bytes are
compared as signed chars; the counter wraps, and timer ticks fall between its
readings. *Correct means:* the verdict on the allocator is right in both
directions, pointers and ranges of one pass never reach another, the figures
are those of the trace. (`usage` documents an option `-a` that main has no case
for; with it the driver prints the usage and ends.)

### The proxy (lab10)

*State.* The descriptor table, the malloc'd argument of each new thread, each
thread's locals, the mutex around the log. *Operations.* `main` accepts and
creates a thread; `doit` reads a request, connects to the server, forwards
headers and body and then the reply; `thread` prints the log line. *Interaction.*
Threads share descriptor numbers, which the kernel reuses at once, and the
process, which the wrappers of csapp.c end on errors. *Hard.* Peers stop or
vanish at any point, and `doit` has many early returns that must each close what
is open. *Correct means:* no descriptor leaked, closed twice or crossed between
threads; streams forwarded in order; the log tells complete replies from broken
ones; no thread is stuck when its peers are quiet.

### Assembler and simulator (lab5, lab4)

*State.* The assembler has an address counter, a list of lines with their bytes,
a symbol table and a table of references; the simulator 15 registers, a memory, condition
codes and a program counter. *Operations.* Read a line, resolve references,
write the image; load a file, execute one instruction. *Interaction.* The binary
file: each program has its own idea of the encoding. *Hard.* Mnemonics that are
prefixes of others, text that the parser skips or glues together; forward references
across `.pos` and `.align`; register operands in the order of the text or of the
bytes; programs that overwrite themselves; faults in the middle of an
instruction; the limits of memory and of arithmetic. *Correct means:* executing
the bytes of a line does what its text says, and a text that says nothing is
refused.

## 2. Modules

| module | models | over |
|---|---|---|
| `JobList` | job list: addjob, deletejob, maxjid, the searches | |
| `JobControl` | abstract: the state diagram of tsh.c 30-37, for each process | |
| `Tsh` | main loop, handlers, kernel signals, children | `JobList`; implements `JobControl` (`INSTANCE ... WITH`) |
| `TshProofs`, `TshRefines` | theorems | `Tsh`, `NatLemmas` |
| `Heap` | blocks, tags, free lists, extend_heap, coalesce, place, searches | |
| `Allocator` | abstract: the ranges in use, the break and the driver's tests of a new range | |
| `Malloc` | mm_malloc, mm_free, mm_realloc and their client | `Heap`; implements `Allocator` (`INSTANCE ... WITH`) |
| `HeapProofs` | theorems: each routine of `Heap` | `Heap`, `NatLemmas` |
| `MallocProofs` | theorems: the calls, the invariants, the refinement | `Malloc`, `HeapProofs` |
| `Fcyc` | cycle counter and K-best timer | |
| `Mdriver` | reading traces, passes, statistics, verdict | `Fcyc`, `Allocator` |
| `MdriverProofs` | theorems | `Mdriver`, `NatLemmas` |
| `Proxy` | accept loop, threads, descriptors, peers, wrappers | |
| `ProxyProofs` | theorems | `Proxy`, `NatLemmas` |
| `Y64` | encoding and longs shared by assembler and simulator | |
| `Y64parse` | the parser of a source line | `Y64` |
| `Y64asm` | the assembler: addresses, references, image | `Y64parse` |
| `Y64sim` | the simulator | `Y64` |
| `Y64run` | a program through both | `Y64asm`, `Y64sim` |
| `Y64Proofs` | theorems: the assembler's invariant, the simulator at a line | `Y64run`, `NatLemmas` |
| `NatLemmas` | lemmas: least elements, remainders | |
| `MC...` | constants and symmetry for TLC | |

**Tsh.** A step is a piece of code that no handler can see half done: one access
to the list or the flag, one system call, or a section with all signals blocked.
`pc` says where the main loop is; `h` holds each handler's locals and its level
on the stack, for a handler may interrupt another. `Deliver(s)` is the kernel
calling a handler; `Blocked` is what eval and the handlers mask. `Main(at)` lets
the main loop run only when no handler is on the stack. `fork` to `addjob`:
`Fork`, `Add`. `do_bgfg`: `FgBg` (search), `Switch` (read the state), `Set`
(store the new one), `Load` (read the pid again), `Cont` (kill). `waitfg`:
`Reset`, `Wake`. Child processes exit, stop and go on at any time. A failed
system call that reaches `unix_error` ends the shell (`shell = "failed"`), a NULL
job in `sigchld_handler` crashes it (`"segv"`). `parseline`, redirection of
output, the text of messages and the verbose flag are left out, and a job is one
process.

**Heap, Malloc.** A heap is a record: `hdr` maps a block pointer to size and
allocated bit, `ftr` the footers, `head` and `link` the lists as the code keeps them,
`marks` the bytes ~0 that the code writes behind blocks of 4095 and 8190 bytes,
`brk`, `max`, `state`. Every helper of mm.c is an operator from heap to heap, so
that one action of `Malloc` is one call of the client, all of it included. The
client is given a trace: the sizes it asks for, how many blocks it holds at a
time, and how much memory there is. It fills every payload with the low byte of
the block's number, as the driver does. Of the contents of payloads only bytes 0xFF are kept,
which `mm_free` looks at: `Ones` are the block numbers that give them, `Fill` the
places where a mark may be looked for, `Written` and `Copied` what filling and
memcpy do to them. The abstraction is `live`, the client's blocks, with the
answer of each call.

**Mdriver, Fcyc.** Here the allocator is any program: `valid_malloc` and
`valid_realloc` let it answer with any address or NULL, move the break as far as
mem_sbrk lets it, and lose the first byte of a block it moves; `fault` records what it has
done wrong, by tests of its own and not by those of the driver. `at` is where
main is: allocator under test, trace, pass, repetition, request. `BeginPass` is
the start of a pass with its resets, `valid_*` the checked calls, `plain_*` those of
the other passes, where pointers are known by the call that returned them
(`from`); `ValidEnds`, `UtilEnds`, `SpeedEnds`, `SampleEnds` are main and the
timers between passes. Both choices of config.h's timer are followed, with the real
counter of clock.c for fcyc (the 64-bit build has stubs of it, clock.c 146-160).
A file with more lines than it announces makes `read_trace` write behind `ops`
before its assertion fails: `outcome = "undefined"`.

**Proxy.** `file` is the descriptor table, with reuse of the lowest free number;
`arg` the structs between `main` and a new thread; `thread` the locals; `peer` the
other ends, which send a stream chosen when the connection is made and may stop
or vanish at any time. `Accept` is the main loop; `Start`, `RequestLine`,
`OpenSocket`, `Connect`, `ConnectFails`, `SendLine`, `Headers`, `Body`,
`ReplyHeaders`, `ReplyBody`, `CloseNext`, `Lock`, `PrintLog` are the thread from
its first to its last system call. An item of a stream is a line or a byte; Rio's
buffers do not change the order and are left out, and a stream is there as soon
as the connection is. Errors of reading count as end of file, as in the wrappers of proxy.c.
`Exit` is the `exit(0)` of csapp.c's error functions, which ends every thread.

**Y64parse, Y64asm, Y64sim, Y64run.** A text is a sequence of pieces: words, numbers,
registers, punctuation, blanks. The functions `parse_*` return what they have read and the
rest of the text; `Operands` goes through the operands of an instruction in the
order of the code, `parse_line` yields a line (label, kind, operands) or "bad".
`ReadLine` takes the next line, tests its label against the others and gives it
address and bytes, `Relocate` is one entry of the reference table, `Binfile` the
image. `Says`, a constant of `Y64run`, tells for each text what it means, written
down independently of the parser; properties compare with it. A label may be refused
(`asm = "refused"`) or a reference have no target (`"unresolved"`). Lines that make the code write outside of the image, and
`.align 0`, lead to `asm = "undefined"`, and so does a line behind which the address
overflows: `vmaddr` is a long, and the size of the image an int (`SignedInt`), so
that lines behind the largest int are copied outside of it. `.pos` and `.align`
with a negative number are outside of the model. In `Y64sim` each instruction is an action with
its faults; a step of `nexti` is one of them. Where `addr + 8` overflows, both a
refusal and a crash are possible. `LongBytes` is the size of a long: 8 in the
code. It is a parameter, and everything that depends on it (the word, the int in
its lower half, immediate operands, the stack) scales with it.

## 3. Runs

| run | question | instance | states, time on two cores |
|---|---|---|---|
| `tsh_safety` | job states, keys, `fg`/`bg`, a full list | 2 processes, 2 slots, both keys; and 3 processes, 2 slots, no keys; symmetry | 2.8 M, 1.5 min |
| `tsh_live` | waking up, reaping | 1 process, both keys; 2 processes, no key; 2 that do not stop, ctrl-c; fairness | 205 k, 2 min |
| `tsh_lostwakeup` | violated: the comment on waitfg | 1 process, fairness | seconds |
| `tsh_reapall` | violated: the comment on sigchld_handler | 2 processes | seconds |
| `joblist_jid` | violated: one job per id | 4 processes, 4 slots | seconds |
| `mm_traces` | mm_check, ownership, the driver's tests | 3 kinds of trace, below | 24 k, 30 s |
| `mm_overlap` | violated: overlaps are refused | sizes 8 and 4095 | seconds |
| `mm_fill` | violated: payloads keep their bytes | sizes 1016 and 4400, one block of 0xFF | seconds |
| `mm_lastfit` | violated: the last fit fits | sizes 16 and 112, 3 blocks | 10 s |
| `driver` | verdict, ranges, pointers, figures | 7 lists of one or two traces, any allocator | 354 k, 15 s |
| `proxy_threads` | descriptors, streams, log, progress | 2 connections, 3 descriptors, 2 structs | 3.0 M, 1.5 min |
| `y64_programs` | text against execution | all programs of up to 4 lines out of 27, and 16 malformed lines | 2.3 M, 1.5 min |

Bounds, and why they are enough.

* *Shell.* `Pids`: two jobs are what a pair of conflicting updates needs (one in
  the foreground, one in the background), and pids are reused. Three processes
  in two slots make `addjob` fail; `MCTsh` explores both instances in one run
  (`used`), the second without keys. `JidBound` ends the run when the id counter
  has passed it: ids matter only for `fg %n` and for their wrap, which
  `joblist_jid` explores with MAXJOBS = 4. `Keys` may be typed again and again;
  pending signals are a set. Liveness needs two processes, because their SIGCHLDs
  merge, and a key that interrupts the handler; `MCTsh` has three instances in one
  run again (`LiveSpec`): the full command set with one process, two processes
  without keys, and two processes with ctrl-c that do not stop by themselves.
  Two processes with both keys and stops are too many for TLC's search for fair
  cycles; their safety is in `tsh_safety`.
* *Allocator.* `MaxHeap` and each trace's `max` let the heap be extended a few
  times and then run out, so that NULL is returned by malloc and by realloc
  after an extension. Sizes: in the first trace blocks that split a chunk, just
  fill it (4088 with its tags), or need most of it, held three at a time, so that coalescing
  sees all four cases; in the second a small size, one that the code treats
  apart in binary traces, and one that leaves too small a remainder; in the
  third the sizes of the binary traces, two blocks at a time. Outside of such
  traces the rules for single sizes destroy the heap, as `mm_overlap` and
  `mm_lastfit` show, and a block filled with 0xFF is enough for that in a trace of
  ordinary sizes (`mm_fill`: 4400 reaches 4095 bytes behind its neighbour).
* *Driver.* A heap of 8 bytes, aligned by 2, holds three blocks apart, around
  each other, overlapping, or outside. The traces: blocks that grow, shrink, and are freed
  (`Moves`); block 128, whose byte is negative as a char (`Bit7`); room for a
  payload around a live one, seen later or not (`Around`, `Unseen`); four files that
  `read_trace` refuses. Lists of two traces let one follow another that failed.
  `Runs` = 2 repetitions (10 in fsecs.c), `kbest` = 2 of at most 3 samples, so that one is
  dropped, and `epsilon` such that times agree or not. The halves of the counter
  have 4 values (2^32), and `Counts` and `Durations` make the lower one wrap, with
  a tick inside and one on the edge of a measurement (`cyc_per_tick` = 2).
* *Proxy.* Two connections are the least that can confuse descriptors; with
  three descriptors one thread may find none when it opens its socket. Requests:
  malformed, refused, and complete with a body of one byte. Replies: with and
  without body. `MaxAddrs` = 1 address per host.
* *Y64.* Two-byte longs have a word (65536), an int half (-128..127) and an
  overflow. Memory of 32 bytes is BLK_SIZE, the smallest that init_mem gives.
  Four lines suffice for set the stack, call, return and for a forward reference
  across `.pos`; six steps pass through each of them and loop once. The lines
  include data that are invalid instructions, an access with an address that
  overflows, an image that ends at or behind the end of memory, and a `.pos` just
  below the largest long, behind which the addresses of the assembler overflow. The malformed
  lines fail at each place where the parser can: labels, mnemonics, delimiters,
  each kind of operand, text behind the line.

`CHECK_DEADLOCK FALSE` where the system may stop: the shell exits, a trace is
over for a process that ended, the driver reports, the proxy serves a bounded number of connections,
a program halts.

### What the properties say

*Shell.* `AtMostOneFG`: the header comment of tsh.c, in spite of what do_bgfg
stores through a stale pointer. `NoFGOutsideWait`: waitfg does not return early.
`KeysSpareBackground`: a pid read before an interruption is not a background job
when the signal is sent. `ContinuesItsJob`: `fg` and `bg` signal the job they
looked up, or none. `ListedAreChildren`: a reused pid is never confused with an
old job. `RemovedOnlyWhenReaped`: no job is lost. `ImplementsJobControl`: the job states
change only along the diagram of tsh.c, with one step that the diagram does not list:
a background job that stops. Two properties say what becomes of a SIGCHLD that is
pending, or whose handler has not called waitpid yet (`Announced`):
`AwaitedJobWakes`: it wakes the shell if the foreground job has ended or stopped;
`SignalReports`: it takes a terminated job off the list. Both leave the handler one
way out, to report another child instead (`OtherReported`). Without it they are
false as soon as there are two children: the SIGCHLDs merge, waitpid is called once
(409), and the second zombie stays until another child moves; if it is
the foreground job, waitfg polls for so long. With one child the way out does not
exist. Violated, as findings: `WaitfgReturns` (the
wakeup is lost if the job ends before `chld_reaped = 0`, tsh.c 382),
`HandlerReapsAll` (the missing reports just described: `if` where the comment
promises all, 409), `JidNamesOneJob`
(the counter wraps onto a live id, 523).

*Allocator.* `BoundaryTags`, `NoContiguousFree`, `FreeListsExact`: what mm_check
tests. `OwnedExactly`: allocated blocks are those the client holds.
`ExtendsWhenNeeded`: the heap grows only if nothing fits and NULL means that
nothing can. `ReallocSparesOthers`: a failed realloc moves nothing.
`ImplementsAllocator`: the driver accepts every payload; it has to be aligned, apart
from the others, and to end before the break as it stands when the call returns (mem_heap_hi,
mdriver.c 369-370), not only below `mem_max_addr`; the break, which a request may
move even if it fails, never goes back. Violated:
`OverlapsAreRefused` (4095 bytes are served at a fixed address that stays on a
free list, mm.c 239, and add_range misses a payload around an older one, mdriver.c
379), `PayloadsKept` (mm_free takes a client's 0xFF for its own mark, clears it
and frees nothing, 432), `LastFitFits` (the last block may be too small, 380: some
65 requests of 16 and 112 bytes lead there).

*Driver.* `VerdictIsExact`: a trace passes only without a wrong answer and fails only
with one, but for two cases, which the property names: a payload around an
older one is accepted (379), and a correct realloc of a block whose number has
bit 7 set is refused, since its byte is compared as a signed char (626).
`RangesAreLive`: the range list is what is in use, also after a failed trace.
`FreshPointers`: no pointer of an earlier pass, or one that realloc has replaced,
is used. `HighWaterMark`: the sums of the utilization pass. `ReportIsTrue`: the
index is printed if and only if every trace is valid. `KBestKept`: the timer keeps the smallest
times over wrap and ticks; config.h selects gettimeofday and the Makefile -m64, so that
the program as it is built does not use the counter.

*Proxy.* `DescriptorsOwned`, `ForwardsInOrder`, `LogsTheReply` as above.
A reply is complete in the sense of proxy.c: without a Content-Length it ends at
the blank line, whatever the server sends after it.
`NeverStuck` stands for liveness: once both peers of a thread have stopped
sending, it can take a step or waits for the mutex of a thread that can. It is
an invariant because every step of a thread is towards its end. Writes do not block
in the model: a peer that is quiet but does not read what it is sent is outside
of it. That
Open_clientfd ends the whole process, where doit has code for a failed connection (proxy.c
166), is modelled (`ConnectFails`, `Exit`); nothing in the repository says whether
it may, so no property does.

*Y64.* `ReadsTheText`: each line is read as what its text says, and only
a text without meaning or with the label of another line is refused.
`ReferencesResolved`: a reference reads as the address where the lines before the
labelled one end; with a label on a `.pos` or `.align` line that is the address
before the move, as in the code (y64asm.c 560).
`ExecutesSource`: a step at the address of a line does what the text of the
line says, if its bytes are intact. `BranchesAgree`: after subq the conditions
are the comparisons, as long as operands and result fit an int; compute_cc takes
the sign of the lower half, so for larger ones they are not. `FaultsKeepState`:
an instruction that stops the program changes nothing, except that call and
pushq have moved %rsp.

## 4. Fairness

Only `tsh_live` (`LiveSpec`) and `tsh_lostwakeup` (`FairSpec`) assume any,
`Fairness`: strong fairness
of the shell's own steps, one conjunct for the main loop and one for each handler
with all its steps, and of the delivery of
SIGCHLD. A process that is runnable is scheduled; strong, not weak, fairness is
needed because a key press puts a handler on top of the main loop or of another
handler and so disables the steps beneath it, over and over if the user keeps
typing. When such a handler returns the code below goes on where it was. The
kernel delivers a pending signal as soon as it is not blocked. No fairness is
assumed of the user, of the children or of key signals.

## 5. Proofs

The theorems hold for every value of the constants that the named assumptions
admit; TLC evaluates the assumptions in each run. Each inductive invariant `IInv` was
checked by TLC on the instance of the component's run, the allocator's without
its ranks, for which TLC would have to find a function.

### The shell: `TshProofs`, `TshRefines`

For any sets of pids, any MAXJOBS and any keys, from `NoPid \notin Pids`,
MAXJOBS positive, keys among "INT" and "TSTP" (`JobList`, `Tsh`). `Invariance` shows
`Spec => []IInv`. The safety properties are not inductive alone, and `IInv` adds:

* `Stack`: the handlers that are active occupy exactly the levels of the stack,
  each one level; otherwise two could be on top.
* `FGIsServed`: if a job is in the foreground the main loop is on its way to
  waitfg or in it. This carries `NoFGOutsideWait`.
* `AwakeIsOver`: if `chld_reaped` is set while waitfg polls, no job is in the
  foreground, or the handler that set it is about to remove or stop that one.
* `ListedAreChildren`, `AddingIsNew`: a process between fork and addjob is not
  in the list yet; SIGCHLD is blocked meanwhile.
* `KeysSpareBackground`, `SlotIsKept`: what the key handlers and do_bgfg hold
  is the job they read or one that has left.

Each action has a lemma of its own (`ForkStep` ... `UpdateStep`), `NextIInv`
combines them. `TypeCorrect`, `OneForeground`, `WaitfgNotEarly`,
`ListIsFaithful`, `BackgroundSpared`, `RightJobContinued` follow.

`TshRefines`: `RemovalsAreReapings`, and `ShellImplementsJobControl`, the
refinement: the abstract state of a process is that of its slot. It needs three
more facts (`RInv`): what is about to be deleted has been reaped, a listed job
has a state, and Set never stores over a foreground job. `AddRefines`,
`SetRefines` and `UpdateRefines` treat the three actions that change the list;
all others stutter.

### The proxy: `ProxyProofs`

For any connections, descriptors, structs and streams. `ProxyAssumption`:
descriptors are numbers (the kernel takes the least that is free), the streams
are sequences of items, and `None` is none of the values it is told from. `IInv`:

* `Types`: in addition to `TypeOK` the locals of every thread have a type, and
  nobody has read more of a stream than there is.
* `Position`: which descriptors a thread holds at each place, and that they are
  the sockets of its own connection; `Closes`: what `CloseNext` still has to
  close is exactly what the thread holds.
* `Progress`: how far both streams are at each place. That `total` is what has
  been read from the server, or with the announced body what will have been,
  carries the theorem about the log.
* `InOrder`: item k that was received is item k of the other side, and no more was
  sent on than read.
* `FilesOwned`, `ArgsOwned`: an open socket, and a struct on its way, belong to a thread
  that is where it may hold one. This is why a descriptor number that the kernel
  uses again cannot be one that another thread will still close.
* `MutexHeld`, `Logged`: one thread prints; a line of the log is of a thread that has ended,
  whose streams will not change any more, except that its client may vanish.

If a wrapper of csapp.c ends the process only `InOrder`, `Logged` and `Ended`
are left. The argument is local: `OnlyOf(c)` says that a step of connection c
touches nothing of another, `OthersStay` that then everything said of the others
stays true, and `Local` puts the two halves together; each `...Step` lemma shows
`OnlyOf(c)` and the facts of c. `Streaming` and `Forwarding` treat what the four
copying loops have in common. From `IInv` follow `TypeCorrect`, `Owned`,
`Forwards` and `LogIsTrue`.

### The allocator: `HeapProofs`, `MallocProofs`

For any handles, sizes, numbers of blocks and memory, from `TracesAssumption`, and
for the *ordinary* traces: none of the seven sizes that mm.c treats apart, and no block
filled with 0xFF (`Ordinary`, which the first trace of `mm_traces` satisfies). Both
hypotheses are needed, as the three violations show.

A heap is `Sound` if

* `Tiled`: the blocks lie end to end from the prologue to the epilogue at the
  break, each of a multiple of eight bytes with a footer like its header;
* `Listed`: the lists hold exactly the free blocks, each that of its class, with
  links that agree (`Linked`), and every block has a rank, which falls along the
  links and skips no block of the class (`Ranked`). Ranks are how the proofs say that a
  list has no loop and no lost tail without an induction over it: `insert_block`
  takes a rank above all others, `remove_block` leaves the ranks of the rest;
* `Separate`: no two free blocks side by side.

`PutWrites`, `InsertWrites`, `RemoveWrites` say what the three primitives write.
`Retile` and `RefitBlocks` treat any change of the blocks of a region, `PutOne` and
`PutTwo` the ones the code makes. The searches are recursive functions:
`FirstFitDefined` and `FindFitDefined` show that their equations have a solution,
`FirstFitFinds` and `FindFitFinds` what every solution returns, by the least rank
for which it would be wrong. `CoalesceSound`, `ExtendSound`, `InitSound` and
`PlaceSound` follow; `TakeAll`, `TakePart` and `TakeFacts` are the one argument
behind place, shrink and absorb: a region of whole blocks becomes a client's block
and, if there is room, a free one behind it.

`MallocProofs` puts the calls together: `MallocSound`, `FreeSound`, `ReallocSound`
with `ShrinkSound`, `AbsorbSound`, `GrowSound` (which may extend the heap three times) and
`MoveSound`. `IInv` adds to `Sound` that the handles own the used blocks one to one
(`Owns`) and that no block is larger than splitting leaves it. This last part is
needed for `ReallocSparesOthers`: a realloc to the old size must find a block it
keeps. From `IInv` and the lemma of each call (`MallocStep`, `ReallocStep`,
`FreeStep`) follow the five invariants (`MallocTypeOK`, `MallocBoundaryTags`,
`MallocNoContiguousFree`, `MallocFreeListsExact`, `MallocOwnedExactly`), two action
properties (`MallocExtendsWhenNeeded`, `MallocReallocSparesOthers`) and the
refinement of `Allocator` (`MallocImplementsAllocator`: payloads of different
blocks are apart because their blocks are, `PayloadsApart`; a payload ends before
the break because its block does, `PayloadFacts`; the heap after a call reaches as
far as before, `Reaches`, which is part of what each request is shown to do).

### The allocator's driver: `MdriverProofs`

For any lists of traces, any answers of the allocator, any heap, alignment, numbers
of repetitions and of samples. `SuitesAssumption`: a list of traces is not empty
(main takes the default one, mdriver.c 202-204), and the requests of a file are
`Consistent`: it allocates no number that is in use, reallocs and frees only
numbers that are, and asks for more than 0 bytes, as traces/checktrace.pl and the
assertion of add_range demand. Files with too many or too few
lines, or a wrong number of blocks, are admitted. `IInv`:

* `Types`; `Reading`: the requests read so far are those of the file, and the
  pass is at one of them or at the end.
* `Stages`, `Repeats`: which pass and which repetition main can be in; a trace
  is read for its validity pass only, and every later pass finds it as it is.
* `Pointers`: each block in use has the pointer that this pass got for it.
* `Tally`: `errors` is the number of traces rejected so far, and no
  later one is marked valid. `Judged` counts the traces that have their verdict.
* `Checking`: the list of ranges is the extents of the blocks in use (`Lists`),
  each once, no two with the same beginning, which is all that remove_range looks for;
  each block has its bytes unless something was wrong (`Written`); and
  of what may be wrong only a payload around an older one has been accepted.

`RemoveRange`, `ListGrows` and `ListShrinks` say what remove_range and add_range
do to the list, `AddRangeTests` that a new range which passes the tests of
add_range is one without fault or around another, `CopyTests` what the comparison after a
realloc finds. `TypeCorrect`, `PointersAreFresh`, `Reports` and `ListIsExact`
follow, and `Verdicts`, an action property: a trace is accepted when its
last request is, with `fault` as `Checking` bounds it; and a rejected
answer has failed a test that tells a fault (`MallocRejects`), or is a
realloc of a number with bit 7 set (`ReallocRejects`). `CounterIsExact` is about
`Fcyc`: get_counter (clock.c 53) returns the cycles since start_counter modulo
the width of the counter, whatever both readings are (`FcycAssumption`,
`DivisionIsUnique`).

`HighWater` needs one more invariant, `Utilization`: `total_size` is the sum of the sizes
of the blocks in use, and the largest one so far is that of the requests read so far. A sum
over a set is a fold; `SizeSum` and `AddsUp` state it by its equations, which
have exactly one solution (`SumExists`, `SumIs`, by induction with `NatInduct`),
and `SumFacts` says what a malloc, a free and a realloc do to it.

`KBest` is about the K-best scheme of fcyc.c, under one hypothesis: no measured time, with
a tick added, lasts as long as the 2^64 cycles of the counter. `Sampling`, its
invariant, gives a permutation by which the samples kept are those measured, sorted;
`StopsAt` says where a new sample is inserted, `InsertIs` what the insertion gives,
and `AddSampleSorts` that add_sample keeps the invariant.

### Assembler and simulator: `Y64Proofs`

For every size of a long, every memory, any lines and any labels. On numbers:
`LongBytesAssumption` (an even number of bytes, since an int is half a long) and
`PowersAssumption` (2^k is twice 2^(k-1) and 256^k is 256 times 256^(k-1), as far as the
code needs them, and 256^8 is 2^64: what powers are, but the provers take them
for any function). `SimAssumption`: the memory is smaller than the largest long.
`SaysAssumption`: what a text says is in the language (`InLanguage`: registers
exist, jumps name labels).

*Stopping and conditions.* `Faults` goes through the instructions and finds
where each can fail. `Branches` needs an invariant, `Assembled`, that the simulator
moves only when the assembler is done: then a change of the conditions is one
step of the simulator (`OnlySubq`). The rest is arithmetic: the
difference of two ints that is an int is the same as a long (`SignedFits`), the
sign of its lower half is its sign (`SignOfInt`), so each condition is the comparison
(`ConditionsCompare`).

*Longs and bytes.* A long is written as bytes by division and read as a recursive
sum. `FromToBytes` shows that the second undoes the first for every size:
the sum of the first k bytes is the remainder by 256^k (`NextByte`), and a
recursive function that satisfies its equation is the one that is defined
(`SumsExist`, `SumsAre`).

*A program through both.* `Types`, `Reads`, `Resolved` and `Executed` prove
`TypeOK`, `ReadsTheText`, `ReferencesResolved` and `ExecutesSource` under one hypothesis,
`ParserReads`: each text, by itself, is parsed as what it says, or is bad and says
nothing. That is about `parse_line` alone, and for the texts of `y64_programs` it is
what `ReadsTheText` comes to on programs of one line. Without it little
could be said: the properties compare with what the text says. The invariant
is `Whole`: the simulator's types (`Machine`), that it is off until the assembler is
done, and `Assembly`, which TLC has checked on the instance of `y64_programs`:

* `Refusal`: a line that was refused is the last one; it is bad or has the label of
  an earlier one.
* `Symbols`: a label with an address is that of exactly one line, and its address is
  where the lines before that one end (`ReachedIn`); `vmaddr` is where the last
  line ends. This makes the address of a label independent of when it is read.
* `References`: an entry of reltab names the label of its line, no line has two, and
  a line that refers to a label is pending while the text is read, afterwards as long as
  the label has no address.
* `Coded`: the bytes of a line are those of its instruction, with the
  address filled in unless it is pending. Without `References` this would not
  survive `relocate`, which fills in every entry once.
* `Imaged`: when the assembler is done nothing is pending, the image
  has each byte where the last line that covers it puts it, and every line ends in it.

The lemmas are about lists as values, not as states: what appending a line leaves
and adds (`Appended`, `AddSymbol`, `AddReference`), and what filling in one reference does
(`SameTable`, `ReferenceFilled`). `Resolved` follows since a line that no other
overlaps is copied whole (`ByteOfLine`). `Executed` needs the shape of a line's
bytes (`LineBytes`: code, registers, then a long), which the simulator
decodes to the operands of the text (`Decoded`); then `ExecuteStep` goes through the
instructions, with `PutType` for what is written and read back and `StackIs` for
`%rsp` at the ends of a long.

### What is only model-checked, and why

* `NeverStuck` of the proxy and the liveness of the shell: `ENABLED` and fairness
  are out of the prover's reach.
* `ParserReads`: what the parser makes of a text. `parse_line` goes through a
  sequence of pieces by recursion; what it returns for all texts is an induction over
  data, which the provers cannot do, so `Reads` and `y64_programs` divide the work.
* The allocator with the sizes that mm.c treats apart: its properties hold for the
  traces those rules are made for (the second and the third of `mm_traces`)
  and fail for others.
* The run `driver` is over given traces, but over every allocator.

## 6. Not modelled, and why

* Text: parseline of the shell, parse_uri, the formats of log, listing and
  result tables, the options of the programs. In y64asm.c two things of that kind
  are known: a line of more than 511 bytes is read as two (784), and a symbol's name
  is copied into fresh memory without a terminator (311).
* In the proxy: nothing bounds the wait for a silent peer, so no property promises an end
  before the peers are quiet; a request that fails before its URI is copied logs text that was never
  written (114): in the model a line of the log whatever its text.
* In the allocator's driver: the interval timer and the loops that calibrate the
  cost of a tick (their result is the constant `cyc_per_tick`); time itself. What
  earlier passes have left in the heap is forgotten at `mem_reset_brk`, because no pass reads
  bytes it has not filled.
* Files opened by the shell's redirection; Rio's buffers, which keep the order
  of a stream.
* The cache lab: csim.c prints zeros, trans.c is straight-line copies without a state.
  y64.c, a draft that is not built, repeats y64asm.c. The yat.c, sdriver and grade.py
  only start programs.

Known limits: a job of several processes is one process in `Tsh`; the mixing of
sizes treated apart with ordinary ones (malloc(4092) cuts the first block of the
heap without testing that it is free, mm.c 337) is shown to break and not
explored further; what a crash of the simulator does to its host is out of scope.

## 7. Plan

Done: shell, allocator, its driver and timer, proxy, assembler with its parser,
and simulator modelled and checked; `Tsh` and `Malloc` implement their abstract
specifications; the shell and the allocator (with their refinements), the proxy, the
driver and, given the parser, the assembler and the simulator proved. Next, in this
order:

1. `Allocator`: its specification implies that payloads are apart for any number
   of blocks.
2. The binary traces: sizes 16 and 64 from the first free block, as long as one
   is large enough.
3. `Y64run`: what a whole program does, as a run of an abstract machine over its
   lines that never overwrites itself.
4. Model: an abstract relay that `Proxy` implements; an abstract machine that
   executes source lines, implemented by `Y64run`; jobs of several processes in
   `Tsh`; blocking and arrival of data in `Proxy` as events of their own.
