------------------------------- MODULE Y64sim -------------------------------
(***************************************************************************)
(* The simulator src/lab4/y64sim.c: it loads a binary file and executes    *)
(* instructions until one does not return STAT_AOK or max_steps are done.  *)
(* One action per instruction; a step is a call of nexti.                  *)
(***************************************************************************)
EXTENDS Y64

CONSTANTS MemSize,    \* MEM_SIZE
          MaxSteps    \* max_steps

ASSUME SimAssumption == MemSize \in 1..Words \div 2 - 1 /\ MaxSteps \in Nat

VARIABLES
  pc, r, m, cc,    \* y64sim_t: program counter, registers, memory, conditions
  stat,            \* "off" before a file is loaded, then the stat_t of the
                   \* last step; "crash" after an access outside of memory,
                   \* "too large" when the file was refused
  steps

simVars == <<pc, r, m, cc, stat, steps>>

DEFAULT_CC == [zf |-> TRUE, sf |-> FALSE, of |-> FALSE]

SimInit ==
  /\ pc = 0 /\ r = [id \in Regs |-> 0] /\ m = [a \in 0..MemSize - 1 |-> 0]
  /\ cc = DEFAULT_CC /\ stat = "off" /\ steps = 0

\* load_binfile: a file that fills the memory has not been read to its end.
Load(file) ==
  /\ stat = "off"
  /\ \/ /\ Len(file) < MemSize
        /\ m' = [a \in 0..MemSize - 1 |-> IF a < Len(file) THEN file[a + 1] ELSE 0]
        /\ stat' = "AOK"
     \/ /\ Len(file) >= MemSize
        /\ stat' = "too large" /\ UNCHANGED m
  /\ UNCHANGED <<pc, r, cc, steps>>

----------------------------------------------------------------------------
HasByte(a) == 0 <= a /\ a < MemSize

HasLong(a) == 0 <= a /\ a + LongBytes <= MemSize

\* The sum a + 8 in that test overflows.
SumOverflows(a) == a + LongBytes \notin Long

Get(a)    == FromBytes(m, a)
Put(a, v) == [b \in DOMAIN m |->
                IF b \in a..a + LongBytes - 1 THEN ToBytes(v, LongBytes)[b - a + 1]
                                              ELSE m[b]]

\* get_reg_val
Reg(id) == IF id = REG_NONE THEN 0 ELSE r[id]

\* Mutant of With: the eight bytes behind %r14 take REG_NONE.
WithNone(f, id, v) == [x \in DOMAIN f \cup {id} |-> IF x = id THEN v ELSE f[x]]

\* r after set_reg_val
With(f, id, v) == IF id = REG_NONE THEN f ELSE [f EXCEPT ![id] = v]

----------------------------------------------------------------------------
compute_alu(op, a, b) ==
  CASE op = A_ADD -> Signed(b + a)
    [] op = A_SUB -> Signed(b - a)
    [] op = A_AND -> FromBits([k \in 0..8 * LongBytes - 1 |-> Bit(a, k) * Bit(b, k)])
    [] op = A_XOR -> FromBits([k \in 0..8 * LongBytes - 1 |-> (Bit(a, k) + Bit(b, k)) % 2])

\* (int)val: the lower half of a long
NegativeInt(v) == Bit(v, 4 * LongBytes - 1) = 1

\* Mutant of compute_cc: the operands of the subtraction swapped.
compute_ccSwapped(op, a, b, val) ==
  [zf |-> val = 0,
   sf |-> NegativeInt(val),
   of |-> \/ op = A_AND /\ (a > 0) = (b > 0) /\ (a > 0) # (val > 0)
          \/ op = A_SUB /\ (a > 0) # (b > 0) /\ (b > 0) = (val > 0)]

\* The first disjunct tests A_AND although it is the overflow of an addition.
compute_cc(op, a, b, val) ==
  [zf |-> val = 0,
   sf |-> NegativeInt(val),
   of |-> \/ op = A_AND /\ (a > 0) = (b > 0) /\ (a > 0) # (val > 0)
          \/ op = A_SUB /\ (a > 0) # (b > 0) /\ (a > 0) = (val > 0)]

cond_doit(c, cond) ==
  CASE cond = C_YES -> TRUE
    [] cond = C_LE  -> c.zf \/ c.sf # c.of
    [] cond = C_L   -> c.sf # c.of
    [] cond = C_E   -> c.zf
    [] cond = C_NE  -> ~c.zf
    [] cond = C_GE  -> c.sf = c.of
    [] cond = C_G   -> ~c.zf /\ c.sf = c.of

----------------------------------------------------------------------------
\* The fetched instruction at pc
Code   == HIGH(m[pc])
Fun    == LOW(m[pc])
Ra     == HIGH(m[pc + 1])
Rb     == LOW(m[pc + 1])

HasRegs == Code \in {icode.rrmovq, icode.irmovq, icode.rmmovq, icode.mrmovq,
                     icode.alu, icode.pushq, icode.popq}
HasImm  == Code \in {icode.irmovq, icode.rmmovq, icode.mrmovq, icode.jmp, icode.call}

ImmAt   == pc + 1 + (IF HasRegs THEN 1 ELSE 0)
Imm     == Get(ImmAt)
NextPc  == ImmAt + (IF HasImm THEN LongBytes ELSE 0)

Fetched == /\ HasByte(pc)
           /\ HasRegs => HasByte(pc + 1)
           /\ HasImm  => HasLong(ImmAt)

Is(code) == Fetched /\ Code = code

Stop(s) == stat' = s /\ UNCHANGED <<pc, r, m, cc>>

\* A long that is not in memory; when its end overflows the access may happen.
Refused(a) == /\ ~HasLong(a)
              /\ \/ Stop("ADR")
                 \/ SumOverflows(a) /\ Stop("crash")

BadFetch == ~Fetched /\ Stop("ADR")
BadCode  == Fetched /\ Code > icode.popq /\ Stop("INS")

Halt == Is(icode.halt) /\ Stop("HLT")

Nop  == Is(icode.nop) /\ pc' = NextPc /\ UNCHANGED <<r, m, cc, stat>>

Rrmovq == /\ Is(icode.rrmovq)
          /\ \/ Fun > C_G /\ Stop("INS")
             \/ /\ Fun <= C_G
                /\ r' = IF cond_doit(cc, Fun) THEN With(r, Rb, Reg(Ra)) ELSE r
                /\ pc' = NextPc
                /\ UNCHANGED <<m, cc, stat>>

Irmovq == /\ Is(icode.irmovq)
          /\ r' = With(r, Rb, Imm)
          /\ pc' = NextPc
          /\ UNCHANGED <<m, cc, stat>>

Rmmovq == LET a == Signed(Reg(Rb) + Imm) IN
          /\ Is(icode.rmmovq)
          /\ \/ Refused(a)
             \/ /\ HasLong(a)
                /\ m' = Put(a, Reg(Ra))
                /\ pc' = NextPc
                /\ UNCHANGED <<r, cc, stat>>

Mrmovq == LET a == Signed(Reg(Rb) + Imm) IN
          /\ Is(icode.mrmovq)
          /\ \/ Refused(a)
             \/ /\ HasLong(a)
                /\ r' = With(r, Ra, Get(a))
                /\ pc' = NextPc
                /\ UNCHANGED <<m, cc, stat>>

Alu == LET val == compute_alu(Fun, Reg(Ra), Reg(Rb)) IN
       /\ Is(icode.alu)
       /\ \/ Fun > A_XOR /\ Stop("INS")
          \/ /\ Fun <= A_XOR
             /\ r' = With(r, Rb, val)
             /\ cc' = compute_cc(Fun, Reg(Ra), Reg(Rb), val)
             /\ pc' = NextPc
             /\ UNCHANGED <<m, stat>>

Jmp == /\ Is(icode.jmp)
       /\ \/ Fun > C_G /\ Stop("INS")
          \/ /\ Fun <= C_G
             /\ pc' = IF cond_doit(cc, Fun) THEN Imm ELSE NextPc
             /\ UNCHANGED <<r, m, cc, stat>>

\* call and pushq: %rsp has moved when the write fails.
Push(v, target) ==
  LET top == Signed(r[REG_RSP] - LongBytes) IN
  /\ r' = [r EXCEPT ![REG_RSP] = top]
  /\ \/ /\ HasLong(top)
        /\ m' = Put(top, v) /\ pc' = target /\ UNCHANGED stat
     \/ /\ ~HasLong(top)
        /\ stat' \in {"ADR"} \cup (IF SumOverflows(top) THEN {"crash"} ELSE {})
        /\ UNCHANGED <<pc, m>>
  /\ UNCHANGED cc

Call  == Is(icode.call) /\ Push(NextPc, Imm)

\* Mutant of Pushq: the value is read after %rsp has moved.
PushqLate == /\ Is(icode.pushq)
             /\ Push(IF Ra = REG_RSP THEN Signed(r[REG_RSP] - LongBytes) ELSE Reg(Ra), NextPc)

Pushq == Is(icode.pushq) /\ Push(Reg(Ra), NextPc)

\* Mutant of Ret: %rsp has moved when the read fails.
RetMoves ==
  LET popped == [r EXCEPT ![REG_RSP] = Signed(r[REG_RSP] + LongBytes)] IN
  /\ Is(icode.ret) /\ r' = popped
  /\ \/ ~HasLong(r[REG_RSP]) /\ stat' = "ADR" /\ UNCHANGED <<pc, m, cc>>
     \/ HasLong(r[REG_RSP]) /\ pc' = Get(r[REG_RSP]) /\ UNCHANGED <<m, cc, stat>>

Ret == /\ Is(icode.ret)
       /\ \/ Refused(r[REG_RSP])
          \/ /\ HasLong(r[REG_RSP])
             /\ r' = [r EXCEPT ![REG_RSP] = Signed(@ + LongBytes)]
             /\ pc' = Get(r[REG_RSP])
             /\ UNCHANGED <<m, cc, stat>>

\* popq %rsp: the value read wins.
Popq == /\ Is(icode.popq)
        /\ \/ Refused(r[REG_RSP])
           \/ /\ HasLong(r[REG_RSP])
              /\ r' = With([r EXCEPT ![REG_RSP] = Signed(@ + LongBytes)], Ra, Get(r[REG_RSP]))
              /\ pc' = NextPc
              /\ UNCHANGED <<m, cc, stat>>

nexti ==
  /\ stat = "AOK" /\ steps < MaxSteps
  /\ steps' = steps + 1
  /\ \/ BadFetch \/ BadCode \/ Halt \/ Nop \/ Rrmovq \/ Irmovq \/ Rmmovq
     \/ Mrmovq \/ Alu \/ Jmp \/ Call \/ Ret \/ Pushq \/ Popq
=============================================================================
