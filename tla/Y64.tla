-------------------------------- MODULE Y64 --------------------------------
(***************************************************************************)
(* What the assembler src/lab5/y64asm.c and the simulator                  *)
(* src/lab4/y64sim.c share: instruction codes, and longs as bytes.  The    *)
(* code's longs have 8 bytes; the model keeps their number a parameter, so *)
(* that a word with two bytes overflows as one with eight does.            *)
(***************************************************************************)
EXTENDS Integers, Sequences

CONSTANT LongBytes    \* sizeof(long)

ASSUME LongBytesAssumption == LongBytes \in Nat \ {0} /\ LongBytes % 2 = 0

\* itype_t
icode == [halt |-> 0, nop |-> 1, rrmovq |-> 2, irmovq |-> 3, rmmovq |-> 4,
          mrmovq |-> 5, alu |-> 6, jmp |-> 7, call |-> 8, ret |-> 9,
          pushq |-> 10, popq |-> 11, directive |-> 12]

\* alu_t and cond_t
A_ADD == 0
A_SUB == 1
A_AND == 2
A_XOR == 3
C_YES == 0
C_LE  == 1
C_L   == 2
C_E   == 3
C_NE  == 4
C_GE  == 5
C_G   == 6

REG_RSP  == 4
REG_NONE == 15
Regs     == 0..14

Byte  == 0..255
Words == 2 ^ (8 * LongBytes)

\* The value of a long whose bits are those of v
Signed(v) == LET u == v % Words IN IF u >= Words \div 2 THEN u - Words ELSE u

Long == -(Words \div 2) .. (Words \div 2) - 1

\* The value of an int, half as wide, whose bits are the lower ones of v
SignedInt(v) == LET half == 2 ^ (4 * LongBytes - 1)
                    u    == v % (2 * half)
                IN  IF u >= half THEN u - 2 * half ELSE u

\* What proofs must know of powers, which the provers take for any function.
ASSUME PowersAssumption ==
  /\ \A k \in 1..8 * LongBytes : 2 ^ k = 2 * 2 ^ (k - 1)
  /\ \A k \in 1..LongBytes \cup 1..3 : 256 ^ k = 256 * 256 ^ (k - 1)
  /\ 256 ^ LongBytes = Words

HPACK(hi, lo) == 16 * hi + lo
HIGH(b) == b \div 16
LOW(b)  == b % 16

\* memcpy of the first n bytes of a long; the lowest byte comes first.
ToBytes(v, n) == [k \in 1..n |-> (v \div (256 ^ (k - 1))) % 256]

\* The long in the bytes of f from address a on
FromBytes(f, a) ==
  LET sum[k \in 0..LongBytes] ==
        IF k = 0 THEN 0 ELSE sum[k - 1] + f[a + k - 1] * (256 ^ (k - 1))
  IN  Signed(sum[LongBytes])

\* Bit k of a long, and the long with the bits b[k]
Bit(v, k) == (v \div (2 ^ k)) % 2

FromBits(b) ==
  LET sum[k \in 0..8 * LongBytes] ==
        IF k = 0 THEN 0 ELSE sum[k - 1] + b[k - 1] * (2 ^ (k - 1))
  IN  Signed(sum[8 * LongBytes])
=============================================================================
