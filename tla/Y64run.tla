------------------------------- MODULE Y64run -------------------------------
(***************************************************************************)
(* A program goes through the assembler of src/lab5 and its image through  *)
(* the simulator of src/lab4.  The two share no code: what a line of the   *)
(* source means is known to both only through the bytes between them.      *)
(***************************************************************************)
EXTENDS Y64asm, Y64sim

CONSTANT Says    \* what each text of Source says, as a line of Y64parse

\* A line that the language has: the operands its instruction calls for
InLanguage(l) ==
  /\ l.kind \in {"comment", "label", "pos", "align", "code", "bad"}
  /\ {l.label, l.sym} \subseteq Labels \cup {None}
  /\ l.op \in 0..icode.directive /\ l.fun \in 0..15
  /\ {l.ra, l.rb} \subseteq Regs /\ l.imm \in Long
  /\ l.kind = "comment" => l.label = None
  /\ l.kind \in {"pos", "align"} => l.imm \in Nat
  /\ l.sym # None => l.kind = "code"
  /\ l.kind = "code" =>
       /\ l.op = icode.directive => l.size \in {1, 2, 4, LongBytes}
       /\ l.op \in {icode.jmp, icode.call} => l.sym # None
       /\ l.sym # None => l.op \in {icode.irmovq, icode.jmp, icode.call, icode.directive}

ASSUME SaysAssumption == DOMAIN Says = Source /\ \A text \in Source : InLanguage(Says[text])

Init == AsmInit /\ SimInit

Next == \/ AsmNext /\ UNCHANGED simVars
        \/ asm = "done" /\ Load(image) /\ UNCHANGED asmVars
        \/ nexti /\ UNCHANGED asmVars

Spec == Init /\ [][Next]_<<asmVars, simVars>>

----------------------------------------------------------------------------
\* Types: registers and memory keep their shape whatever bytes are executed
\* (set_reg_val, y64sim.c:156-160, ignores REG_NONE although the rounded
\* register memory has room for it), and only what the assembler has
\* finished is loaded.
TypeOK ==
  /\ asm \in {"reading", "relocating", "done", "refused", "unresolved", "undefined"}
  /\ Len(lines) <= MaxLines /\ vmaddr \in Nat
  /\ symtab \in [Labels -> Nat \cup {None}]
  /\ \A k \in DOMAIN reltab : reltab[k].at \in DOMAIN lines
  /\ image \in Seq(Byte) /\ (asm # "done" => image = <<>> /\ stat = "off")
  /\ pc \in Long /\ r \in [Regs -> Long] /\ m \in [0..MemSize - 1 -> Byte]
  /\ cc \in [zf : BOOLEAN, sf : BOOLEAN, of : BOOLEAN]
  /\ stat \in {"off", "too large", "AOK", "HLT", "ADR", "INS", "crash"}
  /\ steps \in 0..MaxSteps

----------------------------------------------------------------------------
Text(i) == Says[lines[i].src]

(***************************************************************************)
(* "parse a line of y64 code" (y64asm.c:522): a line is read as what its   *)
(* text says, blanks, comments and names glued to the mnemonic included;   *)
(* the one that is refused says nothing, or has the label of another line. *)
(***************************************************************************)
ReadsTheText ==
  LET n == Len(lines) IN
  /\ \A i \in 1..n : asm # "refused" \/ i < n => Parse[lines[i].src] = Text(i)
  /\ asm = "refused" => \/ Text(n).kind = "bad"
                        \/ \E i \in 1..n - 1 : Text(n).label # None /\ Text(i).label = Text(n).label

\* The line that carries a label
Labelled(name) == CHOOSE j \in DOMAIN lines : Text(j).label = name

\* Where the lines before line i end
Reached(i) ==
  LET before == {j \in 1..i - 1 : Text(j).kind # "comment"}
  IN  IF before = {} THEN 0 ELSE End(CHOOSE j \in before : \A k \in before : k <= j)

\* Line i has its bytes for itself in the image.
Undisturbed(i) == \A j \in CodeLines \ {i} : End(j) <= lines[i].addr \/ End(i) <= lines[j].addr

\* A reference to a label (irmovq, jumps, call, data lines; relocate,
\* y64asm.c:820-862) reads in the image as the address where the lines before
\* the labelled one end: where a label by itself or an instruction is, and
\* what a .pos or .align with a label moves from.
ReferencesResolved ==
  asm = "done" =>
    \A i \in CodeLines :
      Text(i).sym # None /\ Undisturbed(i) =>
        LET n == RefBytes(Text(i))
        IN  SubSeq(image, End(i) - n + 1, End(i)) =
              ToBytes(Reached(Labelled(Text(i).sym)), n)

----------------------------------------------------------------------------
\* The simulator is about to execute the bytes of source line i.
At(i) == LET l == lines[i] IN
  /\ stat = "AOK" /\ steps < MaxSteps
  /\ Text(i).op # icode.directive /\ pc = l.addr /\ End(i) <= MemSize
  /\ \A k \in DOMAIN l.codes : m[l.addr + k - 1] = l.codes[k]

Value(l) == IF l.sym = None THEN l.imm ELSE symtab[l.sym]

\* What the text of line i says: the register, the memory cell and the next
\* line it names.
Executes(i) ==
  LET l == Text(i)
      Moves(id, v) == r' = [r EXCEPT ![id] = v] /\ m' = m
      Memory(f, a) == FromBytes(f, Signed(a))
      rsp  == r[REG_RSP]
  IN  /\ pc' # End(i) => l.op \in {icode.jmp, icode.call, icode.ret}
      /\ l.op = icode.rrmovq => \/ Moves(l.rb, r[l.ra])
                                \/ l.fun # C_YES /\ r' = r /\ m' = m
      /\ l.op = icode.irmovq => Moves(l.rb, Value(l))
      /\ l.op = icode.mrmovq => Moves(l.rb, Memory(m, r[l.ra] + l.imm))
      /\ l.op = icode.rmmovq => r' = r /\ Memory(m', r[l.rb] + l.imm) = r[l.ra]
      /\ l.op = icode.alu    => /\ Moves(l.rb, r'[l.rb])
                                /\ l.fun = A_SUB => r'[l.rb] = Signed(r[l.rb] - r[l.ra])
      /\ l.op = icode.jmp    => /\ pc' \in {End(i), Value(l)} /\ r' = r /\ m' = m
                                /\ l.fun = C_YES => pc' = Value(l)
      /\ l.op = icode.call   => pc' = Value(l) /\ Memory(m', r'[REG_RSP]) = End(i)
      /\ l.op = icode.ret    => pc' = Memory(m, rsp)
      /\ l.op = icode.pushq  => Memory(m', rsp - LongBytes) = r[l.ra]
      /\ l.op = icode.popq   => r'[l.ra] = Memory(m, rsp) /\ m' = m
      /\ l.op \in {icode.call, icode.pushq} => r'[REG_RSP] = Signed(rsp - LongBytes)
      /\ l.op = icode.ret \/ (l.op = icode.popq /\ l.ra # REG_RSP)
           => r'[REG_RSP] = Signed(rsp + LongBytes)

\* A step of the simulator at an address that the assembler gave to a line
\* does what the line says (parse_line, y64asm.c:531-765, against nexti,
\* y64sim.c:357-518), unless the program has overwritten it or it faults.
ExecutesSource ==
  [][\A i \in CodeLines : At(i) /\ stat' = "AOK" => Executes(i)]_<<asmVars, simVars>>

\* The values of an int: the lower half of a long
Int32 == -(2 ^ (4 * LongBytes - 1)) .. 2 ^ (4 * LongBytes - 1) - 1

SUBQ == stat = "AOK" /\ steps < MaxSteps /\ Is(icode.alu) /\ Fun = A_SUB

\* After a subtraction whose operands and result fit an int, every condition
\* (cond_doit, y64sim.c:304-344) is the comparison of the two operands that
\* the instruction set promises.  Outside of an int it may not be: compute_cc
\* takes the sign of the lower half.
BranchesAgree ==
  [][SUBQ /\ {Reg(Ra), Reg(Rb), Reg(Rb) - Reg(Ra)} \subseteq Int32 =>
       LET a == Reg(Ra)
           b == Reg(Rb)
       IN  /\ cond_doit(cc', C_L)  = (b < a)
           /\ cond_doit(cc', C_LE) = (b <= a)
           /\ cond_doit(cc', C_E)  = (b = a)
           /\ cond_doit(cc', C_NE) = (b # a)
           /\ cond_doit(cc', C_GE) = (b >= a)
           /\ cond_doit(cc', C_G)  = (b > a)]_<<asmVars, simVars>>

\* An instruction that stops the program leaves it as it was, at its own
\* address, so that the printed differences are those of the steps before;
\* call and pushq alone have moved %rsp already (y64sim.c:466-474, 487-496).
FaultsKeepState ==
  [][stat = "AOK" /\ stat' # "AOK" =>
       /\ UNCHANGED <<pc, m, cc>>
       /\ r' # r => Code \in {icode.call, icode.pushq}
                    /\ r' = [r EXCEPT ![REG_RSP] = Signed(@ - LongBytes)]]_<<asmVars, simVars>>
=============================================================================
