------------------------------ MODULE Y64parse ------------------------------
(***************************************************************************)
(* The parser of a source line in src/lab5/y64asm.c.  The text of a line   *)
(* is a sequence of pieces, of which the code sees the first characters:   *)
(*    "word"      letters                                                  *)
(*    "directive" a dot and letters                                        *)
(*    "number"    a number that strtoul reads, of value n                  *)
(*    "sign"      + or - with no digit behind it                           *)
(*    "register"  % and the letters and digits of a name                   *)
(*    "blank", and $ ( ) , : #  by themselves                              *)
(* A line is cut such that the first word of an instruction is the entry   *)
(* of instr_set that matches first: jmpL is the words jmp and L.           *)
(***************************************************************************)
EXTENDS Y64, SequencesExt

CONSTANT None    \* no name

Starts(text, kind) == text # <<>> /\ text[1].is = kind

\* What is left of a text after the pieces of these kinds that it starts with
After(text, kinds) ==
  LET n == CHOOSE k \in 0..Len(text) :
             /\ \A j \in 1..k : text[j].is \in kinds
             /\ k = Len(text) \/ text[k + 1].is \notin kinds
  IN  SubSeq(text, n + 1, Len(text))

Skip(text)    == After(text, {"blank"})
AtEnd(text)   == Skip(text) = <<>> \/ Starts(Skip(text), "#")
IsDigit(text) == Starts(text, "number") \/ Starts(text, "sign")
Run           == {"word", "number", "sign"}    \* letters and digits

----------------------------------------------------------------------------
(* The tables.  A directive's size is that of its data; a quad is a long.  *)

Row(name, op, fun, size) == [name |-> name, op |-> op, fun |-> fun, size |-> size]

D_DATA  == 0
D_POS   == 1
D_ALIGN == 2

instr_set == {
  Row("nop", icode.nop, 0, 0), Row("halt", icode.halt, 0, 0),
  Row("rrmovq", icode.rrmovq, C_YES, 0), Row("cmovle", icode.rrmovq, C_LE, 0),
  Row("cmovl", icode.rrmovq, C_L, 0), Row("cmove", icode.rrmovq, C_E, 0),
  Row("cmovne", icode.rrmovq, C_NE, 0), Row("cmovge", icode.rrmovq, C_GE, 0),
  Row("cmovg", icode.rrmovq, C_G, 0), Row("irmovq", icode.irmovq, 0, 0),
  Row("rmmovq", icode.rmmovq, 0, 0), Row("mrmovq", icode.mrmovq, 0, 0),
  Row("addq", icode.alu, A_ADD, 0), Row("subq", icode.alu, A_SUB, 0),
  Row("andq", icode.alu, A_AND, 0), Row("xorq", icode.alu, A_XOR, 0),
  Row("jmp", icode.jmp, C_YES, 0), Row("jle", icode.jmp, C_LE, 0),
  Row("jl", icode.jmp, C_L, 0), Row("je", icode.jmp, C_E, 0),
  Row("jne", icode.jmp, C_NE, 0), Row("jge", icode.jmp, C_GE, 0),
  Row("jg", icode.jmp, C_G, 0), Row("call", icode.call, 0, 0),
  Row("ret", icode.ret, 0, 0), Row("pushq", icode.pushq, 0, 0),
  Row("popq", icode.popq, 0, 0), Row(".byte", icode.directive, D_DATA, 1),
  Row(".word", icode.directive, D_DATA, 2), Row(".long", icode.directive, D_DATA, 4),
  Row(".quad", icode.directive, D_DATA, LongBytes),
  Row(".pos", icode.directive, D_POS, 0), Row(".align", icode.directive, D_ALIGN, 0)}

find_instr(text) ==
  {row \in instr_set : /\ Starts(text, "word") \/ Starts(text, "directive")
                       /\ text[1].text = row.name}

parse_instr(text) == find_instr(Skip(text))

\* Register k has entry k + 1.
reg_table == <<"%rax", "%rcx", "%rdx", "%rbx", "%rsp", "%rbp", "%rsi", "%rdi",
               "%r8", "%r9", "%r10", "%r11", "%r12", "%r13", "%r14">>

find_register(name) == {k \in Regs : reg_table[k + 1] = name}

----------------------------------------------------------------------------
(* The parts of a line: what a parser has read, and the text behind it.    *)

PARSE_ERR   == [ok |-> FALSE, rest |-> <<>>, reg |-> REG_NONE, value |-> 0, name |-> None]
Parsed(rest) == [PARSE_ERR EXCEPT !.ok = TRUE, !.rest = rest]

parse_delim(text, delim) ==
  IF Starts(Skip(text), delim) THEN Parsed(Tail(Skip(text))) ELSE PARSE_ERR

\* Letters and digits behind a register's name go unnoticed.
parse_reg(text) ==
  LET s == Skip(text) IN
  IF Starts(s, "register") /\ find_register(s[1].text) # {}
  THEN [Parsed(After(Tail(s), Run)) EXCEPT !.reg = CHOOSE k \in find_register(s[1].text) : TRUE]
  ELSE PARSE_ERR

\* A name is the texts of its pieces.
parse_symbol(text) ==
  LET s    == Skip(text)
      rest == After(s, Run)
  IN  IF Starts(s, "word")
      THEN [Parsed(rest) EXCEPT !.name = [k \in 1..Len(s) - Len(rest) |-> s[k].text]]
      ELSE PARSE_ERR

\* A value out of range is ULONG_MAX; without a digit nothing is read.
strtoul(text) ==
  IF Starts(text, "sign") THEN Parsed(text)
  ELSE [Parsed(Tail(text)) EXCEPT !.value =
          IF text[1].n \in -(Words - 1)..Words - 1 THEN Signed(text[1].n) ELSE -1]

parse_digit(text) == IF IsDigit(Skip(text)) THEN strtoul(Skip(text)) ELSE PARSE_ERR

\* No blank may follow the $.
parse_imm(text) ==
  LET s == Skip(text) IN
  IF ~Starts(s, "$") THEN parse_symbol(s)
  ELSE IF IsDigit(Tail(s)) THEN strtoul(Tail(s)) ELSE PARSE_ERR

parse_data(text) ==
  IF IsDigit(Skip(text)) THEN strtoul(Skip(text)) ELSE parse_symbol(text)

\* Mutant of parse_mem: the bracket is not closed.
parse_memOpen(text) ==
  LET s == Skip(text)
      d == IF Starts(s, "(") THEN Parsed(s) ELSE parse_digit(s)
      r == parse_reg(Tail(d.rest))
  IN  IF d.ok /\ Starts(d.rest, "(") /\ r.ok THEN [r EXCEPT !.value = d.value]
      ELSE PARSE_ERR

\* No blank may come before either bracket, but one may follow the first.
parse_mem(text) ==
  LET s == Skip(text)
      d == IF Starts(s, "(") THEN Parsed(s) ELSE parse_digit(s)
      r == parse_reg(Tail(d.rest))
  IN  IF d.ok /\ Starts(d.rest, "(") /\ r.ok /\ Starts(r.rest, ")")
      THEN [r EXCEPT !.value = d.value, !.rest = Tail(r.rest)]
      ELSE PARSE_ERR

parse_label(text) ==
  LET s == parse_symbol(text) IN
  IF s.ok /\ Starts(s.rest, ":") THEN [s EXCEPT !.rest = Tail(s.rest)] ELSE PARSE_ERR

----------------------------------------------------------------------------
(* parse_line: the operands of an instruction, one after the other.        *)

Operands(row) ==
  CASE row.op \in {icode.halt, icode.nop, icode.ret} -> <<>>
    [] row.op \in {icode.rrmovq, icode.alu}          -> <<"regA", ",", "regB">>
    [] row.op = icode.irmovq                         -> <<"imm", ",", "regB">>
    [] row.op = icode.rmmovq                         -> <<"regA", ",", "memB">>
    [] row.op = icode.mrmovq                         -> <<"memA", ",", "regB">>
    [] row.op \in {icode.jmp, icode.call}            -> <<"symbol">>
    [] row.op \in {icode.pushq, icode.popq}          -> <<"regA">>
    [] row.op = icode.directive /\ row.fun = D_DATA  -> <<"data">>
    [] OTHER                                         -> <<"digit">>

\* A line that has been read up to l.rest, if l.ok, and its next operand
Operand(l, kind) ==
  LET p == CASE kind = ","                 -> parse_delim(l.rest, ",")
             [] kind \in {"regA", "regB"}  -> parse_reg(l.rest)
             [] kind \in {"memA", "memB"}  -> parse_mem(l.rest)
             [] kind = "imm"               -> parse_imm(l.rest)
             [] kind = "symbol"            -> parse_symbol(l.rest)
             [] kind = "data"              -> parse_data(l.rest)
             [] kind = "digit"             -> parse_digit(l.rest)
  IN  IF ~l.ok THEN l
      ELSE [l EXCEPT !.ok = p.ok, !.rest = p.rest,
                     !.ra = IF kind \in {"regA", "memA"} THEN p.reg ELSE @,
                     !.rb = IF kind \in {"regB", "memB"} THEN p.reg ELSE @,
                     !.imm = IF kind \in {"memA", "memB", "imm", "data", "digit"}
                             THEN p.value ELSE @,
                     !.sym = IF kind \in {"imm", "symbol", "data"} THEN p.name ELSE @]

\* A line of this kind with nothing read of it yet: "comment", "label", "pos",
\* "align", "code", or "bad" if it does not parse.
Plain(kind, label) ==
  [kind |-> kind, label |-> label, op |-> icode.nop, fun |-> 0, size |-> 0,
   ra |-> 0, rb |-> 0, imm |-> 0, sym |-> None, ok |-> TRUE, rest |-> <<>>]

\* A line whose operands have been read, and what follows them; .align 0 divides
\* before that is looked at.
Ended(l) ==
  IF l.ok /\ (AtEnd(l.rest) \/ (l.kind = "align" /\ l.imm = 0))
  THEN [l EXCEPT !.rest = <<>>]
  ELSE Plain("bad", None)

\* An instruction or directive after its mnemonic
Instruction(row, label, rest) ==
  Ended(FoldLeft(Operand,
          [Plain(IF row.op # icode.directive \/ row.fun = D_DATA THEN "code"
                 ELSE IF row.fun = D_POS THEN "pos" ELSE "align", label) EXCEPT
             !.op = row.op, !.fun = row.fun, !.size = row.size, !.rest = rest],
          Operands(row)))

\* The label is that of a line by itself or before an instruction.
parse_line(text) ==
  LET label == parse_label(text)
      start == Skip(IF label.ok THEN label.rest ELSE text)
  IN  IF AtEnd(start) THEN Plain(IF label.ok THEN "label" ELSE "comment", label.name)
      ELSE IF parse_instr(start) = {} THEN Plain("bad", None)
      ELSE Instruction(CHOOSE row \in parse_instr(start) : TRUE, label.name, Tail(start))
=============================================================================
