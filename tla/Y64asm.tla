------------------------------- MODULE Y64asm -------------------------------
(***************************************************************************)
(* The assembler src/lab5/y64asm.c: it reads the source line by line,      *)
(* gives each line an address and its bytes, notes labels and references,  *)
(* then fills in the references and lays the bytes out in an image.        *)
(*                                                                         *)
(* A source line is a text of Y64parse, which says how it is read.         *)
(***************************************************************************)
EXTENDS Y64parse

CONSTANTS
  Source,      \* the lines a program may consist of
  Labels,
  MaxLines     \* bound of the model: the longest program

\* Each line of the source, parsed
Parse == [text \in Source |-> parse_line(text)]

ASSUME SourceAssumption ==
  /\ MaxLines \in Nat /\ None \notin Labels \cup Nat
  /\ \A text \in Source : LET l == Parse[text] IN
       /\ {l.label, l.sym} \subseteq Labels \cup {None}
       /\ l.kind \in {"pos", "align"} => l.imm \in Nat

VARIABLES
  asm,       \* "reading", "relocating", "done"; "refused" or "unresolved" for an
             \* error in either phase; "undefined" after a write outside of the
             \* image, a division by zero or an address that overflows
  lines,     \* the list of line_t: the text and its y64bin
  vmaddr,
  symtab,    \* the address of each label, or None
  reltab,    \* references in the order they were read: the line, the label
  image

asmVars == <<asm, lines, vmaddr, symtab, reltab, image>>

AsmInit ==
  /\ asm = "reading" /\ lines = <<>> /\ vmaddr = 0
  /\ symtab = [l \in Labels |-> None] /\ reltab = <<>> /\ image = <<>>

----------------------------------------------------------------------------
\* The bytes of a line before references are filled in.  The memory operand
\* of mrmovq comes first in the text and second in the bytes.  A data line that
\* refers to a label keeps its directive code as first byte.
Codes(l) ==
  LET imm  == ToBytes(l.imm, LongBytes)
      code == <<HPACK(l.op, l.fun)>>
  IN  CASE l.op \in {icode.halt, icode.nop, icode.ret} -> code
        [] l.op \in {icode.rrmovq, icode.alu} -> code \o <<HPACK(l.ra, l.rb)>>
        [] l.op \in {icode.pushq, icode.popq} -> code \o <<HPACK(l.ra, REG_NONE)>>
        [] l.op = icode.irmovq -> code \o <<HPACK(REG_NONE, l.rb)>> \o imm
        [] l.op = icode.rmmovq -> code \o <<HPACK(l.ra, l.rb)>> \o imm
        [] l.op = icode.mrmovq -> code \o <<HPACK(l.rb, l.ra)>> \o imm
        [] l.op \in {icode.jmp, icode.call} -> code \o ToBytes(0, LongBytes)
        [] l.op = icode.directive /\ l.sym = None -> ToBytes(l.imm, l.size)
        [] OTHER -> code \o ToBytes(0, l.size - 1)

\* A line of the list; only "code" lines have bytes.
Line(text, addr, codes) == [src |-> text, addr |-> addr, codes |-> codes]

\* Mutant of Defined: the address after the line.
DefinedAfter(l) == IF l.label = None THEN symtab
                  ELSE [symtab EXCEPT ![l.label] = vmaddr + Len(Codes(l))]

\* The label of a line is the address before the line moves it.
Defined(l) == IF l.label = None THEN symtab
                                ELSE [symtab EXCEPT ![l.label] = vmaddr]

Aligned(value) == IF vmaddr % value = 0 THEN vmaddr
                                        ELSE vmaddr + (value - (vmaddr % value))

\* A line that does not parse, or a duplicate label, ends the program.
Refuses(l) == l.kind = "bad" \/ (l.label # None /\ symtab[l.label] # None)

\* The line is on the list but has no address.
Lists(text) == /\ lines' = Append(lines, Line(text, 0, <<>>))
               /\ UNCHANGED <<vmaddr, symtab, reltab, image>>

\* The line l of the text is moved to addr and has these bytes there, unless
\* the address behind it overflows.
Places(text, l, addr, codes) ==
  \/ addr + Len(codes) \notin Long /\ asm' = "undefined" /\ Lists(text)
  \/ /\ addr + Len(codes) \in Long
     /\ lines' = Append(lines, Line(text, addr, codes))
     /\ vmaddr' = addr + Len(codes)
     /\ symtab' = Defined(l)
     /\ reltab' = IF l.sym = None THEN reltab
                  ELSE Append(reltab, [at |-> Len(lines) + 1, name |-> l.sym])
     /\ UNCHANGED <<asm, image>>

\* assemble: one line of the file, which parse_line has read as l.  What a line has done before
\* it was refused does not count any more: main exits.  .align 0 divides by
\* zero.
ReadLine(text, l) ==
  /\ asm = "reading" /\ Len(lines) < MaxLines
  /\ \/ Refuses(l) /\ asm' = "refused" /\ Lists(text)
     \/ /\ ~Refuses(l)
        /\ \/ l.kind = "comment" /\ Lists(text) /\ UNCHANGED asm
           \/ l.kind = "align" /\ l.imm = 0 /\ asm' = "undefined" /\ Lists(text)
           \/ l.kind = "align" /\ l.imm # 0 /\ Places(text, l, Aligned(l.imm), <<>>)
           \/ l.kind = "pos" /\ Places(text, l, l.imm, <<>>)
           \/ l.kind = "label" /\ Places(text, l, vmaddr, <<>>)
           \/ l.kind = "code" /\ Places(text, l, vmaddr, Codes(l))

EndOfFile == /\ asm = "reading"
             /\ asm' = "relocating"
             /\ UNCHANGED <<lines, vmaddr, symtab, reltab, image>>

\* How much of a line's bytes is the reference, at their end
RefBytes(l) == IF l.op = icode.directive THEN l.size ELSE LongBytes

Filled(codes, l, addr) ==
  SubSeq(codes, 1, Len(codes) - RefBytes(l)) \o ToBytes(addr, RefBytes(l))

\* relocate: one entry of reltab
Relocate ==
  LET rel == Head(reltab) IN
  /\ asm = "relocating" /\ reltab # <<>>
  /\ \/ /\ symtab[rel.name] = None
        /\ asm' = "unresolved"
        /\ UNCHANGED <<lines, reltab>>
     \/ /\ symtab[rel.name] # None
        /\ lines' = [lines EXCEPT ![rel.at].codes =
                       Filled(@, Parse[lines[rel.at].src], symtab[rel.name])]
        /\ reltab' = Tail(reltab)
        /\ UNCHANGED asm
  /\ UNCHANGED <<vmaddr, symtab, image>>

CodeLines == {i \in DOMAIN lines : lines[i].codes # <<>>}
End(i)    == lines[i].addr + Len(lines[i].codes)
Covers(i, a) == lines[i].addr <= a /\ a < End(i)

\* The size of the file is the end of the last line that has bytes, as an int.
FileSize == IF CodeLines = {} THEN 0
            ELSE SignedInt(End(CHOOSE i \in CodeLines : \A k \in CodeLines : k <= i))

\* The lines are copied in order: the last one that covers an address wins.
ByteAt(a) ==
  LET S == {i \in CodeLines : Covers(i, a)}
  IN  IF S = {} THEN 0
      ELSE LET i == CHOOSE i \in S : \A k \in S : k <= i
           IN  lines[i].codes[a - lines[i].addr + 1]

\* binfile; a line that ends behind the last one is copied out of bounds.
Binfile ==
  /\ asm = "relocating" /\ reltab = <<>>
  /\ \/ /\ \E i \in CodeLines : End(i) > FileSize
        /\ asm' = "undefined" /\ UNCHANGED image
     \/ /\ \A i \in CodeLines : End(i) <= FileSize
        /\ asm' = "done"
        /\ image' = [k \in 1..FileSize |-> ByteAt(k - 1)]
  /\ UNCHANGED <<lines, vmaddr, symtab, reltab>>

AsmNext == \/ \E text \in Source : ReadLine(text, Parse[text])
           \/ EndOfFile \/ Relocate \/ Binfile
=============================================================================
