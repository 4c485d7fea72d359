------------------------------- MODULE MCY64 -------------------------------
(***************************************************************************)
(* Programs of the lines below, with longs of two bytes: each is a text    *)
(* and what it says.                                                       *)
(***************************************************************************)
EXTENDS Y64run

RAX == 0
RCX == 1

\* Pieces of a text
Piece(is, text) == [is |-> is, text |-> text, n |-> 0]
W(name) == Piece("word", name)
D(name) == Piece("directive", name)
R(name) == Piece("register", name)
N(v)    == [Piece("number", ToString(v)) EXCEPT !.n = v]
P(mark) == Piece(mark, mark)
Blank   == P("blank")
Sep     == <<P(","), Blank>>

Label(name)     == <<W(name), P(":"), Blank>>
Dollar(v)       == <<P("$"), N(v)>>
Mem(v, name)    == <<N(v), P("("), R(name), P(")")>>
Ins(name, args) == <<W(name), Blank>> \o args
Dir(name, arg)  == <<D(name), Blank, arg>>

\* What a text says
Does(code)       == [Plain("code", None) EXCEPT !.op = code]
Data(v, n)       == [Does(icode.directive) EXCEPT !.imm = v, !.size = n]
Move(kind, v)    == [Plain(kind, None) EXCEPT !.op = icode.directive, !.imm = v,
                       !.fun = IF kind = "pos" THEN D_POS ELSE D_ALIGN]
Cond(l, f)       == [l EXCEPT !.fun = f]
Between(l, a, b) == [l EXCEPT !.ra = a, !.rb = b]
Val(l, v)        == [l EXCEPT !.imm = v]
Named(l, name)   == [l EXCEPT !.label = <<name>>]
To(l, name)      == [l EXCEPT !.sym = <<name>>]

Cases ==
  { <<<<P("#"), W("nop")>>, Plain("comment", None)>>,
    <<<<W("M"), P(":"), Blank, P("#")>>, Named(Plain("label", None), "M")>>,
    <<Dir(".pos", N(29)), Move("pos", 29)>>,
    <<Dir(".pos", N(32764)), Move("pos", 32764)>>,
    <<Label("L") \o Dir(".pos", N(3)), Named(Move("pos", 3), "L")>>,
    <<Dir(".align", N(0)) \o <<W("M")>>, Move("align", 0)>>,
    <<Label("M") \o Dir(".align", N(4)), Named(Move("align", 4), "M")>>,
    <<<<Blank, W("nop"), P("#"), W("ret")>>, Does(icode.nop)>>,
    <<Ins("cmovl", <<R("%rax")>> \o Sep \o <<R("%rcx")>>), Between(Cond(Does(icode.rrmovq), C_L), RAX, RCX)>>,
    <<Ins("irmovq", Dollar(31) \o Sep \o <<R("%rsp")>>), Between(Val(Does(icode.irmovq), 31), 0, REG_RSP)>>,
    <<Ins("irmovq", Dollar(32767) \o Sep \o <<R("%rsp")>>), Between(Val(Does(icode.irmovq), 32767), 0, REG_RSP)>>,
    <<Ins("irmovq", Dollar(5) \o Sep \o <<R("%rax")>>), Val(Does(icode.irmovq), 5)>>,
    <<Label("L") \o Ins("irmovq", <<W("M")>> \o Sep \o <<R("%rcx")>>),
      Between(Named(To(Does(icode.irmovq), "M"), "L"), 0, RCX)>>,
    <<Ins("rmmovq", <<R("%rcx")>> \o Sep \o Mem(1, "%rax")), Between(Val(Does(icode.rmmovq), 1), RCX, RAX)>>,
    <<Ins("rmmovq", <<R("%rax")>> \o Sep \o Mem(32767, "%rcx")), Between(Val(Does(icode.rmmovq), 32767), RAX, RCX)>>,
    <<Ins("mrmovq", <<P("("), Blank, R("%rax"), P(")")>> \o Sep \o <<R("%rcx")>>), Between(Does(icode.mrmovq), RAX, RCX)>>,
    <<Ins("mrmovq", Mem(32767, "%rax") \o Sep \o <<R("%rcx")>>), Between(Val(Does(icode.mrmovq), 32767), RAX, RCX)>>,
    <<Ins("subq", <<R("%rax")>> \o <<Blank>> \o Sep \o <<R("%rcx")>>), Between(Cond(Does(icode.alu), A_SUB), RAX, RCX)>>,
    <<Label("M") \o <<W("jg"), W("L")>>, Named(To(Cond(Does(icode.jmp), C_G), "L"), "M")>>,
    <<Ins("call", <<W("M"), Blank, P("#"), W("L")>>), To(Does(icode.call), "M")>>,
    <<<<W("M"), P(":"), W("ret")>>, Named(Does(icode.ret), "M")>>,
    <<Ins("pushq", <<R("%rsp")>>), Between(Does(icode.pushq), REG_RSP, 0)>>,
    <<Ins("popq", <<R("%rax")>>), Does(icode.popq)>>,
    <<Dir(".byte", N(100)), Data(100, 1)>>, <<Dir(".byte", N(39)), Data(39, 1)>>,
    <<Dir(".word", N(3872)), Data(3872, 2)>>, <<Dir(".quad", W("L")), To(Data(0, 2), "L")>> }

\* Lines that say nothing
Malformed ==
  { <<W("M"), Blank, P(":")>>, <<W("L"), P(":"), W("L"), P(":")>>, <<P(",")>>,
    Ins("nop", <<W("M")>>), Ins("jmp", Dollar(3)), Ins("jmp", <<D(".byte")>>),
    Ins("irmovq", <<P("$"), Blank, N(5)>> \o Sep \o <<R("%rax")>>),
    Ins("irmovq", <<P("$"), Piece("sign", "-")>> \o Sep \o <<R("%rax")>>),
    Ins("irmovq", <<N(5)>> \o Sep \o <<R("%rax")>>),
    Ins("rrmovq", <<R("%rax")>> \o <<R("%rcx")>>), Ins("pushq", <<R("%eax")>>),
    Ins("mrmovq", <<N(2), Blank, P("("), R("%rax"), P(")")>> \o Sep \o <<R("%rcx")>>),
    Ins("mrmovq", <<P("("), R("%rax")>> \o Sep \o <<R("%rcx")>>),
    Dir(".byte", R("%rax")), Dir(".pos", W("M")), Dir(".align", P("$")) }

Texts    == {c[1] : c \in Cases} \cup Malformed
Meanings == [text \in Texts |-> IF text \in Malformed THEN Plain("bad", None)
                                ELSE (CHOOSE c \in Cases : c[1] = text)[2]]
Names    == {<<"L">>, <<"M">>}
=============================================================================
