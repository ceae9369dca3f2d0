----------------------------- MODULE MCMiniGlow -----------------------------
(***************************************************************************)
(* Programs for MiniGlow: a segment, an address and two operands, then two *)
(* more instructions, then a loop; and one that runs the program counter   *)
(* through all its carries.  DIGIT is 3, so a byte has nine values.        *)
(***************************************************************************)
EXTENDS MiniGlow, Sequences

Imm(dst, v) == <<0, dst, v>>

\* A program from a sequence, from address 0.
AtZero(s) == [a \in 0..(Len(s) - 1) |-> s[a + 1]]

Sources == {<<0, 5>>, <<0, 8>>, <<1, 0>>, <<1, 1>>, <<3, 0>>, <<4, 0>>}
Fifth   == {i \in {<<s[1], d, s[2]>> : s \in Sources, d \in {1, 2, 3, 6, 7, 8, 10, 12}} :
              IsInstr(i)}

\* Read, write, compute and write, branch, read into the address.
Sixth   == {<<3, 1, 0>>, <<0, 8, 5>>, <<1, 8, 1>>, <<1, 7, 1>>, <<3, 2, 0>>}

\* Segment and low address: SRAM, the two windows, and just beyond them.
Places   == {<<1, 1>>, <<3, 0>>, <<3, 1>>, <<4, 2>>, <<4, 3>>, <<4, 5>>, <<4, 8>>}
Operands == {<<4, 4>>, <<4, 5>>}

Short(p, o, i, j) ==
  AtZero(<<Imm(12, p[1]), Imm(2, p[2]), Imm(1, o[1]), Imm(6, o[2]), i, j,
           Imm(2, 8), Imm(3, 0), Imm(7, 0)>>)

\* Jump over the two low digits, and count on to the wrap.
Long == AtZero(<<Imm(2, 8), Imm(3, 0), Imm(7, 0)>>)

AllPrograms ==
  {Short(p, o, i, j) : p \in Places, o \in Operands, i \in Fifth, j \in Sixth} \cup {Long}

Bytes == {<< <<1, 0, 1>>, 7>>}
=============================================================================
