----------------------------- MODULE MiniInstr ------------------------------
(***************************************************************************)
(* Words, instructions and addresses of the MiniGlow CPU, shared by its    *)
(* simulator (MiniIsa) and its chips (MiniGlow).  An instruction has 16    *)
(* bits: the codes of a source and of a destination and a byte xx.         *)
(***************************************************************************)
EXTENDS Naturals

CONSTANT DIGIT        \* values of four bits (16)

ASSUME DigitAssumption ==
  DIGIT \in Nat /\ DIGIT >= 3             \* a byte holds the register numbers

BYTE   == DIGIT * DIGIT
PCSIZE == DIGIT * (DIGIT * (DIGIT * DIGIT))
Byte   == 0..(BYTE - 1)
Digit  == 0..(DIGIT - 1)

\* Codes of the sources and of the destinations.
IMM == 0
ALU == 1
RAM == 3
IO0 == 4
D_A    == 1
D_RA_L == 2
D_RA_H == 3
D_B    == 6
D_RAM  == 8
D_IO0  == 10
NOP    == <<15, 15, BYTE - 1>>

is_JMP(ir)  == ir[1] = IMM /\ ir[2] = 7
is_JCC(ir)  == ir[1] = ALU /\ ir[2] = 7
is_SEG(ir)  == ir[1] = IMM /\ ir[2] = 12
is_NOP(ir)  == ir[1] = 15 /\ ir[2] = 15
is_data(ir) == ~is_JMP(ir) /\ ~is_JCC(ir) /\ ~is_SEG(ir) /\ ~is_NOP(ir)

\* The instructions that the simulator and the chips both define: from other
\* sources the bus floats, and a RAM that is being written cannot be read.
IsInstr(ir) ==
  /\ ir \in (0..15) \X (0..15) \X Byte
  /\ is_NOP(ir) \/ ir[1] \in {IMM, ALU, RAM, IO0}
  /\ ~(ir[1] = RAM /\ ir[2] = D_RAM)

\* A program is a partial function; the rest of the ROM is NOP.
IsProgram(p) ==
  DOMAIN p \subseteq 0..(PCSIZE - 1) /\ \A a \in DOMAIN p : IsInstr(p[a])
Fetch(p, a) == IF a \in DOMAIN p THEN p[a] ELSE NOP

\* SEG, RA_H, RA_L.  Memory is a partial function; the rest of it is 0.
Address      == (0..7) \X Byte \X Byte
Get(m, a)    == IF a \in DOMAIN m THEN m[a] ELSE 0
Put(m, a, v) == [x \in DOMAIN m \cup {a} |-> IF x = a THEN v ELSE m[x]]

\* The coprocessor of the tests: it answers with its type, and with the
\* complement of its datum once it has been started.
CpPower == [data |-> 0, out_l |-> 0]
CpType  == (10 % DIGIT) * (DIGIT + 1)
CpRead(c, idx) ==
  CASE idx = 0 -> CpType [] idx = 5 -> c.out_l [] OTHER -> 0
CpWrite(c, idx, v) ==
  CASE idx = 2 -> [data |-> v, out_l |-> c.out_l]
    [] idx = 3 -> [data |-> c.data, out_l |-> BYTE - 1 - c.data]
    [] OTHER   -> c
=============================================================================
