--------------------------- MODULE MiniGlowProofs ---------------------------
(***************************************************************************)
(* The chips of MiniGlow execute the instruction set of its simulator, for *)
(* every program, every digit width and every way the host moves its pins. *)
(* The arithmetic is that two four-bit adders with complemented operands   *)
(* make an eight-bit ALU, and that four ripple-enabled counters make a     *)
(* 16-bit program counter.                                                 *)
(***************************************************************************)
EXTENDS MiniGlow, TLAPS

\* Reset holds the program counter and the segment at 0.
Held == ~RST_n => PC_Q = [i \in Chip |-> 0] /\ SEG_r = 0

GlowInv == TypeOK /\ Held
-----------------------------------------------------------------------------
LEMMA Widths ==
  /\ DIGIT \in Nat /\ DIGIT >= 3
  /\ BYTE = DIGIT * DIGIT /\ BYTE \in Nat /\ BYTE >= 9
<1>1. DIGIT \in Nat /\ DIGIT >= 3
  BY DigitAssumption
<1>2. \A d \in Nat : d >= 3 => d * d \in Nat /\ d * d >= 9
  OBVIOUS
<1>3. QED
  BY <1>1, <1>2 DEF BYTE

\* A byte is two digits.
LEMMA Split ==
  ASSUME NEW v \in Byte
  PROVE  /\ Lo(v) \in Digit /\ Hi(v) \in Digit
         /\ v = Lo(v) + DIGIT * Hi(v)
<1>1. v \in Nat /\ v < DIGIT * DIGIT
  BY Widths DEF Byte
<1>2. \A d \in Nat \ {0} : \A x \in Nat :
        x < d * d => /\ x % d \in 0..(d - 1) /\ x \div d \in 0..(d - 1)
                     /\ x = (x % d) + d * (x \div d)
  OBVIOUS
<1>3. DIGIT \in Nat \ {0}
  BY Widths
<1>4. /\ v % DIGIT \in 0..(DIGIT - 1) /\ v \div DIGIT \in 0..(DIGIT - 1)
      /\ v = (v % DIGIT) + DIGIT * (v \div DIGIT)
  BY <1>1, <1>2, <1>3
<1>5. QED
  BY <1>4 DEF Lo, Hi, Digit

LEMMA Join ==
  ASSUME NEW l \in Digit, NEW h \in Digit
  PROVE  l + DIGIT * h \in Byte
<1>1. \A d \in Nat \ {0} : \A x \in 0..(d - 1) : \A y \in 0..(d - 1) :
        x + d * y \in 0..(d * d - 1)
  <2> SUFFICES ASSUME NEW d \in Nat \ {0}, NEW x \in 0..(d - 1), NEW y \in 0..(d - 1)
               PROVE  x + d * y \in 0..(d * d - 1)
    OBVIOUS
  <2>1. d * y <= d * (d - 1)
    OBVIOUS
  <2>2. d * (d - 1) = d * d - d
    OBVIOUS
  <2>3. d * y \in Nat
    OBVIOUS
  <2>4. QED
    BY <2>1, <2>2, <2>3
<1>2. QED
  BY <1>1, Widths DEF Digit, Byte

\* Two digits and a carry in, divided and reduced.
LEMMA Carry ==
  ASSUME NEW x \in Digit, NEW y \in Digit, NEW c \in {0, 1}
  PROVE  /\ (x + y + c) % DIGIT \in Digit
         /\ (x + y + c) \div DIGIT \in {0, 1}
         /\ x + y + c = ((x + y + c) % DIGIT) + DIGIT * ((x + y + c) \div DIGIT)
<1>1. \A d \in Nat \ {0} : \A n \in Nat :
        n < 2 * d => /\ n % d \in 0..(d - 1) /\ n \div d \in {0, 1}
                     /\ n = (n % d) + d * (n \div d)
  OBVIOUS
<1>2. x + y + c \in Nat /\ x + y + c < 2 * DIGIT
  BY Widths DEF Digit
<1>3. DIGIT \in Nat \ {0}
  BY Widths
<1> DEFINE n == x + y + c
<1> HIDE DEF n
<1>4. n \in Nat /\ n < 2 * DIGIT
  BY <1>2 DEF n
<1>5. /\ n % DIGIT \in 0..(DIGIT - 1) /\ n \div DIGIT \in {0, 1}
      /\ n = (n % DIGIT) + DIGIT * (n \div DIGIT)
  BY <1>1, <1>3, <1>4
<1>6. QED
  BY <1>5 DEF Digit, n

\* What is left of a sum when its multiple of BYTE is dropped.
LEMMA Drop ==
  ASSUME NEW r \in Byte, NEW k \in {0, 1}
  PROVE  (r + BYTE * k) % BYTE = r
<1>1. \A b \in Nat \ {0} : \A x \in 0..(b - 1) : x % b = x /\ (x + b) % b = x
  OBVIOUS
<1>2. CASE k = 0
  BY <1>1, <1>2, Widths DEF Byte
<1>3. CASE k = 1
  BY <1>1, <1>3, Widths DEF Byte
<1>4. QED
  BY <1>2, <1>3

\* The adder: two digits of each operand, with the carry between them.
LEMMA TwoDigits ==
  ASSUME NEW al \in Digit, NEW ah \in Digit, NEW bl \in Digit, NEW bh \in Digit,
         NEW c \in {0, 1}
  PROVE  LET lo == al + bl + c
             hi == ah + bh + (lo \div DIGIT)
             s  == (lo % DIGIT) + DIGIT * (hi % DIGIT)
         IN  /\ s \in Byte
             /\ s = ((al + DIGIT * ah) + (bl + DIGIT * bh) + c) % BYTE
<1> DEFINE lo == al + bl + c
           c1 == lo \div DIGIT
           hi == ah + bh + c1
           sl == lo % DIGIT
           sh == hi % DIGIT
           c2 == hi \div DIGIT
<1>1. sl \in Digit /\ c1 \in {0, 1} /\ lo = sl + DIGIT * c1
  BY Carry
<1> HIDE DEF c1, sl
<1>2. sh \in Digit /\ c2 \in {0, 1} /\ hi = sh + DIGIT * c2
  BY <1>1, Carry
<1> HIDE DEF sh, c2
<1>3. sl + DIGIT * sh \in Byte
  BY <1>1, <1>2, Join
<1>4. (al + DIGIT * ah) + (bl + DIGIT * bh) + c = (sl + DIGIT * sh) + BYTE * c2
  <2>1. al + bl + c = sl + DIGIT * c1 /\ ah + bh + c1 = sh + DIGIT * c2
    BY <1>1, <1>2
  <2>2. \A d, p, q, u, v, w, s, t, m, n \in Nat :
          p + u + w = s + d * m /\ q + v + m = t + d * n
            => (p + d * q) + (u + d * v) + w = (s + d * t) + (d * d) * n
    <3> SUFFICES ASSUME NEW d \in Nat, NEW p \in Nat, NEW q \in Nat, NEW u \in Nat,
                        NEW v \in Nat, NEW w \in Nat, NEW s \in Nat, NEW t \in Nat,
                        NEW m \in Nat, NEW n \in Nat,
                        p + u + w = s + d * m, q + v + m = t + d * n
                 PROVE  (p + d * q) + (u + d * v) + w = (s + d * t) + (d * d) * n
      OBVIOUS
    <3>1. d * (q + v + m) = d * (t + d * n)
      OBVIOUS
    <3>2. d * q + d * v + d * m = d * t + (d * d) * n
      BY <3>1
    <3>3. QED
      BY <3>2
  <2>3. DIGIT \in Nat /\ al \in Nat /\ ah \in Nat /\ bl \in Nat /\ bh \in Nat
        /\ c \in Nat /\ sl \in Nat /\ sh \in Nat /\ c1 \in Nat /\ c2 \in Nat
    BY <1>1, <1>2, Widths DEF Digit
  <2>4. QED
    BY <2>1, <2>2, <2>3, Widths
<1>5. QED
  BY <1>2, <1>3, <1>4, Drop DEF sl, sh, c1

\* One more on a number of one digit d above M values x.
LEMMA Increment ==
  ASSUME NEW M \in Nat \ {0}, NEW x \in 0..(M - 1), NEW d \in Digit
  PROVE  /\ DIGIT * M \in Nat \ {0}
         /\ d + DIGIT * x \in 0..(DIGIT * M - 1)
         /\ ((d + DIGIT * x) + 1) % (DIGIT * M) =
              IF d = DIGIT - 1 THEN DIGIT * ((x + 1) % M) ELSE (d + 1) + DIGIT * x
<1> DEFINE N == DIGIT * M
           X == DIGIT * x
<1>1. N \in Nat \ {0}
  BY Widths
<1>2. X \in Nat /\ X + DIGIT <= N
  <2>1. DIGIT * (x + 1) <= DIGIT * M
    BY Widths
  <2>2. QED
    BY <2>1, Widths
<1>3. \A b \in Nat \ {0} : \A y \in 0..(b - 1) : y % b = y /\ b % b = 0
  OBVIOUS
<1>4. d \in Nat /\ d <= DIGIT - 1
  BY Widths DEF Digit
<1>5. CASE d # DIGIT - 1
  <2> HIDE DEF N, X
  <2>1. (d + X) + 1 \in 0..(N - 1)
    BY <1>1, <1>2, <1>4, <1>5, Widths
  <2>2. ((d + X) + 1) % N = (d + 1) + X
    BY <1>1, <1>2, <1>3, <1>4, <2>1
  <2>3. d + X \in 0..(N - 1)
    BY <1>1, <1>2, <1>4, Widths
  <2>4. QED
    BY <1>1, <1>5, <2>2, <2>3 DEF N, X
<1>6. CASE d = DIGIT - 1
  <2>1. (d + X) + 1 = DIGIT * (x + 1)
    BY <1>6, Widths
  <2>2. CASE x + 1 < M
    <3>1. DIGIT * (x + 1) \in 0..(N - 1)
      <4>1. DIGIT * (x + 2) <= DIGIT * M
        BY <2>2, Widths
      <4>2. QED
        BY <4>1, Widths
    <3>2. (DIGIT * (x + 1)) % N = DIGIT * (x + 1)
      BY <1>1, <1>3, <3>1
    <3>3. (x + 1) % M = x + 1
      BY <1>3, <2>2
    <3>4. d + X \in 0..(N - 1)
      BY <1>1, <1>2, <1>4, Widths
    <3>5. QED
      BY <1>1, <1>6, <2>1, <3>2, <3>3, <3>4
  <2>3. CASE x + 1 = M
    <3>1. (DIGIT * (x + 1)) % N = 0
      BY <1>1, <1>3, <2>3
    <3>2. (x + 1) % M = 0
      BY <1>3, <2>3
    <3>3. d + X \in 0..(N - 1)
      BY <1>1, <1>2, <1>4, Widths
    <3>4. DIGIT * 0 = 0
      BY Widths
    <3>5. QED
      BY <1>1, <1>6, <2>1, <3>1, <3>2, <3>3, <3>4
  <2>4. QED
    BY <2>2, <2>3
<1>7. QED
  BY <1>5, <1>6

\* Four counters, each enabled by the ends of those below it, count to PCSIZE.
LEMMA FourDigits ==
  ASSUME NEW q \in [Chip -> Digit], NEW r \in [Chip -> Digit],
         \A i \in Chip : r[i] = IF \A j \in 0..(i - 1) : q[j] = DIGIT - 1
                               THEN (q[i] + 1) % DIGIT ELSE q[i]
  PROVE  /\ Value(r) = (Value(q) + 1) % PCSIZE
         /\ Value(q) \in 0..(PCSIZE - 1)
<1> DEFINE v2 == q[2] + DIGIT * q[3]
           v1 == q[1] + DIGIT * v2
           v0 == q[0] + DIGIT * v1
           M2 == DIGIT * DIGIT
           M1 == DIGIT * M2
           M0 == DIGIT * M1
<1>1. /\ q[0] \in Digit /\ q[1] \in Digit /\ q[2] \in Digit /\ q[3] \in Digit
      /\ DIGIT \in Nat \ {0} /\ q[3] \in 0..(DIGIT - 1)
  BY Widths DEF Chip, Digit
<1>2. /\ M2 \in Nat \ {0} /\ v2 \in 0..(M2 - 1)
      /\ (v2 + 1) % M2 = IF q[2] = DIGIT - 1 THEN DIGIT * ((q[3] + 1) % DIGIT)
                         ELSE (q[2] + 1) + DIGIT * q[3]
  BY <1>1, Increment
<1> HIDE DEF M2, v2
<1>3. /\ M1 \in Nat \ {0} /\ v1 \in 0..(M1 - 1)
      /\ (v1 + 1) % M1 = IF q[1] = DIGIT - 1 THEN DIGIT * ((v2 + 1) % M2)
                         ELSE (q[1] + 1) + DIGIT * v2
  <2>1. M2 \in Nat \ {0} /\ v2 \in 0..(M2 - 1) /\ q[1] \in Digit
    BY <1>1, <1>2
  <2>2. /\ DIGIT * M2 \in Nat \ {0} /\ q[1] + DIGIT * v2 \in 0..(DIGIT * M2 - 1)
        /\ ((q[1] + DIGIT * v2) + 1) % (DIGIT * M2) =
             IF q[1] = DIGIT - 1 THEN DIGIT * ((v2 + 1) % M2) ELSE (q[1] + 1) + DIGIT * v2
    BY <2>1, Increment
  <2>3. QED
    BY <2>2
<1> HIDE DEF M1, v1
<1>4. /\ M0 \in Nat \ {0} /\ v0 \in 0..(M0 - 1)
      /\ (v0 + 1) % M0 = IF q[0] = DIGIT - 1 THEN DIGIT * ((v1 + 1) % M1)
                         ELSE (q[0] + 1) + DIGIT * v1
  <2>1. M1 \in Nat \ {0} /\ v1 \in 0..(M1 - 1) /\ q[0] \in Digit
    BY <1>1, <1>3
  <2>2. /\ DIGIT * M1 \in Nat \ {0} /\ q[0] + DIGIT * v1 \in 0..(DIGIT * M1 - 1)
        /\ ((q[0] + DIGIT * v1) + 1) % (DIGIT * M1) =
             IF q[0] = DIGIT - 1 THEN DIGIT * ((v1 + 1) % M1) ELSE (q[0] + 1) + DIGIT * v1
    BY <2>1, Increment
  <2>3. QED
    BY <2>2
<1>5. M0 = PCSIZE /\ v0 = Value(q)
  BY DEF M1, M2, v1, v2, PCSIZE, Value
<1> HIDE DEF M0, v0
<1>6. \A d \in Digit : (d + 1) % DIGIT = IF d = DIGIT - 1 THEN 0 ELSE d + 1
  <2>1. \A b \in Nat \ {0} : \A y \in 0..(b - 1) :
          (y + 1) % b = IF y = b - 1 THEN 0 ELSE y + 1
    OBVIOUS
  <2>2. QED
    BY <1>1, <2>1 DEF Digit
<1>7. /\ r[0] = (q[0] + 1) % DIGIT
      /\ r[1] = IF q[0] = DIGIT - 1 THEN (q[1] + 1) % DIGIT ELSE q[1]
      /\ r[2] = IF q[0] = DIGIT - 1 /\ q[1] = DIGIT - 1
                THEN (q[2] + 1) % DIGIT ELSE q[2]
      /\ r[3] = IF q[0] = DIGIT - 1 /\ q[1] = DIGIT - 1 /\ q[2] = DIGIT - 1
                THEN (q[3] + 1) % DIGIT ELSE q[3]
  <2>1. 0..(0 - 1) = {} /\ 0..(1 - 1) = {0} /\ 0..(2 - 1) = {0, 1}
        /\ 0..(3 - 1) = {0, 1, 2} /\ Chip = {0, 1, 2, 3}
    BY DEF Chip
  <2>2. QED
    BY <2>1
<1>8. DIGIT * 0 = 0 /\ \A x \in Nat : 0 + x = x
  BY Widths
<1>9. (v2 + 1) % M2 = IF q[2] = DIGIT - 1 THEN 0 + DIGIT * ((q[3] + 1) % DIGIT)
                     ELSE ((q[2] + 1) % DIGIT) + DIGIT * q[3]
  BY <1>1, <1>2, <1>6, Widths
<1>10. CASE q[0] # DIGIT - 1
  <2>1. r[0] = q[0] + 1 /\ r[1] = q[1] /\ r[2] = q[2] /\ r[3] = q[3]
    BY <1>1, <1>6, <1>7, <1>10
  <2>2. (v0 + 1) % M0 = r[0] + DIGIT * (r[1] + DIGIT * (r[2] + DIGIT * r[3]))
    BY <1>4, <1>10, <2>1 DEF v1, v2
  <2>3. QED
    BY <1>4, <1>5, <2>2 DEF Value
<1>11. CASE q[0] = DIGIT - 1 /\ q[1] # DIGIT - 1
  <2>1. r[0] = 0 /\ r[1] = q[1] + 1 /\ r[2] = q[2] /\ r[3] = q[3]
    BY <1>1, <1>6, <1>7, <1>11
  <2>2. (v0 + 1) % M0 = DIGIT * (r[1] + DIGIT * (r[2] + DIGIT * r[3]))
    BY <1>3, <1>4, <1>11, <2>1 DEF v2
  <2>3. (v0 + 1) % M0 = r[0] + DIGIT * (r[1] + DIGIT * (r[2] + DIGIT * r[3]))
    BY <1>1, <2>1, <2>2, Widths DEF Digit
  <2>4. QED
    BY <1>4, <1>5, <2>3 DEF Value
<1>12. CASE q[0] = DIGIT - 1 /\ q[1] = DIGIT - 1
  <2>1. r[0] = 0 /\ r[1] = 0
    BY <1>1, <1>6, <1>7, <1>12
  <2>2. (v2 + 1) % M2 = r[2] + DIGIT * r[3]
    <3>1. CASE q[2] = DIGIT - 1
      <4>1. r[2] = 0 /\ r[3] = (q[3] + 1) % DIGIT
        BY <1>1, <1>6, <1>7, <1>12, <3>1
      <4>2. QED
        BY <1>9, <3>1, <4>1
    <3>2. CASE q[2] # DIGIT - 1
      <4>1. r[2] = (q[2] + 1) % DIGIT /\ r[3] = q[3]
        BY <1>7, <1>12, <3>2
      <4>2. QED
        BY <1>9, <3>2, <4>1
    <3>3. QED
      BY <3>1, <3>2
  <2>3. (v0 + 1) % M0 = DIGIT * (DIGIT * (r[2] + DIGIT * r[3]))
    BY <1>3, <1>4, <1>12, <2>2
  <2>4. (v0 + 1) % M0 = r[0] + DIGIT * (r[1] + DIGIT * (r[2] + DIGIT * r[3]))
    BY <2>1, <2>3, Widths DEF Chip, Digit
  <2>5. QED
    BY <1>4, <1>5, <2>4 DEF Value
<1>13. QED
  BY <1>10, <1>11, <1>12
-----------------------------------------------------------------------------
\* The simulator and the chips decode alike.
LEMMA Alike ==
  /\ Sim!BYTE = BYTE /\ Sim!PCSIZE = PCSIZE
  /\ Sim!ir = IR_full
  /\ Sim!is_JMP(IR_full) <=> is_JMP(IR_full)
  /\ Sim!is_JCC(IR_full) <=> is_JCC(IR_full)
  /\ Sim!is_SEG(IR_full) <=> is_SEG(IR_full)
  /\ Sim!is_NOP(IR_full) <=> is_NOP(IR_full)
  /\ Sim!is_data(IR_full) <=> data_ir
<1>1. /\ Sim!BYTE = BYTE /\ Sim!PCSIZE = PCSIZE /\ Sim!ir = IR_full
  BY DEF Sim!BYTE, BYTE, Sim!PCSIZE, PCSIZE, Sim!ir, IR_full, Sim!Fetch, Fetch, Sim!NOP, NOP
<1>2. /\ Sim!is_JMP(IR_full) <=> is_JMP(IR_full)
      /\ Sim!is_JCC(IR_full) <=> is_JCC(IR_full)
      /\ Sim!is_SEG(IR_full) <=> is_SEG(IR_full)
      /\ Sim!is_NOP(IR_full) <=> is_NOP(IR_full)
  BY DEF Sim!is_JMP, is_JMP, Sim!is_JCC, is_JCC, Sim!is_SEG, is_SEG, Sim!is_NOP, is_NOP,
         Sim!IMM, IMM, Sim!ALU, ALU
<1>3. Sim!is_data(IR_full) <=> data_ir
  BY <1>2 DEF Sim!is_data, data_ir, is_data
<1>4. QED
  BY <1>1, <1>2, <1>3

\* What the ROM answers is an instruction.
LEMMA Decoded ==
  ASSUME IsProgram(PROG_ROM)
  PROVE  IsInstr(IR_full)
<1>1. IsInstr(NOP)
  BY Widths DEF IsInstr, NOP, is_NOP, Byte, RAM, D_RAM
<1>2. QED
  BY <1>1 DEF IsProgram, IR_full, Fetch

\* The sum of the two adders is that of the simulator: adding the complement and
\* one subtracts.
LEMMA Adder ==
  ASSUME TypeOK
  PROVE  ALU_S \in Byte /\ ALU_S = Sim!alu_compute(A_Q, B_Q, xx)
<1>1. /\ A_Q \in Byte /\ B_Q \in Byte
  BY DEF TypeOK
<1>2. /\ Lo(A_Q) \in Digit /\ Hi(A_Q) \in Digit /\ A_Q = Lo(A_Q) + DIGIT * Hi(A_Q)
      /\ Lo(B_Q) \in Digit /\ Hi(B_Q) \in Digit /\ B_Q = Lo(B_Q) + DIGIT * Hi(B_Q)
  BY <1>1, Split
<1> DEFINE bl == XorB(Lo(B_Q))
           bh == XorB(Hi(B_Q))
<1>3. bl \in Digit /\ bh \in Digit /\ Cin \in {0, 1}
  BY <1>2, Widths DEF XorB, Cin, Digit
<1>4. /\ ALU_S \in Byte
      /\ ALU_S = (A_Q + (bl + DIGIT * bh) + Cin) % BYTE
  <2> HIDE DEF bl, bh
  <2>1. LET lo == Lo(A_Q) + bl + Cin
            hi == Hi(A_Q) + bh + (lo \div DIGIT)
            s  == (lo % DIGIT) + DIGIT * (hi % DIGIT)
        IN  /\ s \in Byte
            /\ s = ((Lo(A_Q) + DIGIT * Hi(A_Q)) + (bl + DIGIT * bh) + Cin) % BYTE
    BY <1>2, <1>3, TwoDigits
  <2>2. QED
    BY <1>2, <2>1 DEF ALU_S, SumLo, SumHi, c4_lo, bl, bh
<1>5. (bl + DIGIT * bh) + Cin = IF xx = 1 THEN BYTE - B_Q ELSE B_Q
  <2>1. CASE xx = 1
    <3>1. \A d, l, h \in Nat : ((d - 1 - l) + d * (d - 1 - h)) + 1 = d * d - (l + d * h)
      OBVIOUS
    <3>2. DIGIT \in Nat /\ Lo(B_Q) \in Nat /\ Hi(B_Q) \in Nat
      BY <1>2, Widths DEF Digit
    <3>3. ((DIGIT - 1 - Lo(B_Q)) + DIGIT * (DIGIT - 1 - Hi(B_Q))) + 1
            = DIGIT * DIGIT - (Lo(B_Q) + DIGIT * Hi(B_Q))
      BY <3>1, <3>2
    <3>4. bl = DIGIT - 1 - Lo(B_Q) /\ bh = DIGIT - 1 - Hi(B_Q) /\ Cin = 1
      BY <2>1 DEF XorB, Cin, sub_mode
    <3>5. QED
      BY <1>2, <2>1, <3>3, <3>4, Widths
  <2>2. CASE xx # 1
    <3>1. bl = Lo(B_Q) /\ bh = Hi(B_Q) /\ Cin = 0
      BY <2>2 DEF XorB, Cin, sub_mode
    <3>2. B_Q \in Nat
      BY <1>1, Widths DEF Byte
    <3>3. QED
      BY <1>2, <2>2, <3>1, <3>2
  <2>3. QED
    BY <2>1, <2>2
<1>6. A_Q + (bl + DIGIT * bh) + Cin = A_Q + ((bl + DIGIT * bh) + Cin)
  <2>1. A_Q \in Nat /\ bl + DIGIT * bh \in Nat /\ Cin \in Nat
    <3>1. bl + DIGIT * bh \in Byte
      BY <1>3, Join
    <3>2. QED
      BY <1>1, <1>3, <3>1, Widths DEF Byte
  <2> HIDE DEF bl, bh
  <2>2. \A x, y, z \in Nat : x + y + z = x + (y + z)
    OBVIOUS
  <2>3. QED
    BY <2>1, <2>2
<1>7. Sim!alu_compute(A_Q, B_Q, xx)
        = IF xx = 1 THEN (A_Q + (BYTE - B_Q)) % BYTE ELSE (A_Q + B_Q) % BYTE
  BY Alike DEF Sim!alu_compute
<1>8. QED
  BY <1>4, <1>5, <1>6, <1>7

\* The counters load the address register.
LEMMA Loads ==
  ASSUME TypeOK
  PROVE  /\ \A i \in Chip : LoadData(i) \in Digit
         /\ RA_L_Q + BYTE * RA_H_Q = LoadData(0) + DIGIT * (LoadData(1)
              + DIGIT * (LoadData(2) + DIGIT * LoadData(3)))
<1>1. /\ LoadData(0) = Lo(RA_L_Q) /\ LoadData(1) = Hi(RA_L_Q)
      /\ LoadData(2) = Lo(RA_H_Q) /\ LoadData(3) = Hi(RA_H_Q)
  BY DEF LoadData
<1>2. RA_L_Q \in Byte /\ RA_H_Q \in Byte
  BY DEF TypeOK
<1>3. /\ Lo(RA_L_Q) \in Digit /\ Hi(RA_L_Q) \in Digit
      /\ RA_L_Q = Lo(RA_L_Q) + DIGIT * Hi(RA_L_Q)
      /\ Lo(RA_H_Q) \in Digit /\ Hi(RA_H_Q) \in Digit
      /\ RA_H_Q = Lo(RA_H_Q) + DIGIT * Hi(RA_H_Q)
  BY <1>2, Split
<1>4. \A d, a, b, c, e \in Nat :
        (a + d * b) + (d * d) * (c + d * e) = a + d * (b + d * (c + d * e))
  <2> SUFFICES ASSUME NEW d \in Nat, NEW a \in Nat, NEW b \in Nat, NEW c \in Nat, NEW e \in Nat
               PROVE  (a + d * b) + (d * d) * (c + d * e) = a + d * (b + d * (c + d * e))
    OBVIOUS
  <2>1. \A f \in Nat : (a + d * b) + (d * d) * f = a + d * (b + d * f)
    OBVIOUS
  <2>2. c + d * e \in Nat
    OBVIOUS
  <2>3. QED
    BY <2>1, <2>2
<1>5. (Lo(RA_L_Q) + DIGIT * Hi(RA_L_Q)) + (DIGIT * DIGIT) * (Lo(RA_H_Q) + DIGIT * Hi(RA_H_Q))
        = Lo(RA_L_Q) + DIGIT * (Hi(RA_L_Q) + DIGIT * (Lo(RA_H_Q) + DIGIT * Hi(RA_H_Q)))
  <2>1. /\ DIGIT \in Nat /\ Lo(RA_L_Q) \in Nat /\ Hi(RA_L_Q) \in Nat
        /\ Lo(RA_H_Q) \in Nat /\ Hi(RA_H_Q) \in Nat
    BY <1>3, Widths DEF Digit
  <2>2. QED
    BY <1>4, <2>1
<1>6. \A i \in Chip : LoadData(i) \in Digit
  <2>1. Chip = {0, 1, 2, 3}
    BY DEF Chip
  <2>2. QED
    BY <1>1, <1>3, <2>1
<1>7. QED
  BY <1>1, <1>3, <1>5, <1>6, Widths

\* The windows of the address space.
LEMMA Windows ==
  ASSUME TypeOK
  PROVE  /\ seg4_cp_access <=> Sim!seg4_cp
         /\ seg3_comm_access <=> Sim!seg3_comm
<1>1. RA_L_Q = Hi(RA_L_Q) * DIGIT + Lo(RA_L_Q)
  <2>1. /\ Lo(RA_L_Q) \in Digit /\ Hi(RA_L_Q) \in Digit
        /\ RA_L_Q = Lo(RA_L_Q) + DIGIT * Hi(RA_L_Q)
    BY Split DEF TypeOK
  <2>2. \A l, h, d \in Nat : l + d * h = h * d + l
    OBVIOUS
  <2>3. QED
    BY <2>1, <2>2, Widths DEF Digit
<1>2. QED
  BY <1>1 DEF seg4_cp_access, seg3_comm_access, Sim!seg4_cp, Sim!seg3_comm, Sim!Window

\* The coprocessor answers with bytes and keeps bytes.
LEMMA CpBytes ==
  ASSUME NEW c \in [data: Byte, out_l: Byte], NEW idx, NEW v \in Byte
  PROVE  /\ CpRead(c, idx) \in Byte
         /\ CpWrite(c, idx, v) \in [data: Byte, out_l: Byte]
<1>1. CpType \in Byte
  <2>1. \A d \in Nat \ {0} : 10 % d \in 0..(d - 1)
    OBVIOUS
  <2>2. 10 % DIGIT \in Digit
    BY <2>1, Widths DEF Digit
  <2>3. (10 % DIGIT) + DIGIT * (10 % DIGIT) \in Byte
    BY <2>2, Join
  <2>4. \A d, t \in Nat : t * (d + 1) = t + d * t
    OBVIOUS
  <2>5. QED
    BY <2>2, <2>3, <2>4, Widths DEF CpType, Digit
<1>2. 0 \in Byte
  BY Widths DEF Byte
<1>3. BYTE - 1 - c.data \in Byte
  BY Widths DEF Byte
<1>4. CpRead(c, idx) \in Byte
  BY <1>1, <1>2 DEF CpRead
<1>5. CpWrite(c, idx, v) \in [data: Byte, out_l: Byte]
  BY <1>3 DEF CpWrite
<1>6. QED
  BY <1>4, <1>5

\* A data instruction puts on the bus what the simulator puts there, a byte.
LEMMA Bus ==
  ASSUME TypeOK, data_ir
  PROVE  DB_oe \in Byte /\ DB_oe = Sim!db
<1>1. IsInstr(IR_full)
  BY Decoded DEF TypeOK
<1>2. src_hi \in {IMM, ALU, RAM, IO0} /\ xx \in Byte
  BY <1>1 DEF IsInstr, data_ir, is_data, src_hi, xx
<1>3. RAM_read_data = Sim!ram_read
  <2>1. /\ CpRead(cp, RA_L_Q) = Sim!CpRead(cp, RA_L_Q)
        /\ Get(mem, SRAM_ADDR_cpu) = Sim!Get(mem, Sim!Addr)
    BY DEF CpRead, Sim!CpRead, CpType, Sim!CpType, Get, Sim!Get, SRAM_ADDR_cpu, Sim!Addr
  <2>2. comm_read_data = Sim!comm_read(RA_L_Q)
    BY DEF comm_read_data, Sim!comm_read
  <2>3. QED
    BY <2>1, <2>2, Windows DEF RAM_read_data, Sim!ram_read
<1>4. RAM_read_data \in Byte
  <2>1. CpRead(cp, RA_L_Q) \in Byte
    BY CpBytes, <1>2 DEF TypeOK
  <2>2. comm_read_data \in Byte
    BY Widths DEF comm_read_data, TypeOK, Byte
  <2>3. Get(mem, SRAM_ADDR_cpu) \in Byte
    BY Widths DEF Get, TypeOK, Byte
  <2>4. QED
    BY <2>1, <2>2, <2>3 DEF RAM_read_data
<1>5. AUDIO_OUT_Q \in Byte
  BY DEF TypeOK
<1>6. /\ Sim!ir[1] = src_hi /\ Sim!ir[3] = xx
      /\ Sim!IMM = IMM /\ Sim!ALU = ALU /\ Sim!RAM = RAM /\ Sim!IO0 = IO0
  BY Alike DEF src_hi, xx, Sim!IMM, IMM, Sim!ALU, ALU, Sim!RAM, RAM, Sim!IO0, IO0
<1>7. DB_oe = CASE src_hi = IMM -> xx
                [] src_hi = ALU -> ALU_S
                [] src_hi = RAM -> RAM_read_data
                [] src_hi = IO0 -> AUDIO_OUT_Q
  BY DEF DB_oe
<1>8. Sim!db = CASE src_hi = IMM -> xx
                 [] src_hi = ALU -> ALU_S
                 [] src_hi = RAM -> RAM_read_data
                 [] src_hi = IO0 -> AUDIO_OUT_Q
  BY <1>3, <1>6, Adder DEF Sim!db
<1>9. DB_oe \in Byte
  BY <1>2, <1>4, <1>5, <1>7, Adder DEF IMM, ALU, RAM, IO0
<1>10. QED
  BY <1>7, <1>8, <1>9
-----------------------------------------------------------------------------
LEMMA CountsAreDigits ==
  ASSUME TypeOK
  PROVE  NextPC \in [Chip -> Digit]
<1>1. \A d \in Digit : (d + 1) % DIGIT \in Digit
  <2>1. \A b \in Nat \ {0} : \A y \in Nat : y % b \in 0..(b - 1)
    OBVIOUS
  <2>2. QED
    BY <2>1, Widths DEF Digit
<1>2. 0 \in Digit
  BY Widths DEF Digit
<1>3. ASSUME NEW i \in Chip
      PROVE  (IF ~RST_n THEN 0
              ELSE IF pc_load THEN LoadData(i)
              ELSE IF pc_en /\ (i = 0 \/ TC(i - 1)) THEN (PC_Q[i] + 1) % DIGIT
              ELSE PC_Q[i]) \in Digit
  <2>1. PC_Q[i] \in Digit
    BY DEF TypeOK
  <2>2. LoadData(i) \in Digit
    BY Loads
  <2>3. QED
    BY <1>1, <1>2, <2>1, <2>2
<1>4. QED
  BY <1>3 DEF NextPC

\* A byte stored at an address is a byte of memory.
LEMMA Stored ==
  ASSUME NEW m, DOMAIN m \subseteq Address, \A x \in DOMAIN m : m[x] \in Byte,
         NEW a \in Address, NEW v \in Byte
  PROVE  /\ DOMAIN Put(m, a, v) \subseteq Address
         /\ \A x \in DOMAIN Put(m, a, v) : Put(m, a, v)[x] \in Byte
  BY DEF Put

LEMMA TypeStep ==
  ASSUME GlowInv, [Next]_vars
  PROVE  GlowInv'
<1> USE DEF GlowInv
<1>1. CASE Clock
  <2>1. /\ A_Q' \in Byte /\ B_Q' \in Byte /\ RA_L_Q' \in Byte /\ RA_H_Q' \in Byte
        /\ AUDIO_OUT_Q' \in Byte /\ IO_OUT_Q' \in Byte
    BY <1>1, Bus DEF Clock, Latches, Latch, TypeOK, dst_is_ram_write
  <2>2. SEG_r' \in 0..7
    <3>1. CASE is_SEG(IR_full)
      <4>1. IsInstr(IR_full)
        BY Decoded DEF TypeOK
      <4>2. xx \in Nat
        BY <4>1, Widths DEF IsInstr, xx, Byte
      <4>3. \A y \in Nat : y % 8 \in 0..7
        OBVIOUS
      <4>4. xx % 8 \in 0..7
        BY <4>2, <4>3
      <4>5. QED
        BY <1>1, <4>4 DEF Clock, Latches, TypeOK
    <3>2. CASE ~is_SEG(IR_full)
      BY <1>1, <3>2 DEF Clock, Latches, TypeOK
    <3>3. QED
      BY <3>1, <3>2
  <2>3. PC_Q' \in [Chip -> Digit]
    BY <1>1, CountsAreDigits DEF Clock
  <2>4. DOMAIN mem' \subseteq Address /\ \A a \in DOMAIN mem' : mem'[a] \in Byte
    <3>1. DOMAIN mem \subseteq Address /\ \A x \in DOMAIN mem : mem[x] \in Byte
      BY DEF TypeOK
    <3>2. CASE mem' = mem
      BY <3>1, <3>2
    <3>3. CASE sram_write_cpu /\ mem' = Put(mem, SRAM_ADDR_cpu, DB_oe)
      <4>1. SRAM_ADDR_cpu \in Address /\ DB_oe \in Byte
        BY <3>3, Bus DEF TypeOK, SRAM_ADDR_cpu, Address, sram_write_cpu, dst_is_ram_write
      <4>2. QED
        BY <3>1, <3>3, <4>1, Stored
    <3>4. CASE \E i \in Image : mem' = Put(mem, i[1], i[2])
      <4>1. PICK i \in Image : mem' = Put(mem, i[1], i[2])
        BY <3>4
      <4>2. i[1] \in Address /\ i[2] \in Byte
        BY GlowAssumption
      <4>3. QED
        BY <3>1, <4>1, <4>2, Stored
    <3>5. QED
      BY <1>1, <3>2, <3>3, <3>4 DEF Clock, Write
  <2>5. cp' \in [data: Byte, out_l: Byte]
    <3>1. CASE cp_write
      BY <1>1, <3>1, Bus, CpBytes DEF Clock, TypeOK, cp_write, dst_is_ram_write
    <3>2. CASE ~cp_write
      BY <1>1, <3>2 DEF Clock, TypeOK
    <3>3. QED
      BY <3>1, <3>2
  <2>6. UNCHANGED <<MODE, RST_n, PROG_ROM>> /\ tick' \in BOOLEAN
    BY <1>1 DEF Clock, pinvars, TypeOK
  <2>7. Held'
    <3>1. CASE ~RST_n
      <4>1. PC_Q' = [i \in Chip |-> 0]
        BY <1>1, <3>1 DEF Clock, NextPC
      <4>2. SEG_r' = 0
        BY <1>1, <3>1 DEF Clock, Latches, cpu_run, Held
      <4>3. QED
        BY <4>1, <4>2 DEF Held
    <3>2. CASE RST_n
      BY <2>6, <3>2 DEF Held
    <3>3. QED
      BY <3>1, <3>2
  <2>8. QED
    BY <2>1, <2>2, <2>3, <2>4, <2>5, <2>6, <2>7 DEF TypeOK
<1>2. CASE Pins
  <2>1. [i \in Chip |-> 0] \in [Chip -> Digit]
    BY Widths DEF Digit
  <2>2. PC_Q' \in [Chip -> Digit] /\ SEG_r' \in 0..7
    BY <1>2, <2>1 DEF Pins, TypeOK
  <2>3. QED
    BY <1>2, <2>2 DEF Pins, TypeOK, Held, q374
<1>3. CASE UNCHANGED vars
  BY <1>3 DEF vars, pinvars, q374, TypeOK, Held
<1>4. QED
  BY <1>1, <1>2, <1>3 DEF Next

LEMMA TypeInit == Init => GlowInv
<1> SUFFICES ASSUME Init PROVE GlowInv
  OBVIOUS
<1>1. 0 \in Byte /\ 0 \in Digit /\ 0 \in 0..7
  BY Widths DEF Byte, Digit
<1>2. IsProgram(PROG_ROM)
  BY GlowAssumption DEF Init
<1>3. CpPower \in [data: Byte, out_l: Byte]
  BY <1>1 DEF CpPower
<1>4. [i \in Chip |-> 0] \in [Chip -> Digit]
  BY <1>1
<1>5. DOMAIN << >> = {}
  OBVIOUS
<1>6. QED
  BY <1>1, <1>2, <1>3, <1>4, <1>5 DEF Init, GlowInv, TypeOK, Held

THEOREM GlowInvariant == Spec => []GlowInv
  BY TypeInit, TypeStep, PTL DEF Spec

\* The registers stay within their widths and the bus carries bytes (MiniGlow's
\* TypeOK), whatever the program.
THEOREM GlowTypeOK == Spec => []TypeOK
<1>1. GlowInv => TypeOK
  BY DEF GlowInv
<1>2. QED
  BY <1>1, GlowInvariant, PTL
-----------------------------------------------------------------------------
\* What the simulator's step works on, in terms of the chips.
LEMMA Mapped ==
  ASSUME TypeOK
  PROVE  /\ Sim!ir = IR_full /\ Sim!ir[2] = dst_lo /\ Sim!ir[3] = xx
         /\ Sim!D_A = D_A /\ Sim!D_B = D_B /\ Sim!D_RA_L = D_RA_L /\ Sim!D_RA_H = D_RA_H
         /\ Sim!D_IO0 = D_IO0 /\ Sim!D_RAM = D_RAM
         /\ Sim!Addr = SRAM_ADDR_cpu
         /\ \A m, a, v : Sim!Put(m, a, v) = Put(m, a, v)
         /\ \A c, n, v : Sim!CpWrite(c, n, v) = CpWrite(c, n, v)
<1>1. /\ Sim!ir = IR_full /\ Sim!ir[2] = dst_lo /\ Sim!ir[3] = xx /\ Sim!Addr = SRAM_ADDR_cpu
  BY Alike DEF dst_lo, xx, Sim!Addr, SRAM_ADDR_cpu
<1>2. /\ Sim!D_A = D_A /\ Sim!D_B = D_B /\ Sim!D_RA_L = D_RA_L /\ Sim!D_RA_H = D_RA_H
      /\ Sim!D_IO0 = D_IO0 /\ Sim!D_RAM = D_RAM
  BY DEF Sim!D_A, D_A, Sim!D_B, D_B, Sim!D_RA_L, D_RA_L, Sim!D_RA_H, D_RA_H,
         Sim!D_IO0, D_IO0, Sim!D_RAM, D_RAM
<1>3. \A m, a, v : Sim!Put(m, a, v) = Put(m, a, v)
  BY DEF Sim!Put, Put
<1>4. \A c, n, v : Sim!CpWrite(c, n, v) = CpWrite(c, n, v)
  BY Alike DEF Sim!CpWrite, CpWrite
<1>5. QED
  BY <1>1, <1>2, <1>3, <1>4

\* The kinds of instruction exclude each other.
LEMMA OneKind ==
  /\ data_ir => ~is_JMP(IR_full) /\ ~is_JCC(IR_full) /\ ~is_SEG(IR_full) /\ ~is_NOP(IR_full)
  /\ data_ir \/ is_JMP(IR_full) \/ is_JCC(IR_full) \/ is_SEG(IR_full) \/ is_NOP(IR_full)
  /\ is_JMP(IR_full) => ~is_JCC(IR_full) /\ ~is_SEG(IR_full) /\ ~is_NOP(IR_full)
  /\ is_JCC(IR_full) => ~is_SEG(IR_full) /\ ~is_NOP(IR_full)
  /\ is_SEG(IR_full) => ~is_NOP(IR_full)
  BY DEF data_ir, is_data, is_JMP, is_JCC, is_SEG, is_NOP, IMM, ALU

\* Without a data instruction nothing is written.
LEMMA NoWrite ==
  ASSUME ~data_ir
  PROVE  ~sram_write_cpu /\ ~cp_write /\ ~dst_is_ram_write
  BY DEF sram_write_cpu, cp_write, dst_is_ram_write

\* The program counter of a clock, as a number.
LEMMA PcJumps ==
  ASSUME TypeOK, Clock, RST_n, pc_load
  PROVE  Value(PC_Q') = Sim!Target
<1>1. /\ PC_Q'[0] = LoadData(0) /\ PC_Q'[1] = LoadData(1)
      /\ PC_Q'[2] = LoadData(2) /\ PC_Q'[3] = LoadData(3)
  BY DEF Clock, NextPC, Chip
<1>2. Value(PC_Q') = LoadData(0) + DIGIT * (LoadData(1)
                       + DIGIT * (LoadData(2) + DIGIT * LoadData(3)))
  BY <1>1 DEF Value
<1>3. QED
  BY <1>2, Loads, Alike DEF Sim!Target

LEMMA PcCounts ==
  ASSUME TypeOK, Clock, cpu_run, ~pc_load
  PROVE  Value(PC_Q') = Sim!Advance
<1>1. PC_Q \in [Chip -> Digit] /\ PC_Q' \in [Chip -> Digit]
  BY CountsAreDigits DEF Clock, TypeOK
<1>2. \A i \in Chip : PC_Q'[i] = IF \A j \in 0..(i - 1) : PC_Q[j] = DIGIT - 1
                                THEN (PC_Q[i] + 1) % DIGIT ELSE PC_Q[i]
  <2> SUFFICES ASSUME NEW i \in Chip
               PROVE  PC_Q'[i] = IF \A j \in 0..(i - 1) : PC_Q[j] = DIGIT - 1
                                 THEN (PC_Q[i] + 1) % DIGIT ELSE PC_Q[i]
    OBVIOUS
  <2>1. PC_Q'[i] = IF i = 0 \/ TC(i - 1) THEN (PC_Q[i] + 1) % DIGIT ELSE PC_Q[i]
    BY DEF Clock, NextPC, cpu_run, pc_en
  <2>2. (i = 0 \/ TC(i - 1)) <=> \A j \in 0..(i - 1) : PC_Q[j] = DIGIT - 1
    <3>1. i = 0 => 0..(i - 1) = {}
      OBVIOUS
    <3>2. QED
      BY <3>1 DEF TC
  <2>3. QED
    BY <2>1, <2>2
<1>3. Value(PC_Q') = (Value(PC_Q) + 1) % PCSIZE
  BY <1>1, <1>2, FourDigits
<1>4. QED
  BY <1>3, Alike DEF Sim!Advance

\* Outside a run the counters only load.
LEMMA PcRests ==
  ASSUME GlowInv, Clock, ~cpu_run, ~RST_n \/ ~pc_load
  PROVE  PC_Q' = PC_Q
<1>1. CASE ~RST_n
  BY <1>1 DEF GlowInv, Held, Clock, NextPC
<1>2. CASE RST_n
  <2>1. ~pc_load /\ ~pc_en
    BY <1>2 DEF pc_en
  <2>2. PC_Q' = [i \in Chip |-> PC_Q[i]]
    BY <1>2, <2>1 DEF Clock, NextPC
  <2>3. PC_Q = [i \in Chip |-> PC_Q[i]]
    BY DEF GlowInv, TypeOK
  <2>4. QED
    BY <2>2, <2>3
<1>3. QED
  BY <1>1, <1>2

\* While the CPU is off every register keeps its value.
LEMMA Latched ==
  ASSUME Clock, ~cpu_run
  PROVE  UNCHANGED <<A_Q, B_Q, RA_L_Q, RA_H_Q, AUDIO_OUT_Q, IO_OUT_Q, SEG_r, PROG_ROM>>
  BY DEF Clock, Latches, Latch

\* A jump is taken by the simulator when the chips load the counters.
LEMMA Decides ==
  ASSUME TypeOK
  PROVE  pc_load <=> Sim!Taken
<1>1. is_JCC(IR_full) => (ALU_S = 0 <=> Sim!alu_compute(A_Q, B_Q, xx) = 0)
  BY Adder
<1>2. QED
  BY <1>1, Mapped, Alike DEF pc_load, Sim!Taken

\* The strobes of a write do what the simulator's write does, whether the CPU runs
\* or not.
LEMMA StoresAlike ==
  ASSUME TypeOK
  PROVE  /\ cp' = (IF cp_write THEN CpWrite(cp, RA_L_Q, DB_oe) ELSE cp) => Sim!StoreCp
         /\ mem' = (IF sram_write_cpu THEN Put(mem, SRAM_ADDR_cpu, DB_oe) ELSE mem)
              => Sim!StoreSram
<1>1. dst_lo = D_RAM => data_ir
  BY DEF dst_lo, D_RAM, data_ir, is_data, is_JMP, is_JCC, is_SEG, is_NOP
<1>2. dst_is_ram_write <=> Sim!ir[2] = Sim!D_RAM
  BY <1>1, Mapped DEF dst_is_ram_write
<1>3. dst_is_ram_write => DB_oe = Sim!db
  BY Bus DEF dst_is_ram_write
<1>4. cp_write <=> Sim!ir[2] = Sim!D_RAM /\ Sim!seg4_cp
  BY <1>2, Windows DEF cp_write
<1>5. sram_write_cpu <=> Sim!ir[2] = Sim!D_RAM /\ ~Sim!seg4_cp /\ ~Sim!seg3_comm
  BY <1>2, Windows DEF sram_write_cpu
<1>6. cp' = (IF cp_write THEN CpWrite(cp, RA_L_Q, DB_oe) ELSE cp) => Sim!StoreCp
  <2>1. cp_write => DB_oe = Sim!db
    BY <1>3 DEF cp_write
  <2>2. QED
    BY <1>4, <2>1, Mapped DEF Sim!StoreCp
<1>7. mem' = (IF sram_write_cpu THEN Put(mem, SRAM_ADDR_cpu, DB_oe) ELSE mem)
        => Sim!StoreSram
  <2>1. sram_write_cpu => DB_oe = Sim!db
    BY <1>3 DEF sram_write_cpu
  <2>2. QED
    BY <1>5, <2>1, Mapped DEF Sim!StoreSram
<1>8. QED
  BY <1>6, <1>7

LEMMA RunsStep ==
  ASSUME GlowInv, Clock, cpu_run
  PROVE  Sim!Step
<1> USE DEF GlowInv
<1>1. PROG_ROM' = PROG_ROM /\ RST_n /\ MODE
  BY DEF Clock, cpu_run
<1>2. CASE is_SEG(IR_full)
  <2>1. ~pc_load /\ ~data_ir
    BY <1>2, OneKind DEF pc_load
  <2>2. Value(PC_Q)' = Sim!Advance
    BY <2>1, PcCounts DEF Value
  <2>3. SEG_r' = xx % 8
    BY <1>2 DEF Clock, Latches
  <2>4. UNCHANGED <<A_Q, B_Q, RA_L_Q, RA_H_Q, AUDIO_OUT_Q, IO_OUT_Q, mem, cp>>
    BY <1>1, <2>1, NoWrite DEF Clock, Latches, Latch, Write
  <2>5. Sim!Segment
    BY <1>2, <2>2, <2>3, <2>4, Mapped, Alike DEF Sim!Segment, Sim!regvars, Sim!memvars
  <2>6. QED
    BY <1>1, <2>5 DEF Sim!Step
<1>3. CASE is_NOP(IR_full)
  <2>1. ~pc_load /\ ~data_ir /\ ~is_SEG(IR_full)
    BY <1>3, OneKind DEF pc_load
  <2>2. Value(PC_Q)' = Sim!Advance
    BY <2>1, PcCounts DEF Value
  <2>3. UNCHANGED <<A_Q, B_Q, RA_L_Q, RA_H_Q, AUDIO_OUT_Q, IO_OUT_Q, mem, cp, SEG_r>>
    BY <1>1, <2>1, NoWrite DEF Clock, Latches, Latch, Write
  <2>4. Sim!Idle
    BY <1>3, <2>2, <2>3, Mapped, Alike DEF Sim!Idle, Sim!regvars, Sim!memvars
  <2>5. QED
    BY <1>1, <2>4 DEF Sim!Step
<1>4. CASE is_JMP(IR_full) \/ is_JCC(IR_full)
  <2>1. ~data_ir /\ ~is_SEG(IR_full)
    BY <1>4, OneKind
  <2>2. UNCHANGED <<A_Q, B_Q, RA_L_Q, RA_H_Q, AUDIO_OUT_Q, IO_OUT_Q, mem, cp, SEG_r>>
    BY <1>1, <2>1, NoWrite DEF Clock, Latches, Latch, Write
  <2>3. Value(PC_Q)' = IF pc_load THEN Sim!Target ELSE Sim!Advance
    BY <1>1, PcJumps, PcCounts DEF Value
  <2>4. Sim!Jump
    BY <1>4, <2>2, <2>3, Decides, Mapped, Alike DEF Sim!Jump, Sim!regvars, Sim!memvars
  <2>5. QED
    BY <1>1, <2>4 DEF Sim!Step
<1>5. CASE data_ir
  <2>1. ~pc_load /\ ~is_SEG(IR_full)
    BY <1>5, OneKind DEF pc_load
  <2>2. Value(PC_Q)' = Sim!Advance
    BY <2>1, PcCounts DEF Value
  <2>3. DB_oe = Sim!db
    BY <1>5, Bus
  <2>4. /\ A_Q' = Sim!Load(Sim!D_A, A_Q) /\ B_Q' = Sim!Load(Sim!D_B, B_Q)
        /\ RA_L_Q' = Sim!Load(Sim!D_RA_L, RA_L_Q) /\ RA_H_Q' = Sim!Load(Sim!D_RA_H, RA_H_Q)
        /\ AUDIO_OUT_Q' = Sim!Load(Sim!D_IO0, AUDIO_OUT_Q)
    BY <1>5, <2>3, Mapped DEF Clock, Latches, Latch, Sim!Load
  <2>5. SEG_r' = SEG_r
    BY <2>1 DEF Clock, Latches
  <2>6. Sim!StoreCp
    BY StoresAlike DEF Clock
  <2>7. Sim!StoreSram
    BY <1>1, StoresAlike DEF Clock, Write
  <2>8. Sim!StoreOut
    BY <1>5, <2>3, Mapped, Windows DEF Clock, Latches, dst_is_ram_write, Sim!StoreOut
  <2>9. Sim!Move
    BY <1>5, <2>2, <2>4, <2>5, <2>6, <2>7, <2>8, Alike DEF Sim!Move
  <2>10. QED
    BY <1>1, <2>9 DEF Sim!Step
<1>6. QED
  BY <1>2, <1>3, <1>4, <1>5, OneKind

\* A clock of the CPU that does not run is the simulator's Halt.
LEMMA OffStep ==
  ASSUME GlowInv, Clock, ~cpu_run
  PROVE  Sim!Halt
<1> USE DEF GlowInv
<1>1. UNCHANGED <<A_Q, B_Q, RA_L_Q, RA_H_Q, AUDIO_OUT_Q, IO_OUT_Q, SEG_r, PROG_ROM>>
  BY Latched
<1>2. Value(PC_Q)' = IF RST_n /\ Sim!Taken THEN Sim!Target ELSE Value(PC_Q)
  <2>1. CASE RST_n /\ pc_load
    BY <2>1, PcJumps, Decides DEF Value
  <2>2. CASE ~(RST_n /\ pc_load)
    <3>1. PC_Q' = PC_Q
      BY <2>2, PcRests
    <3>2. QED
      BY <2>2, <3>1, Decides DEF Value
  <2>3. QED
    BY <2>1, <2>2
<1>3. Sim!StoreCp
  BY StoresAlike DEF Clock
<1>4. IF MODE THEN Sim!StoreSram ELSE UNCHANGED mem \/ (~RST_n /\ Sim!Download)
  <2>1. CASE MODE
    BY <2>1, StoresAlike DEF Clock, Write
  <2>2. CASE ~MODE
    BY <2>2, Mapped DEF Clock, Write, Sim!Download
  <2>3. QED
    BY <2>1, <2>2
<1>5. ~(MODE /\ RST_n)
  BY DEF cpu_run
<1>6. QED
  BY <1>1, <1>2, <1>3, <1>4, <1>5 DEF Sim!Halt, Sim!regvars

LEMMA StepsAlike ==
  ASSUME GlowInv, [Next]_vars
  PROVE  [Sim!IsaNext]_(Sim!isavars)
<1>1. CASE Clock
  <2>1. Sim!Run \/ Sim!Halt
    BY <1>1, RunsStep, OffStep DEF Sim!Run, cpu_run
  <2>2. tick' = ~tick /\ UNCHANGED <<MODE, RST_n, PROG_ROM>>
    BY <1>1 DEF Clock, pinvars
  <2>3. QED
    BY <2>1, <2>2 DEF Sim!IsaNext, Sim!Clocked, Sim!pinvars
<1>2. CASE Pins
  <2>1. Value(PC_Q)' = IF RST_n' THEN Value(PC_Q) ELSE 0
    <3>1. CASE RST_n'
      BY <1>2, <3>1 DEF Pins, Value
    <3>2. CASE ~RST_n'
      <4>1. PC_Q'[0] = 0 /\ PC_Q'[1] = 0 /\ PC_Q'[2] = 0 /\ PC_Q'[3] = 0
        BY <1>2, <3>2 DEF Pins, Chip
      <4>2. 0 + DIGIT * (0 + DIGIT * (0 + DIGIT * 0)) = 0
        BY Widths
      <4>3. QED
        BY <3>2, <4>1, <4>2 DEF Value
    <3>3. QED
      BY <3>1, <3>2
  <2>2. Sim!Pins
    BY <1>2, <2>1 DEF Pins, q374, Sim!Pins, Sim!regvars, Sim!memvars
  <2>3. QED
    BY <2>2 DEF Sim!IsaNext
<1>3. CASE UNCHANGED vars
  BY <1>3 DEF vars, pinvars, q374, Value, Sim!isavars, Sim!pinvars, Sim!regvars, Sim!memvars
<1>4. QED
  BY <1>1, <1>2, <1>3 DEF Next

\* The chips execute the instruction set of the simulator (MiniGlow's Lockstep).
THEOREM ChipsLockstep == Spec => Lockstep
<1>1. Init => Sim!IsaInit
  <2> SUFFICES ASSUME Init PROVE Sim!IsaInit
    OBVIOUS
  <2>1. IsProgram(PROG_ROM)
    BY GlowAssumption DEF Init
  <2>2. Sim!IsProgram(PROG_ROM)
    BY <2>1, Alike DEF IsProgram, Sim!IsProgram, IsInstr, Sim!IsInstr, is_NOP, Sim!is_NOP,
       Byte, Sim!Byte, IMM, Sim!IMM, ALU, Sim!ALU, RAM, Sim!RAM, IO0, Sim!IO0,
       D_RAM, Sim!D_RAM
  <2>3. Value(PC_Q) = 0
    <3>1. PC_Q[0] = 0 /\ PC_Q[1] = 0 /\ PC_Q[2] = 0 /\ PC_Q[3] = 0
      BY DEF Init, Chip
    <3>2. 0 + DIGIT * (0 + DIGIT * (0 + DIGIT * 0)) = 0
      BY Widths
    <3>3. QED
      BY <3>1, <3>2 DEF Value
  <2>4. QED
    BY <2>2, <2>3 DEF Init, Sim!IsaInit, CpPower, Sim!CpPower
<1>2. QED
  BY <1>1, StepsAlike, GlowInvariant, PTL DEF Spec, Lockstep, Sim!IsaSpec
=============================================================================
