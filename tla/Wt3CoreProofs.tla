--------------------------- MODULE Wt3CoreProofs ----------------------------
(***************************************************************************)
(* The v1.4 core, for every number of channels, byte width, wavetable and  *)
(* clock ratio.  Two theorems: parameters hold what the host wrote, unless *)
(* an address strobe has opened over a microcode write and spoilt one; and *)
(* a turn that the bus leaves alone advances the accumulator by the phase  *)
(* step.  The first rests on where the requests in the chain of flip-flops *)
(* come from and how far they have come, the second on what each of the 16 *)
(* steps has left in the registers and in the RAM.                         *)
(***************************************************************************)
EXTENDS Wt3Core, TLAPS

\* Strobes and pauses reach through the chain.
ASSUME ReachAssumption == Hold >= 2 /\ Gap >= 3

\* SPFM_CLK is not slower than STEP_CLK.
ASSUME ClocksAssumption == MinClk >= 1

\* A request is in the flip-flops of its own chain only, as far as its strobe
\* has lasted, and leaves them one clock after the other.
Requests ==
  /\ a0 = "addr" => ~data_q[1] /\ ~data_q[2]
  /\ a0 = "data" => ~addr_q[1] /\ ~addr_q[2] /\ ~addr_q[3]
  /\ strobe /\ a0 = "data" => (data_q[1] <=> age >= 1) /\ (data_q[2] <=> age >= 2)
  /\ a0 = "addr" =>
       /\ age = 1 \/ (strobe /\ age >= 1) => addr_q[1]
       /\ age = 2 => addr_q[2]
       /\ age = 3 => addr_q[3]
  /\ ~strobe =>
       /\ age >= 1
       /\ tail >= 1 => ~addr_q[1] /\ ~data_q[1]
       /\ tail >= 2 => ~addr_q[2] /\ ~data_q[2]
       /\ tail >= 3 => ~addr_q[3]

\* The 377 holds the host's register number four clocks after its strobe opened.
Named ==
  /\ a0 = "addr" /\ (age < 4 \/ addr_q[1] \/ addr_q[2] \/ addr_q[3]) => d_latch = host_reg
  /\ a0 = "data" \/ age >= 4 => reg_addr = host_reg

\* Who writes, and what a data strobe is about to leave in the RAM.  Under an
\* address strobe it is the microcode, at the number that is still in the 377.
Writer ==
  /\ writing /\ ~strobe => Word(sub).we
  /\ writing /\ strobe /\ a0 = "addr" => reg_addr \in spoilt
  /\ strobe /\ a0 = "data" =>
       host_reg \in Cells /\ d_latch \in Byte /\ params[host_reg] = d_latch

\* The RAM agrees with the host, but for the cell that is being written and the
\* cells that are spoilt.
Param == {8 * c + s : c \in 0..(CHANS - 1), s \in 2..4}

Agrees ==
  \A x \in Param :
    x \in spoilt \/ mem[x] = params[x] \/ (strobe /\ a0 = "data" /\ x = host_reg /\ (age < 2 \/ writing))

HostInv == Requests /\ Named /\ Writer /\ Agrees

\* What the steps of an undisturbed turn have done so far.
Base == 8 * chan
Sum  == (start + StepWord(chan)) % (BYTE * BYTE)

LowDone  == sub > 10 \/ (sub = 10 /\ ~writing)
HighDone == sub > 12 \/ (sub = 12 /\ ~writing)

TurnInv ==
  clean =>
    /\ ~strobe
    /\ sub = 0 => tail >= 2 \/ tail >= clk
    /\ sub = 1 => tail >= 2 \/ tail >= clk + 1
    /\ sub >= 2 => tail >= 2
    /\ writing => sub \in {10, 12}
    /\ sub >= 2 => reg_a[1] = start % BYTE
    /\ sub >= 4 => reg_a[2] = start \div BYTE
    /\ sub >= 6 => reg_b[1] = mem[Base + 2]
    /\ sub >= 8 => reg_b[2] = mem[Base + 3]
    /\ sub >= 10 => reg_c = mem[Base + 4]
    /\ mem[Base] = IF LowDone THEN Sum % BYTE ELSE start % BYTE
    /\ mem[Base + 1] = IF HighDone THEN Sum \div BYTE ELSE start \div BYTE
    /\ sub = 13 => dac_out = wave_do
-----------------------------------------------------------------------------
LEMMA Sizes ==
  /\ CHANS \in Nat \ {0} /\ BYTE \in Nat \ {0} /\ Byte = 0..(BYTE - 1)
  /\ Hold \in Nat /\ Hold >= 2 /\ Gap \in Nat /\ Gap >= 3
  /\ Cap \in Nat /\ Cap >= 9
  /\ Val \subseteq Nat /\ 0 \in Val
  /\ MinClk \in Nat /\ MinClk >= 1 /\ MaxClk \in Nat
  BY CoreAssumption, HostAssumption, ReachAssumption, ClocksAssumption DEF Cap, Byte

\* Two bytes make a number and can be had back from it.
LEMMA Pairing ==
  ASSUME NEW x \in Byte, NEW y \in Byte
  PROVE  /\ x + BYTE * y \in 0..(BYTE * BYTE - 1)
         /\ (x + BYTE * y) % BYTE = x /\ (x + BYTE * y) \div BYTE = y
<1>1. \A b \in Nat \ {0} : \A u, v \in 0..(b - 1) :
        /\ u + b * v \in 0..(b * b - 1)
        /\ (u + b * v) % b = u /\ (u + b * v) \div b = v
  <2> SUFFICES ASSUME NEW b \in Nat \ {0}, NEW u \in 0..(b - 1), NEW v \in 0..(b - 1)
               PROVE  /\ u + b * v \in 0..(b * b - 1)
                      /\ (u + b * v) % b = u /\ (u + b * v) \div b = v
    OBVIOUS
  <2>1. b * v <= b * (b - 1) /\ b * (b - 1) = b * b - b /\ b * v \in Nat
    OBVIOUS
  <2>2. u + b * v \in 0..(b * b - 1)
    BY <2>1
  <2> DEFINE n == u + b * v
             q == n \div b
             r == n % b
  <2>3. n \in Nat
    BY <2>1
  <2>4. \A m \in Nat : m % b \in 0..(b - 1) /\ m \div b \in Nat /\ m = (m % b) + b * (m \div b)
    OBVIOUS
  <2>5. r \in 0..(b - 1) /\ q \in Nat /\ n = r + b * q
    BY <2>3, <2>4
  <2>6. u + b * v = r + b * q
    BY <2>5
  <2> HIDE DEF q, r
  <2>7. q = v
    <3>1. ASSUME q <= v - 1 PROVE FALSE
      <4>1. b * q <= b * (v - 1)
        BY <3>1, <2>5
      <4>2. b * (v - 1) = b * v - b /\ b * q \in Nat
        BY <2>5
      <4>3. QED
        BY <4>1, <4>2, <2>1, <2>5, <2>6
    <3>2. ASSUME q >= v + 1 PROVE FALSE
      <4>1. b * q >= b * (v + 1)
        BY <3>2, <2>5
      <4>2. b * (v + 1) = b * v + b /\ b * q \in Nat
        BY <2>5
      <4>3. QED
        BY <4>1, <4>2, <2>1, <2>5, <2>6
    <3>3. QED
      BY <3>1, <3>2, <2>5
  <2>8. r = u
    BY <2>1, <2>5, <2>6, <2>7
  <2>9. QED
    BY <2>2, <2>7, <2>8 DEF q, r
<1>2. QED
  BY <1>1, Sizes

LEMMA Unpairing ==
  ASSUME NEW w \in 0..(BYTE * BYTE - 1)
  PROVE  /\ w % BYTE \in Byte /\ w \div BYTE \in Byte
         /\ (w % BYTE) + BYTE * (w \div BYTE) = w
<1>1. \A b \in Nat \ {0} : \A n \in Nat :
        n < b * b => /\ n % b \in 0..(b - 1) /\ n \div b \in 0..(b - 1)
                     /\ (n % b) + b * (n \div b) = n
  OBVIOUS
<1>2. w \in Nat /\ w < BYTE * BYTE
  BY Sizes
<1>3. QED
  BY <1>1, <1>2, Sizes

LEMMA Sums ==
  ASSUME NEW n \in Nat
  PROVE  n % (BYTE * BYTE) \in 0..(BYTE * BYTE - 1)
<1>1. \A b \in Nat \ {0} : b * b \in Nat \ {0}
  OBVIOUS
<1>2. \A m \in Nat \ {0} : \A k \in Nat : k % m \in 0..(m - 1)
  OBVIOUS
<1>3. BYTE * BYTE \in Nat \ {0}
  BY <1>1, Sizes
<1>4. QED
  BY <1>2, <1>3

\* Where the step counter stands, now and after a step.
LEMMA Turn ==
  ASSUME step \in 0..(16 * CHANS - 1)
  PROVE  /\ sub \in 0..15 /\ chan \in 0..(CHANS - 1)
         /\ (step + 1) % (16 * CHANS) \in 0..(16 * CHANS - 1)
         /\ step' = (step + 1) % (16 * CHANS) =>
              /\ sub # 15 => sub' = sub + 1 /\ chan' = chan
              /\ sub = 15 => sub' = 0
              /\ chan' \in 0..(CHANS - 1)
<1>1. \A n \in Nat \ {0} : \A x \in 0..(n - 1) : (x + 1) % n = IF x + 1 = n THEN 0 ELSE x + 1
  OBVIOUS
<1>2. 16 * CHANS \in Nat \ {0}
  BY Sizes
<1>3. (step + 1) % (16 * CHANS) = IF step + 1 = 16 * CHANS THEN 0 ELSE step + 1
  BY <1>1, <1>2
<1>4. sub \in 0..15 /\ chan \in 0..(CHANS - 1)
  BY Sizes DEF sub, chan
<1>5. CASE step + 1 = 16 * CHANS
  BY <1>3, <1>5, Sizes DEF sub, chan
<1>6. CASE step + 1 # 16 * CHANS
  BY <1>3, <1>6, Sizes DEF sub, chan
<1>7. QED
  BY <1>4, <1>5, <1>6

LEMMA CellOf ==
  ASSUME NEW c \in 0..(CHANS - 1), NEW s \in 0..4
  PROVE  8 * c + s \in Cells
  BY DEF Cells

LEMMA WordIs ==
  ASSUME NEW s \in 0..15
  PROVE  /\ Word(s).we <=> s = 10 \/ s = 12
         /\ Word(s).we => Word(s).cell = IF s = 10 THEN 0 ELSE 1
         /\ s \in {1, 3, 5, 7, 9} => Word(s).cell = s \div 2
<1>1. /\ Word(s).we = (s \in {10, 12})
      /\ Word(s).cell = IF s < 10 THEN s \div 2 ELSE IF s = 12 THEN 1 ELSE 0
  BY DEF Word
<1>2. Word(s).we <=> s = 10 \/ s = 12
  BY <1>1
<1>3. (s = 10 \/ s = 12) => Word(s).cell = IF s = 10 THEN 0 ELSE 1
  BY <1>1
<1>4. s \in {1, 3, 5, 7, 9} => Word(s).cell = s \div 2
  BY <1>1
<1>5. QED
  BY <1>2, <1>3, <1>4

LEMMA NumberIs ==
  ASSUME NEW p \in Pair
  PROVE  /\ p[1] \in Byte /\ p[2] \in Byte
         /\ Number(p) = p[1] + BYTE * p[2]
         /\ Number(p) \in 0..(BYTE * BYTE - 1) /\ Number(p) \in Nat
<1>1. p[1] \in Byte /\ p[2] \in Byte
  BY DEF Pair
<1>2. QED
  BY <1>1, Pairing DEF Number

LEMMA AccIs ==
  ASSUME mem \in [Cells -> Byte], NEW c \in 0..(CHANS - 1)
  PROVE  /\ \A s \in 0..4 : mem[8 * c + s] \in Byte
         /\ mem[8 * c] \in Byte
         /\ Acc(c) = mem[8 * c] + BYTE * mem[8 * c + 1]
         /\ Acc(c) \in 0..(BYTE * BYTE - 1)
         /\ StepWord(c) = mem[8 * c + 2] + BYTE * mem[8 * c + 3]
         /\ StepWord(c) \in Nat
<1>1. \A s \in 0..4 : mem[8 * c + s] \in Byte
  BY CellOf
<1>2. 8 * c + 0 = 8 * c
  BY Sizes
<1>3. mem[8 * c] \in Byte /\ mem[8 * c + 1] \in Byte
      /\ mem[8 * c + 2] \in Byte /\ mem[8 * c + 3] \in Byte
  BY <1>1, <1>2
<1> DEFINE p == <<mem[8 * c], mem[8 * c + 1]>>
           d == <<mem[8 * c + 2], mem[8 * c + 3]>>
<1>4. p \in Pair /\ d \in Pair
  BY <1>3 DEF Pair
<1>5. Number(p) \in 0..(BYTE * BYTE - 1) /\ Number(d) \in Nat
  BY <1>4, NumberIs
<1>6. QED
  BY <1>1, <1>3, <1>5 DEF Acc, StepWord, Number

\* What the adder and the multiplexer put on the data pins of the RAM.
LEMMA WritebackType ==
  ASSUME TypeOK
  PROVE  /\ adder \in 0..(BYTE * BYTE - 1)
         /\ adder % BYTE \in Byte /\ adder \div BYTE \in Byte
         /\ ram_di \in Byte
<1>1. Number(reg_a) \in Nat /\ Number(reg_b) \in Nat
  BY NumberIs DEF TypeOK
<1>2. adder \in 0..(BYTE * BYTE - 1)
  BY <1>1, Sums DEF adder
<1>3. adder % BYTE \in Byte /\ adder \div BYTE \in Byte
  BY <1>2, Unpairing
<1>4. d_latch % BYTE \in Byte
  BY Sizes DEF TypeOK, ChainTypeOK, HostTypeOK
<1>5. QED
  BY <1>2, <1>3, <1>4 DEF ram_di, writeback
-----------------------------------------------------------------------------
LEMMA InitType == Init => TypeOK
<1> SUFFICES ASSUME Init PROVE TypeOK
  OBVIOUS
<1>1. ChainTypeOK
  <2>1. strobe \in BOOLEAN
    BY DEF Init, ChainInit, HostInit
  <2>2. addr_q \in [1..3 -> BOOLEAN] /\ data_q \in [1..2 -> BOOLEAN]
    BY DEF Init, ChainInit, ClearChain
  <2>3. /\ a0 \in Kind /\ d_latch \in Val /\ age \in 0..Cap /\ tail \in 0..Cap
        /\ reg_addr \in Val
    BY Sizes DEF Init, ChainInit, HostInit, Kind
  <2>4. QED
    BY <2>1, <2>2, <2>3 DEF ChainTypeOK, HostTypeOK
<1>2. mem \in [Cells -> Byte] /\ params = mem
  BY CoreAssumption DEF Init
<1>3. start \in 0..(BYTE * BYTE - 1)
  BY <1>2, AccIs, Sizes DEF Init
<1>4. 0 \in Byte /\ 0 \in 0..MaxClk /\ 0 \in Val /\ 0 \in 0..(16 * CHANS - 1)
  BY Sizes
<1>5. reg_a \in Pair /\ reg_b \in Pair
  BY <1>4 DEF Init, Pair
<1>6. {writing, clean} \subseteq BOOLEAN
  BY DEF Init
<1>7. /\ step \in 0..(16 * CHANS - 1) /\ reg_c \in Byte /\ dac_out \in Byte
      /\ clk \in 0..MaxClk /\ host_reg \in Val
  BY <1>4 DEF Init
<1>8. spoilt \subseteq Val
  BY DEF Init
<1>9. QED
  BY <1>1, <1>2, <1>3, <1>5, <1>6, <1>7, <1>8 DEF TypeOK

\* The flip-flops and the edge counts after a clock.
LEMMA Shifted ==
  ASSUME ChainTypeOK, ChainClock
  PROVE  /\ ChainTypeOK'
         /\ addr_q'[1] <=> (strobe /\ a0 = "addr")
         /\ addr_q'[2] <=> addr_q[1]
         /\ addr_q'[3] <=> addr_q[2]
         /\ data_q'[1] <=> (strobe /\ a0 = "data")
         /\ data_q'[2] <=> data_q[1]
<1>1. /\ addr_q' = [i \in 1..3 |-> IF i = 1 THEN wr_comb("addr") ELSE addr_q[i - 1]]
      /\ data_q' = [i \in 1..2 |-> IF i = 1 THEN wr_comb("data") ELSE data_q[i - 1]]
  BY DEF ChainClock, Shift
<1>2. wr_comb("addr") \in BOOLEAN /\ wr_comb("data") \in BOOLEAN
  BY DEF wr_comb
<1>3. addr_q \in [1..3 -> BOOLEAN] /\ data_q \in [1..2 -> BOOLEAN]
  BY DEF ChainTypeOK
<1>4. /\ addr_q'[1] = wr_comb("addr") /\ addr_q'[2] = addr_q[1] /\ addr_q'[3] = addr_q[2]
      /\ data_q'[1] = wr_comb("data") /\ data_q'[2] = data_q[1]
  BY <1>1
<1>5. /\ \A i \in 1..3 : (IF i = 1 THEN wr_comb("addr") ELSE addr_q[i - 1]) \in BOOLEAN
      /\ \A i \in 1..2 : (IF i = 1 THEN wr_comb("data") ELSE data_q[i - 1]) \in BOOLEAN
  BY <1>2, <1>3
<1>6. addr_q' \in [1..3 -> BOOLEAN] /\ data_q' \in [1..2 -> BOOLEAN]
  BY <1>1, <1>5
<1>7. strobe' \in BOOLEAN /\ a0' \in Kind /\ d_latch' \in Val
  BY DEF ChainClock, HostEdge, ChainTypeOK, HostTypeOK
<1>8. age' \in 0..Cap /\ tail' \in 0..Cap
  BY Sizes DEF ChainClock, HostEdge, Inc, ChainTypeOK, HostTypeOK
<1>9. reg_addr' \in Val
  BY DEF ChainClock, ChainTypeOK, HostTypeOK
<1>10. QED
  BY <1>4, <1>6, <1>7, <1>8, <1>9 DEF wr_comb, ChainTypeOK, HostTypeOK

\* Whatever reaches a register, it is a byte.
LEMMA LatchType ==
  ASSUME TypeOK, NEW b \in Byte, Latch(b)
  PROVE  reg_a' \in Pair /\ reg_b' \in Pair /\ reg_c' \in Byte
<1>1. /\ reg_a[1] \in Byte /\ reg_a[2] \in Byte
      /\ reg_b[1] \in Byte /\ reg_b[2] \in Byte
  BY DEF TypeOK, Pair
<1>2. <<b, reg_a[2]>> \in Pair /\ <<reg_a[1], b>> \in Pair
  BY <1>1 DEF Pair
<1>3. <<b, reg_b[2]>> \in Pair /\ <<reg_b[1], b>> \in Pair
  BY <1>1 DEF Pair
<1>4. QED
  BY <1>2, <1>3 DEF Latch, TypeOK

LEMMA WaveType ==
  ASSUME TypeOK
  PROVE  wave_do \in Byte
<1>1. reg_a[2] \in Byte /\ reg_c \in Byte
  BY DEF TypeOK, Pair
<1>2. QED
  BY <1>1, CoreAssumption DEF wave_do

\* With the bus closed, the RAM shows the cell that the microcode names.
LEMMA ReadType ==
  ASSUME TypeOK, ~strobe, sub \in {1, 3, 5, 7, 9}
  PROVE  /\ ram_addr = 8 * chan + sub \div 2
         /\ Read \subseteq Byte
<1>1. sub \in 0..15 /\ chan \in 0..(CHANS - 1)
  BY Turn DEF TypeOK
<1>2. ram_addr = 8 * chan + sub \div 2
  BY <1>1, WordIs DEF ram_addr
<1>3. sub \div 2 \in 0..4
  BY <1>1
<1>4. mem[ram_addr] \in Byte
  BY <1>1, <1>2, <1>3, AccIs DEF TypeOK
<1>5. QED
  BY <1>2, <1>4 DEF Read

LEMMA WriteEnableType ==
  ASSUME TypeOK, WriteEnable
  PROVE  writing' \in BOOLEAN
  BY DEF WriteEnable

LEMMA StepTypeOK ==
  ASSUME TypeOK, Step
  PROVE  TypeOK'
<1>1. reg_a' \in Pair /\ reg_b' \in Pair /\ reg_c' \in Byte
  <2>1. CASE ~strobe /\ sub \in {1, 3, 5, 7, 9}
    <3>1. PICK b \in Read : Latch(b)
      BY <2>1 DEF Step
    <3>2. b \in Byte
      BY <2>1, ReadType
    <3>3. QED
      BY <3>1, <3>2, LatchType
  <2>2. CASE ~(~strobe /\ sub \in {1, 3, 5, 7, 9})
    BY <2>2 DEF Step, TypeOK
  <2>3. QED
    BY <2>1, <2>2
<1>2. step' \in 0..(16 * CHANS - 1) /\ chan' \in 0..(CHANS - 1)
  BY Turn DEF Step, TypeOK
<1>3. mem' = mem /\ params' = params /\ host_reg' = host_reg /\ spoilt' = spoilt
  BY DEF Step
<1>4. start' \in 0..(BYTE * BYTE - 1)
  <2>1. Acc(chan') \in 0..(BYTE * BYTE - 1)
    BY <1>2, AccIs DEF TypeOK
  <2>2. QED
    BY <2>1 DEF Step, TypeOK
<1>5. dac_out' \in Byte
  BY WaveType DEF Step, TypeOK
<1>6. {writing', clean'} \subseteq BOOLEAN
  <2>1. writing' \in BOOLEAN
    BY WriteEnableType DEF Step
  <2>2. clean \in BOOLEAN /\ (~strobe) \in BOOLEAN
    BY DEF TypeOK, ChainTypeOK, HostTypeOK
  <2>3. clean' \in BOOLEAN
    BY <2>2 DEF Step
  <2>4. QED
    BY <2>1, <2>3
<1>7. ChainTypeOK'
  BY DEF Step, TypeOK, ChainTypeOK, HostTypeOK, chainvars, hostvars, busvars
<1>8. clk' \in 0..MaxClk
  BY Sizes DEF Step
<1>9. QED
  BY <1>1, <1>2, <1>3, <1>4, <1>5, <1>6, <1>7, <1>8 DEF TypeOK

LEMMA ClockTypeOK ==
  ASSUME TypeOK, Clock
  PROVE  TypeOK'
<1>1. ChainTypeOK'
  BY Shifted DEF TypeOK, Clock
<1>2. writing' \in BOOLEAN
  BY WriteEnableType DEF Clock
<1>3. clk' \in 0..MaxClk
  BY Sizes DEF Clock, TypeOK
<1>4. {writing', clean'} \subseteq BOOLEAN
  BY <1>2 DEF Clock, history, TypeOK
<1>5. QED
  BY <1>1, <1>3, <1>4 DEF TypeOK, Clock, corevars, history

LEMMA CommitTypeOK ==
  ASSUME TypeOK, Commit
  PROVE  TypeOK'
<1>1. mem' \in [Cells -> Byte]
  <2>1. ram_di \in Byte
    BY WritebackType
  <2>2. mem' = [mem EXCEPT ![ram_addr] = ram_di]
    BY DEF Commit
  <2>3. QED
    BY <2>1, <2>2 DEF TypeOK
<1>2. ChainTypeOK'
  BY DEF Commit, TypeOK, ChainTypeOK, HostTypeOK, chainvars, hostvars, busvars
<1>3. {writing', clean'} \subseteq BOOLEAN
  BY DEF Commit, history, TypeOK
<1>4. QED
  BY <1>1, <1>2, <1>3 DEF Commit, TypeOK, corevars, history

LEMMA OpenTypeOK ==
  ASSUME TypeOK, NEW k \in Kind, NEW v \in Val, k = "data" => v \in Byte, Open(k, v)
  PROVE  TypeOK'
<1>1. strobe' \in BOOLEAN
  BY DEF Open, HostOpen
<1>2. /\ a0' \in Kind /\ d_latch' \in Val /\ age' \in 0..Cap /\ tail' \in 0..Cap
      /\ addr_q' = addr_q /\ data_q' = data_q /\ reg_addr' \in Val
  BY Sizes DEF Open, HostOpen, busvars, TypeOK, ChainTypeOK, HostTypeOK
<1>3. ChainTypeOK'
  BY <1>1, <1>2 DEF TypeOK, ChainTypeOK, HostTypeOK
<1>4. params' \in [Cells -> Byte]
  BY DEF Open, TypeOK
<1>5. host_reg' \in Val
  BY DEF Open, TypeOK
<1>6. writing' \in BOOLEAN
  BY WriteEnableType DEF Open
<1>7. {writing', clean'} \subseteq BOOLEAN
  BY <1>6 DEF Open
<1>8. spoilt' \subseteq Val
  <2>1. spoilt \subseteq Val /\ reg_addr \in Val
    BY DEF TypeOK, ChainTypeOK, HostTypeOK
  <2>2. spoilt' \subseteq spoilt \cup {reg_addr}
    BY DEF Open
  <2>3. QED
    BY <2>1, <2>2
<1>9. QED
  BY <1>3, <1>4, <1>5, <1>7, <1>8 DEF Open, TypeOK, corevars

LEMMA CloseTypeOK ==
  ASSUME TypeOK, Close
  PROVE  TypeOK'
<1>1. strobe' \in BOOLEAN
  BY DEF Close, HostClose
<1>2. /\ a0' \in Kind /\ d_latch' \in Val /\ age' \in 0..Cap /\ tail' \in 0..Cap
      /\ addr_q' = addr_q /\ data_q' = data_q /\ reg_addr' \in Val
  BY Sizes DEF Close, HostClose, busvars, TypeOK, ChainTypeOK, HostTypeOK
<1>3. ChainTypeOK'
  BY <1>1, <1>2 DEF TypeOK, ChainTypeOK, HostTypeOK
<1>4. dac_out' \in Byte
  BY WaveType DEF Close, TypeOK
<1>5. writing' \in BOOLEAN
  BY WriteEnableType DEF Close
<1>6. {writing', clean'} \subseteq BOOLEAN
  BY <1>5 DEF Close, history, TypeOK
<1>7. QED
  BY <1>3, <1>4, <1>6 DEF Close, TypeOK, history

LEMMA ResetTypeOK ==
  ASSUME TypeOK, Reset
  PROVE  TypeOK'
<1>1. strobe' \in BOOLEAN
  BY DEF Reset, ChainReset, HostReset, TypeOK, ChainTypeOK, HostTypeOK
<1>2. addr_q' \in [1..3 -> BOOLEAN] /\ data_q' \in [1..2 -> BOOLEAN]
  BY DEF Reset, ChainReset, ClearChain
<1>3. /\ a0' \in Kind /\ d_latch' \in Val /\ age' \in 0..Cap /\ tail' \in 0..Cap
      /\ reg_addr' \in Val /\ host_reg' \in Val
  BY Sizes DEF Reset, ChainReset, HostReset, TypeOK, ChainTypeOK, HostTypeOK
<1>4. ChainTypeOK'
  BY <1>1, <1>2, <1>3 DEF ChainTypeOK, HostTypeOK
<1>5. dac_out' \in Byte
  BY WaveType, Sizes DEF Reset, TypeOK
<1>6. {writing', clean'} \subseteq BOOLEAN
  BY DEF Reset, TypeOK
<1>7. QED
  BY <1>3, <1>4, <1>5, <1>6 DEF Reset, TypeOK

LEMMA NextTypeOK ==
  ASSUME TypeOK, [Next]_vars
  PROVE  TypeOK'
<1>1. CASE \E v \in Addrs : Open("addr", v)
  BY <1>1, OpenTypeOK, CoreAssumption DEF Kind
<1>2. CASE \E v \in Datas : Open("data", v)
  BY <1>2, OpenTypeOK, CoreAssumption DEF Kind
<1>3. CASE UNCHANGED vars
  BY <1>3 DEF TypeOK, ChainTypeOK, HostTypeOK, vars, chainvars, hostvars, busvars,
              corevars, history
<1>4. QED
  BY <1>1, <1>2, <1>3, CloseTypeOK, StepTypeOK, ClockTypeOK, CommitTypeOK, ResetTypeOK
     DEF Next

\* Every register, counter and RAM cell of the core stays within its width.
THEOREM CoreTypeOK == Spec => []TypeOK
<1>1. Init => TypeOK
  BY InitType
<1>2. TypeOK /\ [Next]_vars => TypeOK'
  BY NextTypeOK
<1>3. QED
  BY <1>1, <1>2, PTL DEF Spec
-----------------------------------------------------------------------------
\* A write begins only where /WE falls.
LEMMA Falls ==
  ASSUME TypeOK, ~writing, WriteEnable
  PROVE  writing' <=> /\ IF strobe' THEN data_q'[2] ELSE Word(sub').we
                      /\ ~(IF strobe THEN data_q[2] ELSE Word(sub).we)
  BY DEF WriteEnable, ram_we

LEMMA InitHost == Init => HostInv
<1> SUFFICES ASSUME Init PROVE HostInv
  OBVIOUS
<1>1. /\ addr_q = [i \in 1..3 |-> FALSE] /\ data_q = [i \in 1..2 |-> FALSE]
      /\ strobe = FALSE /\ age = Cap /\ tail = Cap /\ a0 = "addr"
      /\ reg_addr = 0 /\ host_reg = 0 /\ writing = FALSE /\ params = mem
  BY DEF Init, ChainInit, HostInit, ClearChain
<1>2. ~addr_q[1] /\ ~addr_q[2] /\ ~addr_q[3] /\ ~data_q[1] /\ ~data_q[2]
  BY <1>1
<1>3. Requests /\ Named
  BY <1>1, <1>2, Sizes DEF Requests, Named
<1>4. Writer
  BY <1>1 DEF Writer
<1>5. Agrees
  BY <1>1 DEF Agrees
<1>6. QED
  BY <1>3, <1>4, <1>5 DEF HostInv

\* The chain is empty when a strobe opens, so no write begins; a write of the
\* microcode that has begun goes on at the number in the 377, the one that the
\* host named before.
LEMMA OpenHost ==
  ASSUME TypeOK, HostInv, NEW k \in Kind, NEW v \in Val, k = "data" => v \in Byte, Open(k, v)
  PROVE  HostInv'
<1>1. /\ ~strobe /\ strobe' /\ tail \in Nat /\ tail >= 3 /\ a0' = k /\ d_latch' = v
      /\ age' = 0 /\ age \in Nat
  BY Sizes DEF Open, HostOpen, TypeOK, ChainTypeOK, HostTypeOK
<1>2. /\ addr_q' = addr_q /\ data_q' = data_q /\ reg_addr' = reg_addr
      /\ mem' = mem /\ step' = step
  BY DEF Open, busvars, corevars
<1>3. ~addr_q[1] /\ ~addr_q[2] /\ ~addr_q[3] /\ ~data_q[1] /\ ~data_q[2]
  BY <1>1 DEF HostInv, Requests
<1>4. ~addr_q'[1] /\ ~addr_q'[2] /\ ~addr_q'[3] /\ ~data_q'[1] /\ ~data_q'[2]
  BY <1>2, <1>3
<1>5. writing' => writing
  <2>1. ~writing => ~writing'
    BY <1>1, <1>4, Falls DEF Open
  <2>2. QED
    BY <2>1
<1>6. Requests'
  BY <1>1, <1>4 DEF Requests
<1>7. a0 = "data" \/ a0 = "addr"
  BY DEF TypeOK, ChainTypeOK, HostTypeOK, Kind
<1>8. a0 = "addr" => age \notin {1, 2, 3} /\ age # 0
  BY <1>1, <1>3 DEF HostInv, Requests
<1>9. reg_addr = host_reg
  BY <1>1, <1>7, <1>8 DEF HostInv, Named
<1>10. host_reg' = IF k = "addr" THEN v ELSE host_reg
  BY DEF Open
<1>11. Named'
  <2>1. CASE k = "addr"
    BY <1>1, <1>10, <2>1 DEF Named
  <2>2. CASE k = "data"
    BY <1>1, <1>2, <1>4, <1>9, <1>10, <2>2 DEF Named
  <2>3. QED
    BY <2>1, <2>2 DEF Kind
<1>12. \A x \in Param : x \in spoilt \/ mem[x] = params[x]
  BY <1>1 DEF HostInv, Agrees
<1>13. CASE k = "addr"
  <2>1. params' = params /\ spoilt' = IF writing THEN spoilt \cup {reg_addr} ELSE spoilt
    BY <1>13 DEF Open
  <2>2. Writer'
    BY <1>1, <1>2, <1>5, <1>13, <2>1 DEF Writer
  <2>3. Agrees'
    BY <1>2, <1>12, <2>1 DEF Agrees
  <2>4. QED
    BY <1>6, <1>11, <2>2, <2>3 DEF HostInv
<1>14. CASE k = "data"
  <2>1. /\ host_reg \in Cells /\ params' = [params EXCEPT ![host_reg] = v]
        /\ host_reg' = host_reg /\ spoilt' = spoilt \ {host_reg}
    BY <1>14, CoreAssumption DEF Open
  <2>2. params'[host_reg] = v /\ \A x \in Param : x # host_reg => params'[x] = params[x]
    BY <2>1 DEF TypeOK
  <2>3. Writer'
    BY <1>1, <1>14, <2>1, <2>2 DEF Writer
  <2>4. Agrees'
    BY <1>1, <1>2, <1>12, <1>14, <2>1, <2>2 DEF Agrees
  <2>5. QED
    BY <1>6, <1>11, <2>3, <2>4 DEF HostInv
<1>15. QED
  BY <1>13, <1>14 DEF Kind

\* A strobe closes no earlier than Hold clocks after it opened: the RAM has
\* stored its datum.
LEMMA CloseHost ==
  ASSUME TypeOK, HostInv, Close
  PROVE  HostInv'
<1>1. /\ strobe /\ ~strobe' /\ age' = age /\ age \in Nat /\ age >= 2 /\ tail' = 0
      /\ a0' = a0 /\ d_latch' = d_latch /\ ~writing
  BY Sizes DEF Close, HostClose, TypeOK, ChainTypeOK, HostTypeOK
<1>2. /\ addr_q' = addr_q /\ data_q' = data_q /\ reg_addr' = reg_addr /\ mem' = mem
      /\ step' = step /\ host_reg' = host_reg /\ params' = params /\ spoilt' = spoilt
  BY DEF Close, busvars, history
<1>3. Requests'
  BY <1>1, <1>2 DEF HostInv, Requests
<1>4. Named'
  BY <1>1, <1>2 DEF HostInv, Named
<1>5. Writer'
  <2>1. writing' => Word(sub').we
    BY <1>1, Falls DEF Close
  <2>2. QED
    BY <1>1, <2>1 DEF Writer
<1>6. Agrees'
  BY <1>1, <1>2 DEF HostInv, Agrees
<1>7. QED
  BY <1>3, <1>4, <1>5, <1>6 DEF HostInv

\* While a strobe is open only the chain can make /WE fall, and only at a clock.
LEMMA StepHost ==
  ASSUME TypeOK, HostInv, Step
  PROVE  HostInv'
<1>1. /\ strobe' = strobe /\ a0' = a0 /\ d_latch' = d_latch /\ age' = age /\ tail' = tail
      /\ addr_q' = addr_q /\ data_q' = data_q /\ reg_addr' = reg_addr
      /\ mem' = mem /\ host_reg' = host_reg /\ params' = params /\ spoilt' = spoilt /\ ~writing
  BY DEF Step, chainvars, hostvars, busvars
<1>2. strobe => ~writing'
  BY <1>1, Falls DEF Step
<1>3. ~strobe => (writing' => Word(sub').we)
  BY <1>1, Falls DEF Step
<1>4. Requests'
  BY <1>1 DEF HostInv, Requests
<1>5. Named'
  BY <1>1 DEF HostInv, Named
<1>6. Writer'
  BY <1>1, <1>2, <1>3 DEF HostInv, Writer
<1>7. Agrees'
  BY <1>1, <1>2 DEF HostInv, Agrees
<1>8. QED
  BY <1>4, <1>5, <1>6, <1>7 DEF HostInv

LEMMA ClockHost ==
  ASSUME TypeOK, HostInv, Clock
  PROVE  HostInv'
<1>1. /\ strobe' = strobe /\ a0' = a0 /\ d_latch' = d_latch /\ age \in Nat /\ tail \in Nat
      /\ age' = (IF age < Cap THEN age + 1 ELSE age)
      /\ tail' = (IF tail < Cap THEN tail + 1 ELSE tail)
      /\ reg_addr' = (IF addr_q[3] THEN d_latch ELSE reg_addr)
  BY Sizes DEF Clock, ChainClock, HostEdge, Inc, addr_en, TypeOK, ChainTypeOK, HostTypeOK
<1>2. /\ step' = step /\ mem' = mem /\ host_reg' = host_reg /\ params' = params
      /\ spoilt' = spoilt /\ ~writing /\ sub' = sub
  BY DEF Clock, corevars, history, sub
<1>3. /\ addr_q'[1] <=> (strobe /\ a0 = "addr")
      /\ addr_q'[2] <=> addr_q[1]
      /\ addr_q'[3] <=> addr_q[2]
      /\ data_q'[1] <=> (strobe /\ a0 = "data")
      /\ data_q'[2] <=> data_q[1]
  BY Shifted DEF Clock, TypeOK
<1>4. a0 = "data" \/ a0 = "addr"
  BY DEF TypeOK, ChainTypeOK, HostTypeOK, Kind
<1>5. /\ age' >= 1 /\ (age' >= 2 <=> age >= 1) /\ (age' >= 4 <=> age >= 3)
      /\ (age' = 1 => age = 0) /\ (age' = 2 => age = 1) /\ (age' = 3 => age = 2)
      /\ (age' < 4 => age < 3) /\ (age' >= 4 => age = 3 \/ age >= 4)
      /\ (tail' >= 2 => tail >= 1) /\ (tail' >= 3 => tail >= 2)
  BY <1>1, Sizes
<1>6. Requests'
  <2>1. a0' = "addr" => ~data_q'[1] /\ ~data_q'[2]
    BY <1>1, <1>3 DEF HostInv, Requests
  <2>2. a0' = "data" => ~addr_q'[1] /\ ~addr_q'[2] /\ ~addr_q'[3]
    BY <1>1, <1>3 DEF HostInv, Requests
  <2>3. strobe' /\ a0' = "data" => (data_q'[1] <=> age' >= 1) /\ (data_q'[2] <=> age' >= 2)
    BY <1>1, <1>3, <1>5 DEF HostInv, Requests
  <2>4. a0' = "addr" => /\ age' = 1 \/ (strobe' /\ age' >= 1) => addr_q'[1]
                        /\ age' = 2 => addr_q'[2]
                        /\ age' = 3 => addr_q'[3]
    BY <1>1, <1>3, <1>5 DEF HostInv, Requests
  <2>5. ~strobe' => /\ age' >= 1
                    /\ tail' >= 1 => ~addr_q'[1] /\ ~data_q'[1]
                    /\ tail' >= 2 => ~addr_q'[2] /\ ~data_q'[2]
                    /\ tail' >= 3 => ~addr_q'[3]
    BY <1>1, <1>3, <1>5 DEF HostInv, Requests
  <2>6. QED
    BY <2>1, <2>2, <2>3, <2>4, <2>5 DEF Requests
<1>7. Named'
  <2>1. CASE a0 = "data"
    BY <1>1, <1>2, <2>1 DEF HostInv, Requests, Named
  <2>2. CASE a0 = "addr"
    BY <1>1, <1>2, <1>3, <1>5, <2>2 DEF HostInv, Requests, Named
  <2>3. QED
    BY <1>4, <2>1, <2>2
<1>8. writing' <=> strobe /\ data_q'[2] /\ ~data_q[2]
  BY <1>1, <1>2, Falls DEF Clock
<1>9. Writer'
  <2>1. writing' => strobe /\ a0 = "data" /\ age' >= 2
    BY <1>1, <1>3, <1>4, <1>5, <1>8 DEF HostInv, Requests
  <2>2. QED
    BY <1>1, <1>2, <2>1 DEF HostInv, Writer
<1>10. Agrees'
  <2>1. strobe /\ a0 = "data" /\ age < 2 => age' < 2 \/ writing'
    <3>1. strobe /\ a0 = "data" /\ age < 2 /\ age' >= 2 => data_q'[2] /\ ~data_q[2]
      BY <1>1, <1>3, <1>5 DEF HostInv, Requests
    <3>2. QED
      BY <1>1, <1>8, <3>1, Sizes
  <2>2. QED
    BY <1>1, <1>2, <2>1 DEF HostInv, Agrees
<1>11. QED
  BY <1>6, <1>7, <1>9, <1>10 DEF HostInv

\* The microcode writes the two bytes of an accumulator, never a parameter.
LEMMA CommitHost ==
  ASSUME TypeOK, HostInv, Commit
  PROVE  HostInv'
<1>1. /\ strobe' = strobe /\ a0' = a0 /\ d_latch' = d_latch /\ age' = age /\ tail' = tail
      /\ addr_q' = addr_q /\ data_q' = data_q /\ reg_addr' = reg_addr
      /\ host_reg' = host_reg /\ params' = params /\ spoilt' = spoilt /\ ~writing' /\ writing
      /\ mem' = [mem EXCEPT ![ram_addr] = ram_di]
  BY DEF Commit, chainvars, hostvars, busvars, history
<1>2. Requests' /\ Named' /\ Writer'
  BY <1>1 DEF HostInv, Requests, Named, Writer
<1>3. \A x \in Param : x \in Cells
  BY CellOf DEF Param
<1>4. \A x \in Param : mem'[x] = IF x = ram_addr THEN ram_di ELSE mem[x]
  BY <1>1, <1>3 DEF TypeOK
<1>5. CASE strobe /\ a0 = "data"
  <2>1. d_latch \in Byte /\ params[host_reg] = d_latch
    BY <1>5 DEF HostInv, Writer
  <2>2. ram_addr = host_reg
    BY <1>5 DEF HostInv, Named, ram_addr
  <2>3. ram_di = d_latch
    BY <1>5, <2>1, Sizes DEF ram_di
  <2>4. \A x \in Param : x \in spoilt' \/ mem'[x] = params'[x]
    BY <1>1, <1>4, <2>1, <2>2, <2>3 DEF HostInv, Agrees
  <2>5. QED
    BY <1>2, <2>4 DEF HostInv, Agrees
<1>6. CASE ~strobe
  <2>1. sub \in 0..15 /\ chan \in 0..(CHANS - 1)
    BY Turn DEF TypeOK
  <2>2. Word(sub).cell \in {0, 1}
    BY <1>1, <1>6, <2>1, WordIs DEF HostInv, Writer
  <2>3. ram_addr = 8 * chan + Word(sub).cell
    BY <1>6 DEF ram_addr
  <2>4. \A c \in 0..(CHANS - 1), s \in 2..4 : 8 * c + s # ram_addr
    BY <2>1, <2>2, <2>3, Sizes
  <2>5. \A x \in Param : x # ram_addr
    BY <2>4 DEF Param
  <2>6. \A x \in Param : x \in spoilt' \/ mem'[x] = params'[x]
    BY <1>1, <1>4, <1>6, <2>5 DEF HostInv, Agrees
  <2>7. QED
    BY <1>2, <2>6 DEF HostInv, Agrees
<1>7. CASE strobe /\ a0 = "addr"
  <2>1. ram_addr \in spoilt
    BY <1>1, <1>7 DEF HostInv, Writer, ram_addr
  <2>2. \A x \in Param : x \in spoilt' \/ mem'[x] = params'[x]
    BY <1>1, <1>4, <1>7, <2>1 DEF HostInv, Agrees
  <2>3. QED
    BY <1>2, <2>2 DEF HostInv, Agrees
<1>8. QED
  BY <1>5, <1>6, <1>7 DEF TypeOK, ChainTypeOK, HostTypeOK, Kind

LEMMA ResetHost ==
  ASSUME TypeOK, HostInv, Reset
  PROVE  HostInv'
<1>1. /\ ~strobe /\ strobe' = strobe /\ a0' = a0 /\ d_latch' = d_latch
      /\ age' = Cap /\ tail' = Cap /\ reg_addr' = reg_addr /\ host_reg' = reg_addr
      /\ addr_q' = [i \in 1..3 |-> FALSE] /\ data_q' = [i \in 1..2 |-> FALSE]
      /\ step' = step /\ mem' = mem /\ params' = params /\ spoilt' = spoilt
      /\ ~writing /\ writing' = writing
  BY DEF Reset, ChainReset, HostReset, ClearChain
<1>2. ~addr_q'[1] /\ ~addr_q'[2] /\ ~addr_q'[3] /\ ~data_q'[1] /\ ~data_q'[2]
  BY <1>1
<1>3. Requests' /\ Named'
  BY <1>1, <1>2, Sizes DEF Requests, Named
<1>4. Writer'
  BY <1>1 DEF Writer
<1>5. Agrees'
  BY <1>1 DEF HostInv, Agrees
<1>6. QED
  BY <1>3, <1>4, <1>5 DEF HostInv

LEMMA NextHost ==
  ASSUME TypeOK, HostInv, [Next]_vars
  PROVE  HostInv'
<1>1. CASE \E v \in Addrs : Open("addr", v)
  BY <1>1, OpenHost, CoreAssumption DEF Kind
<1>2. CASE \E v \in Datas : Open("data", v)
  BY <1>2, OpenHost, CoreAssumption DEF Kind
<1>3. CASE UNCHANGED vars
  <2>1. Requests' /\ Named'
    BY <1>3 DEF vars, chainvars, hostvars, busvars, history, HostInv, Requests, Named
  <2>2. Writer' /\ Agrees'
    BY <1>3 DEF vars, chainvars, hostvars, corevars, history, HostInv, Writer, Agrees, sub
  <2>3. QED
    BY <2>1, <2>2 DEF HostInv
<1>4. QED
  BY <1>1, <1>2, <1>3, CloseHost, StepHost, ClockHost, CommitHost, ResetHost DEF Next

\* Whenever the bus is closed, phase steps and volumes hold what the host wrote,
\* whenever it opened the bus, unless an address strobe has spoilt the register
\* named before it; for every number of channels and every legal strobe.
THEOREM CoreParamsKept == Spec => []ParamsKept
<1>1. Init => HostInv
  BY InitHost
<1>2. TypeOK /\ HostInv /\ [Next]_vars => HostInv'
  BY NextHost
<1>3. HostInv => ParamsKept
  BY DEF HostInv, Agrees, Param, ParamsKept
<1>4. QED
  BY <1>1, <1>2, <1>3, CoreTypeOK, PTL DEF Spec
-----------------------------------------------------------------------------
LEMMA InitTurn == Init => TurnInv
<1> SUFFICES ASSUME Init PROVE TurnInv
  OBVIOUS
<1>1. mem \in [Cells -> Byte]
  BY CoreAssumption DEF Init
<1>2. step = 0 /\ sub = 0 /\ chan = 0 /\ Base = 0 /\ 0 \in 0..(CHANS - 1)
  BY Sizes DEF Init, sub, chan, Base
<1>3. start = mem[8 * 0] + BYTE * mem[8 * 0 + 1]
  BY <1>1, <1>2, AccIs DEF Init
<1>4. mem[0] \in Byte /\ mem[1] \in Byte /\ start = mem[0] + BYTE * mem[1]
  <2>1. mem[8 * 0] \in Byte /\ \A s \in 0..4 : mem[8 * 0 + s] \in Byte
    BY <1>1, <1>2, AccIs
  <2>2. 8 * 0 = 0 /\ 8 * 0 + 1 = 1 /\ 1 \in 0..4
    OBVIOUS
  <2>3. QED
    BY <1>3, <2>1, <2>2
<1>5. start % BYTE = mem[0] /\ start \div BYTE = mem[1]
  BY <1>4, Pairing
<1>6. ~strobe /\ tail = Cap /\ writing = FALSE
  BY DEF Init, ChainInit, HostInit
<1>7. QED
  BY <1>2, <1>5, <1>6, Sizes DEF TurnInv, LowDone, HighDone

\* Ten steps into an undisturbed turn the adder shows the new accumulator.
LEMMA AdderIsSum ==
  ASSUME TypeOK, TurnInv, clean, sub >= 10
  PROVE  adder = Sum
<1>1. sub \in 0..15 /\ chan \in 0..(CHANS - 1)
  BY Turn DEF TypeOK
<1>2. Number(reg_a) = (start % BYTE) + BYTE * (start \div BYTE)
  BY <1>1 DEF TurnInv, Number
<1>3. Number(reg_a) = start
  BY <1>2, Unpairing DEF TypeOK
<1>4. Number(reg_b) = StepWord(chan)
  BY <1>1 DEF TurnInv, Number, StepWord, Base
<1>5. QED
  BY <1>3, <1>4 DEF adder, Sum

\* What one step latches: the byte that the microcode has put on the bus.
LEMMA StepLatches ==
  ASSUME TypeOK, TurnInv, clean, Step
  PROVE  /\ reg_a'[1] = IF sub = 1 THEN mem[Base] ELSE reg_a[1]
         /\ reg_a'[2] = IF sub = 3 THEN mem[Base + 1] ELSE reg_a[2]
         /\ reg_b'[1] = IF sub = 5 THEN mem[Base + 2] ELSE reg_b[1]
         /\ reg_b'[2] = IF sub = 7 THEN mem[Base + 3] ELSE reg_b[2]
         /\ reg_c' = IF sub = 9 THEN mem[Base + 4] ELSE reg_c
<1>1. sub \in 0..15 /\ chan \in 0..(CHANS - 1) /\ ~strobe /\ Base = 8 * chan /\ Base \in Nat
  <2>1. sub \in 0..15 /\ chan \in 0..(CHANS - 1)
    BY Turn DEF TypeOK
  <2>2. ~strobe
    BY DEF TurnInv
  <2>3. QED
    BY <2>1, <2>2, Sizes DEF Base
<1>2. CASE sub \in {1, 3, 5, 7, 9}
  <2>1. tail >= 2
    <3>1. tail \in Nat /\ clk \in Nat /\ clk >= 1
      BY Sizes DEF TypeOK, ChainTypeOK, HostTypeOK, Step
    <3>2. CASE sub = 1
      BY <3>1, <3>2 DEF TurnInv
    <3>3. CASE sub # 1
      BY <1>1, <1>2, <3>3 DEF TurnInv
    <3>4. QED
      BY <3>2, <3>3
  <2>2. Read = {mem[ram_addr]}
    BY <2>1 DEF Read
  <2>3. PICK b \in Read : Latch(b)
    BY <1>1, <1>2 DEF Step
  <2>4. Latch(mem[Base + sub \div 2])
    BY <1>1, <1>2, <2>2, <2>3, ReadType
  <2>5. /\ sub = 1 => Base + sub \div 2 = Base
        /\ sub = 3 => Base + sub \div 2 = Base + 1
        /\ sub = 5 => Base + sub \div 2 = Base + 2
        /\ sub = 7 => Base + sub \div 2 = Base + 3
        /\ sub = 9 => Base + sub \div 2 = Base + 4
    BY <1>1
  <2>6. CASE sub = 1
    BY <2>4, <2>5, <2>6 DEF Latch
  <2>7. CASE sub = 3
    BY <2>4, <2>5, <2>7 DEF Latch
  <2>8. CASE sub = 5
    BY <2>4, <2>5, <2>8 DEF Latch
  <2>9. CASE sub = 7
    BY <2>4, <2>5, <2>9 DEF Latch
  <2>10. CASE sub = 9
    BY <2>4, <2>5, <2>10 DEF Latch
  <2>11. QED
    BY <1>2, <2>6, <2>7, <2>8, <2>9, <2>10
<1>3. CASE sub \notin {1, 3, 5, 7, 9}
  <2>1. reg_a' = reg_a /\ reg_b' = reg_b /\ reg_c' = reg_c
    BY <1>3 DEF Step
  <2>2. QED
    BY <1>3, <2>1
<1>4. QED
  BY <1>2, <1>3

\* The last step of a turn begins the next one; every other step takes the turn
\* one further.
LEMMA StepTurn ==
  ASSUME TypeOK, TurnInv, Step
  PROVE  TurnInv'
<1>1. sub \in 0..15 /\ chan \in 0..(CHANS - 1) /\ chan' \in 0..(CHANS - 1)
      /\ (sub # 15 => sub' = sub + 1 /\ chan' = chan) /\ (sub = 15 => sub' = 0)
  BY Turn DEF Step, TypeOK
<1>2. /\ mem' = mem /\ clk' = 0 /\ clk >= 1 /\ ~writing /\ strobe' = strobe /\ tail' = tail
      /\ tail \in Nat /\ clk \in Nat
  BY Sizes DEF Step, chainvars, hostvars, TypeOK, ChainTypeOK, HostTypeOK
<1>3. CASE sub = 15
  <2> SUFFICES ASSUME clean' PROVE TurnInv'
    BY DEF TurnInv
  <2>1. ~strobe /\ start' = Acc(chan') /\ sub' = 0
    BY <1>1, <1>3 DEF Step
  <2>2. ~writing'
    <3>1. ~Word(sub').we
      BY <2>1, WordIs
    <3>2. QED
      BY <1>2, <2>1, <3>1, Falls DEF Step
  <2>3. /\ mem[8 * chan'] \in Byte /\ mem[8 * chan' + 1] \in Byte
        /\ start' = mem[8 * chan'] + BYTE * mem[8 * chan' + 1]
    <3>1. 1 \in 0..4
      OBVIOUS
    <3>2. QED
      BY <1>1, <2>1, <3>1, AccIs DEF TypeOK
  <2>4. start' % BYTE = mem[8 * chan'] /\ start' \div BYTE = mem[8 * chan' + 1]
    BY <2>3, Pairing
  <2>5. QED
    BY <1>2, <2>1, <2>2, <2>4 DEF TurnInv, LowDone, HighDone, Base
<1>4. CASE sub # 15
  <2> SUFFICES ASSUME clean PROVE TurnInv'
    BY <1>4 DEF TurnInv, Step
  <2>1. sub' = sub + 1 /\ chan' = chan /\ start' = start /\ ~strobe /\ Base' = Base
    BY <1>1, <1>4 DEF Step, TurnInv, Base
  <2>2. Sum' = Sum /\ StepWord(chan)' = StepWord(chan)
    BY <1>2, <2>1 DEF Sum, StepWord
  <2>3. writing' <=> sub' \in {10, 12}
    <3>1. sub' \in 0..15
      BY <1>1, <1>4
    <3>2. (Word(sub').we <=> sub' \in {10, 12}) /\ (Word(sub).we <=> sub \in {10, 12})
      BY <1>1, <3>1, WordIs
    <3>3. writing' <=> sub' \in {10, 12} /\ sub \notin {10, 12}
      BY <1>2, <2>1, <3>2, Falls DEF Step
    <3>4. QED
      BY <1>1, <2>1, <3>3
  <2>4. (LowDone' <=> LowDone) /\ (HighDone' <=> HighDone)
    <3>1. writing' \in BOOLEAN
      BY <2>3, WriteEnableType DEF Step
    <3>2. LowDone' <=> sub' > 10
      BY <1>1, <2>1, <2>3 DEF LowDone
    <3>3. LowDone <=> sub >= 10
      BY <1>1, <1>2 DEF LowDone
    <3>4. HighDone' <=> sub' > 12
      BY <1>1, <2>1, <2>3 DEF HighDone
    <3>5. HighDone <=> sub >= 12
      BY <1>1, <1>2 DEF HighDone
    <3>6. QED
      BY <1>1, <2>1, <3>2, <3>3, <3>4, <3>5
  <2>5. /\ mem[Base] = IF LowDone' THEN Sum' % BYTE ELSE start' % BYTE
        /\ mem[Base + 1] = IF HighDone' THEN Sum' \div BYTE ELSE start' \div BYTE
    BY <2>1, <2>2, <2>4 DEF TurnInv
  <2>6. /\ sub < 10 => mem[Base] = start % BYTE
        /\ sub < 12 => mem[Base + 1] = start \div BYTE
    BY <1>1 DEF TurnInv, LowDone, HighDone
  <2>7. /\ sub' >= 2 => reg_a'[1] = start % BYTE
        /\ sub' >= 4 => reg_a'[2] = start \div BYTE
        /\ sub' >= 6 => reg_b'[1] = mem[Base + 2]
        /\ sub' >= 8 => reg_b'[2] = mem[Base + 3]
        /\ sub' >= 10 => reg_c' = mem[Base + 4]
    BY <1>1, <2>1, <2>6, StepLatches DEF TurnInv
  <2>8. sub' = 13 => dac_out' = wave_do'
    <3> SUFFICES ASSUME sub = 12 PROVE dac_out' = wave_do'
      BY <1>1, <2>1
    <3>1. dac_out' = wave_do
      BY <2>1 DEF Step
    <3>2. reg_a' = reg_a /\ reg_c' = reg_c
      BY DEF Step
    <3>3. QED
      BY <3>1, <3>2 DEF wave_do
  <2>9. /\ sub' = 1 => tail' >= 2 \/ tail' >= clk' + 1
        /\ sub' >= 2 => tail' >= 2
    BY <1>1, <1>2, <2>1 DEF TurnInv
  <2>10. sub' # 0
    BY <1>1, <2>1
  <2>11. mem' = mem /\ ~strobe' /\ start' = start /\ Base' = Base
    BY <1>2, <2>1
  <2>12. QED
    BY <2>3, <2>5, <2>7, <2>8, <2>9, <2>10, <2>11 DEF TurnInv
<1>5. QED
  BY <1>3, <1>4

\* Nothing that a turn has done depends on more than these.
LEMMA SameTurn ==
  ASSUME TurnInv,
         step' = step, reg_a' = reg_a, reg_b' = reg_b, reg_c' = reg_c, mem' = mem,
         writing' <=> writing, start' = start, clean' = clean, strobe' = strobe,
         tail' >= 2 \/ (sub = 0 /\ tail' >= clk') \/ (sub = 1 /\ tail' >= clk' + 1)
           \/ ~clean,
         sub = 13 => dac_out' = wave_do \/ dac_out' = dac_out
  PROVE  TurnInv'
<1> SUFFICES ASSUME clean PROVE TurnInv'
  BY DEF TurnInv
<1>1. sub' = sub /\ chan' = chan /\ Base' = Base /\ start' = start /\ mem' = mem
  BY DEF sub, chan, Base
<1>2. Sum' = Sum
  BY <1>1 DEF Sum, StepWord
<1>3. wave_do' = wave_do
  BY DEF wave_do
<1>4. (LowDone' <=> LowDone) /\ (HighDone' <=> HighDone)
  BY <1>1 DEF LowDone, HighDone
<1>5. /\ mem[Base] = IF LowDone' THEN Sum % BYTE ELSE start % BYTE
      /\ mem[Base + 1] = IF HighDone' THEN Sum \div BYTE ELSE start \div BYTE
  BY <1>4 DEF TurnInv
<1>6. sub = 13 => dac_out' = wave_do
  BY DEF TurnInv
<1>7. /\ sub = 0 => tail' >= 2 \/ tail' >= clk'
      /\ sub = 1 => tail' >= 2 \/ tail' >= clk' + 1
      /\ sub >= 2 => tail' >= 2
  BY DEF TurnInv
<1>8. QED
  BY <1>1, <1>2, <1>3, <1>5, <1>6, <1>7 DEF TurnInv

LEMMA ClockTurn ==
  ASSUME TypeOK, TurnInv, Clock
  PROVE  TurnInv'
<1>1. /\ step' = step /\ reg_a' = reg_a /\ reg_b' = reg_b /\ reg_c' = reg_c /\ mem' = mem
      /\ dac_out' = dac_out /\ start' = start /\ clean' = clean /\ strobe' = strobe
      /\ clk' = clk + 1 /\ clk \in Nat /\ tail \in Nat /\ ~writing
      /\ tail' = (IF tail < Cap THEN tail + 1 ELSE tail)
  BY Sizes DEF Clock, ChainClock, HostEdge, Inc, corevars, history, TypeOK, ChainTypeOK, HostTypeOK
<1> SUFFICES ASSUME clean PROVE TurnInv'
  BY <1>1 DEF TurnInv
<1>2. ~strobe /\ sub' = sub
  BY <1>1 DEF TurnInv, sub
<1>3. ~writing'
  BY <1>1, <1>2, Falls DEF Clock
<1>4. sub \in 0..15
  BY Turn DEF TypeOK
<1>5. tail >= 2 \/ (sub = 0 /\ tail >= clk) \/ (sub = 1 /\ tail >= clk + 1)
  BY <1>1, <1>4 DEF TurnInv
<1>6. tail' >= 2 \/ (sub = 0 /\ tail' >= clk') \/ (sub = 1 /\ tail' >= clk' + 1)
  BY <1>1, <1>5, Sizes
<1>7. QED
  BY <1>1, <1>3, <1>6, SameTurn

\* The two writes of a turn: the low byte in step 10, the high byte in step 12.
LEMMA CommitTurn ==
  ASSUME TypeOK, TurnInv, Commit
  PROVE  TurnInv'
<1>1. /\ step' = step /\ reg_a' = reg_a /\ reg_b' = reg_b /\ reg_c' = reg_c
      /\ dac_out' = dac_out /\ start' = start /\ clean' = clean /\ strobe' = strobe
      /\ clk' = clk /\ tail' = tail /\ writing /\ ~writing'
      /\ mem' = [mem EXCEPT ![ram_addr] = ram_di]
  BY DEF Commit, chainvars, hostvars, corevars, history
<1> SUFFICES ASSUME clean PROVE TurnInv'
  BY <1>1 DEF TurnInv
<1>2. sub \in 0..15 /\ chan \in 0..(CHANS - 1)
  BY Turn DEF TypeOK
<1>3. ~strobe /\ sub \in {10, 12} /\ Base = 8 * chan /\ Base \in Nat
  <2>1. ~strobe /\ sub \in {10, 12}
    BY <1>1 DEF TurnInv
  <2>2. QED
    BY <1>2, <2>1, Sizes DEF Base
<1>4. sub' = sub /\ chan' = chan /\ Base' = Base
  BY <1>1 DEF sub, chan, Base
<1>5. adder = Sum
  BY <1>3, AdderIsSum
<1>6. /\ Word(sub).cell = IF sub = 10 THEN 0 ELSE 1
  BY <1>2, <1>3, WordIs
<1>7. ram_addr = Base + (IF sub = 10 THEN 0 ELSE 1)
  BY <1>3, <1>6 DEF ram_addr
<1>8. ram_di = IF sub = 10 THEN Sum % BYTE ELSE Sum \div BYTE
  BY <1>3, <1>5, <1>6 DEF ram_di, writeback
<1>9. \A s \in 0..4 : Base + s \in Cells
  BY <1>2, <1>3, CellOf
<1>10. \A s \in 0..4 : mem'[Base + s] = IF Base + s = ram_addr THEN ram_di ELSE mem[Base + s]
  BY <1>1, <1>9 DEF TypeOK
<1>11. /\ mem'[Base + 2] = mem[Base + 2] /\ mem'[Base + 3] = mem[Base + 3]
       /\ mem'[Base + 4] = mem[Base + 4]
  BY <1>3, <1>7, <1>10
<1>12. Sum' = Sum
  BY <1>1, <1>3, <1>4, <1>11 DEF Sum, StepWord, Number
<1>13. Base + 0 = Base
  BY <1>3
<1>14. LowDone' /\ (HighDone' <=> sub = 12)
  BY <1>1, <1>3, <1>4 DEF LowDone, HighDone
<1>15. mem'[Base] = Sum % BYTE
  <2>1. CASE sub = 10
    BY <1>3, <1>7, <1>8, <1>10, <1>13, <2>1
  <2>2. CASE sub = 12
    <3>1. mem[Base] = Sum % BYTE
      BY <2>2 DEF TurnInv, LowDone
    <3>2. Base # ram_addr
      BY <1>3, <1>7, <2>2
    <3>3. QED
      BY <1>10, <1>13, <3>1, <3>2
  <2>3. QED
    BY <1>3, <2>1, <2>2
<1>16. mem'[Base + 1] = IF sub = 12 THEN Sum \div BYTE ELSE start \div BYTE
  <2>1. CASE sub = 12
    BY <1>3, <1>7, <1>8, <1>10, <2>1
  <2>2. CASE sub = 10
    <3>1. mem[Base + 1] = start \div BYTE
      BY <2>2 DEF TurnInv, HighDone
    <3>2. Base + 1 # ram_addr
      BY <1>3, <1>7, <2>2
    <3>3. QED
      BY <1>10, <2>2, <3>1, <3>2
  <2>3. QED
    BY <1>3, <2>1, <2>2
<1>17. /\ reg_a[1] = start % BYTE /\ reg_a[2] = start \div BYTE /\ reg_b[1] = mem[Base + 2]
       /\ reg_b[2] = mem[Base + 3] /\ reg_c = mem[Base + 4] /\ tail >= 2
  BY <1>3 DEF TurnInv
<1>18. /\ mem'[Base'] = IF LowDone' THEN Sum' % BYTE ELSE start' % BYTE
       /\ mem'[Base' + 1] = IF HighDone' THEN Sum' \div BYTE ELSE start' \div BYTE
  BY <1>1, <1>4, <1>12, <1>14, <1>15, <1>16
<1>19. /\ reg_a'[1] = start' % BYTE /\ reg_a'[2] = start' \div BYTE
       /\ reg_b'[1] = mem'[Base' + 2] /\ reg_b'[2] = mem'[Base' + 3]
       /\ reg_c' = mem'[Base' + 4] /\ tail' >= 2
  BY <1>1, <1>4, <1>11, <1>17
<1>20. sub' # 13 /\ sub' # 0 /\ sub' # 1 /\ ~strobe' /\ ~writing'
  BY <1>1, <1>3, <1>4
<1>21. QED
  BY <1>18, <1>19, <1>20 DEF TurnInv

LEMMA ResetTurn ==
  ASSUME TypeOK, TurnInv, Reset
  PROVE  TurnInv'
<1>1. /\ step' = step /\ reg_a' = reg_a /\ reg_b' = reg_b /\ reg_c' = reg_c /\ mem' = mem
      /\ start' = start /\ clean' = clean /\ strobe' = strobe /\ tail' = Cap
      /\ writing' = writing /\ dac_out' = IF sub = 13 THEN wave_do ELSE 0
  BY DEF Reset, ChainReset, HostReset
<1>2. tail' >= 2
  BY <1>1, Sizes
<1>3. QED
  BY <1>1, <1>2, SameTurn

LEMMA NextTurn ==
  ASSUME TypeOK, TurnInv, [Next]_vars
  PROVE  TurnInv'
<1>1. CASE \E k \in Kind, v \in Val : Open(k, v)
  BY <1>1 DEF Open, TurnInv
<1>2. CASE Close
  <2>1. strobe /\ clean' = clean
    BY <1>2 DEF Close, HostClose, history
  <2>2. QED
    BY <2>1 DEF TurnInv
<1>3. CASE UNCHANGED vars
  <2>1. /\ step' = step /\ reg_a' = reg_a /\ reg_b' = reg_b /\ reg_c' = reg_c /\ mem' = mem
        /\ start' = start /\ clean' = clean /\ strobe' = strobe /\ tail' = tail
        /\ writing' = writing /\ dac_out' = dac_out /\ clk' = clk
    BY <1>3 DEF vars, chainvars, hostvars, corevars, history
  <2>2. sub \in 0..15
    BY Turn DEF TypeOK
  <2>3. ~clean \/ tail' >= 2 \/ (sub = 0 /\ tail' >= clk') \/ (sub = 1 /\ tail' >= clk' + 1)
    BY <2>1, <2>2 DEF TurnInv
  <2>4. QED
    BY <2>1, <2>3, SameTurn
<1>4. (\E v \in Addrs : Open("addr", v)) \/ (\E v \in Datas : Open("data", v)) =>
        \E k \in Kind, v \in Val : Open(k, v)
  BY CoreAssumption DEF Kind
<1>5. QED
  BY <1>1, <1>2, <1>3, <1>4, StepTurn, ClockTurn, CommitTurn, ResetTurn DEF Next

LEMMA TurnIsClean ==
  ASSUME TypeOK, TurnInv
  PROVE  CleanPass
<1> SUFFICES ASSUME clean, sub \in 13..15
             PROVE  /\ Acc(chan) = Sum
                    /\ sub = 13 => dac_out = Wave(start \div BYTE, mem[8 * chan + 4])
  BY DEF CleanPass, Sum
<1>1. chan \in 0..(CHANS - 1)
  BY Turn DEF TypeOK
<1>2. LowDone /\ HighDone
  BY DEF LowDone, HighDone
<1>3. mem[8 * chan] = Sum % BYTE /\ mem[8 * chan + 1] = Sum \div BYTE
  BY <1>2 DEF TurnInv, Base
<1>4. Acc(chan) = (Sum % BYTE) + BYTE * (Sum \div BYTE)
  BY <1>1, <1>3, AccIs DEF TypeOK
<1>5. Sum \in 0..(BYTE * BYTE - 1)
  <2>1. start \in Nat /\ StepWord(chan) \in Nat
    BY <1>1, AccIs DEF TypeOK
  <2>2. start + StepWord(chan) \in Nat
    BY <2>1
  <2>3. QED
    BY <2>2, Sums DEF Sum
<1>6. Acc(chan) = Sum
  BY <1>4, <1>5, Unpairing
<1>7. sub = 13 => dac_out = Wave(start \div BYTE, mem[8 * chan + 4])
  BY DEF TurnInv, wave_do, Base
<1>8. QED
  BY <1>6, <1>7

\* For every byte width, wavetable, number of channels and clock ratio, a turn
\* that the bus leaves alone is exact, whatever the bus and resets did before.
THEOREM CoreCleanPass == Spec => []CleanPass
<1>1. Init => TurnInv
  BY InitTurn
<1>2. TypeOK /\ TurnInv /\ [Next]_vars => TurnInv'
  BY NextTurn
<1>3. TypeOK /\ TurnInv => CleanPass
  BY TurnIsClean
<1>4. QED
  BY <1>1, <1>2, <1>3, CoreTypeOK, PTL DEF Spec
=============================================================================
