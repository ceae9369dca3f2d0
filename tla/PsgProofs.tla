----------------------------- MODULE PsgProofs ------------------------------
(***************************************************************************)
(* The bus of PsgTop writes what the host says, in whatever order the pins *)
(* move, and its triangle never jumps, for every width and every data byte.*)
(***************************************************************************)
EXTENDS PsgTop, TLAPS

Prev == IF k = 0 THEN 9 ELSE k - 1

\* The pins are on the way from one command to the next, so the driver's order
\* keeps the edges of the address and of the datum apart.
PinsInv ==
  /\ A0 = A0_at(k) \/ A0 = A0_at(Prev)
  /\ WR_n = WR_n_at(k) \/ WR_n = WR_n_at(Prev)
  /\ CS_n = CS_n_at(k) \/ CS_n = CS_n_at(Prev)

\* What port C shows, and what has been latched from it.
BusInv ==
  /\ k \in 2..4 => bus_data = Address(reg)
  /\ k \in 5..9 => bus_data = datum
  /\ k \in 4..9 \/ (k = 3 /\ WR_n) => addr_out = Address(reg)
  /\ k \in 8..9 \/ (k = 7 /\ WR_n) => regs[reg] = datum

\* Between the falling and the rising edge the 112 has already turned the count.
WaveInv == folding => uni_wave = TRIANGLE /\ (~clk => ~at_extreme)

PsgInv == TypeOK /\ PinsInv /\ BusInv /\ WaveInv
-----------------------------------------------------------------------------
LEMMA Sizes ==
  /\ LOW \in Nat \ {0} /\ HIGH \in Nat \ {0}
  /\ TOP \in Nat /\ TOP >= 1 /\ TOP + 1 = LOW * HIGH
  /\ STEPS \in Nat /\ STEPS >= 3
<1>1. \A l, h \in Nat : l * h \in Nat
  OBVIOUS
<1>2. QED
  BY <1>1, PsgAssumption DEF TOP

\* What the host and the power-up put into a register or on the bus are bytes.
LEMMA Bytes ==
  /\ \A r \in Reg : Address(r) \in Byte
  /\ \A r \in Reg : Datum[r] \subseteq Byte
  BY PsgAssumption DEF Address, Byte

\* The edges that a moving pin can make.
LEMMA EdgeAt ==
  ASSUME TypeOK, PinsInv, Pin
  PROVE  /\ addr_cp' /\ ~addr_cp => k \in {1, 3}
         /\ data_strobe' /\ ~data_strobe => k = 7
         /\ k = 3 /\ WR_n' => (addr_cp' /\ ~addr_cp)
         /\ k = 7 /\ WR_n' => (data_strobe' /\ ~data_strobe)
         /\ PinsInv' /\ A0' \in BOOLEAN /\ WR_n' \in BOOLEAN /\ CS_n' \in BOOLEAN
<1>1. k \in {0, 1, 2, 3, 4, 5, 6, 7, 8, 9} /\ k' = k /\ Prev' = Prev
  BY DEF TypeOK, Pin, hostvars, Prev
<1>2. A0 \in BOOLEAN /\ WR_n \in BOOLEAN /\ CS_n \in BOOLEAN
  BY DEF TypeOK
<1>3. \A n : A0_at(n) \in BOOLEAN /\ WR_n_at(n) \in BOOLEAN /\ CS_n_at(n) \in BOOLEAN
  BY DEF A0_at, WR_n_at, CS_n_at
<1>4. \/ A0 # A0_at(k) /\ A0' = A0_at(k) /\ WR_n' = WR_n /\ CS_n' = CS_n
      \/ WR_n # WR_n_at(k) /\ WR_n' = WR_n_at(k) /\ A0' = A0 /\ CS_n' = CS_n
      \/ CS_n # CS_n_at(k) /\ CS_n' = CS_n_at(k) /\ A0' = A0 /\ WR_n' = WR_n
  BY DEF Pin
<1>5. A0' \in BOOLEAN /\ WR_n' \in BOOLEAN /\ CS_n' \in BOOLEAN
  BY <1>2, <1>3, <1>4
<1>6. PinsInv'
  BY <1>1, <1>4 DEF PinsInv
<1>7. /\ (A0 <=> A0_at(k)) \/ (A0 <=> A0_at(Prev))
      /\ (WR_n <=> WR_n_at(k)) \/ (WR_n <=> WR_n_at(Prev))
      /\ (CS_n <=> CS_n_at(k)) \/ (CS_n <=> CS_n_at(Prev))
  BY <1>2, <1>3, Zenon DEF PinsInv
<1>8. \/ ~(A0 <=> A0_at(k)) /\ (A0' <=> A0_at(k)) /\ (WR_n' <=> WR_n) /\ (CS_n' <=> CS_n)
      \/ ~(WR_n <=> WR_n_at(k)) /\ (WR_n' <=> WR_n_at(k)) /\ (A0' <=> A0) /\ (CS_n' <=> CS_n)
      \/ ~(CS_n <=> CS_n_at(k)) /\ (CS_n' <=> CS_n_at(k)) /\ (A0' <=> A0) /\ (WR_n' <=> WR_n)
  BY <1>2, <1>3, <1>4, Zenon
<1>k0. ASSUME k = 0 PROVE ~(addr_cp' /\ ~addr_cp) /\ ~(data_strobe' /\ ~data_strobe)
  <2>1. /\ ~A0_at(k) /\ A0_at(Prev)
        /\ WR_n_at(k) /\ ~WR_n_at(Prev)
        /\ CS_n_at(k) /\ CS_n_at(Prev)
    BY <1>k0 DEF A0_at, WR_n_at, CS_n_at, Prev
  <2>2. QED
    BY <1>7, <1>8, <2>1 DEF addr_cp, data_strobe
<1>k1. ASSUME k = 1 PROVE ~(data_strobe' /\ ~data_strobe)
  <2>1. /\ ~A0_at(k) /\ ~A0_at(Prev)
        /\ ~WR_n_at(k) /\ WR_n_at(Prev)
        /\ ~CS_n_at(k) /\ CS_n_at(Prev)
    BY <1>k1 DEF A0_at, WR_n_at, CS_n_at, Prev
  <2>2. QED
    BY <1>7, <1>8, <2>1 DEF addr_cp, data_strobe
<1>k2. ASSUME k = 2 PROVE ~(addr_cp' /\ ~addr_cp) /\ ~(data_strobe' /\ ~data_strobe)
  <2>1. /\ ~A0_at(k) /\ ~A0_at(Prev)
        /\ ~WR_n_at(k) /\ ~WR_n_at(Prev)
        /\ ~CS_n_at(k) /\ ~CS_n_at(Prev)
    BY <1>k2 DEF A0_at, WR_n_at, CS_n_at, Prev
  <2>2. QED
    BY <1>7, <1>8, <2>1 DEF addr_cp, data_strobe
<1>k3. ASSUME k = 3 PROVE ~(data_strobe' /\ ~data_strobe) /\ (WR_n' => (addr_cp' /\ ~addr_cp))
  <2>1. /\ ~A0_at(k) /\ ~A0_at(Prev)
        /\ WR_n_at(k) /\ ~WR_n_at(Prev)
        /\ ~CS_n_at(k) /\ ~CS_n_at(Prev)
    BY <1>k3 DEF A0_at, WR_n_at, CS_n_at, Prev
  <2>2. QED
    BY <1>7, <1>8, <2>1 DEF addr_cp, data_strobe
<1>k4. ASSUME k = 4 PROVE ~(addr_cp' /\ ~addr_cp) /\ ~(data_strobe' /\ ~data_strobe)
  <2>1. /\ ~A0_at(k) /\ ~A0_at(Prev)
        /\ ~WR_n_at(k) /\ WR_n_at(Prev)
        /\ ~CS_n_at(k) /\ ~CS_n_at(Prev)
    BY <1>k4 DEF A0_at, WR_n_at, CS_n_at, Prev
  <2>2. QED
    BY <1>7, <1>8, <2>1 DEF addr_cp, data_strobe
<1>k5. ASSUME k = 5 PROVE ~(addr_cp' /\ ~addr_cp) /\ ~(data_strobe' /\ ~data_strobe)
  <2>1. /\ ~A0_at(k) /\ ~A0_at(Prev)
        /\ ~WR_n_at(k) /\ ~WR_n_at(Prev)
        /\ ~CS_n_at(k) /\ ~CS_n_at(Prev)
    BY <1>k5 DEF A0_at, WR_n_at, CS_n_at, Prev
  <2>2. QED
    BY <1>7, <1>8, <2>1 DEF addr_cp, data_strobe
<1>k6. ASSUME k = 6 PROVE ~(addr_cp' /\ ~addr_cp) /\ ~(data_strobe' /\ ~data_strobe)
  <2>1. /\ A0_at(k) /\ ~A0_at(Prev)
        /\ ~WR_n_at(k) /\ ~WR_n_at(Prev)
        /\ ~CS_n_at(k) /\ ~CS_n_at(Prev)
    BY <1>k6 DEF A0_at, WR_n_at, CS_n_at, Prev
  <2>2. QED
    BY <1>7, <1>8, <2>1 DEF addr_cp, data_strobe
<1>k7. ASSUME k = 7 PROVE ~(addr_cp' /\ ~addr_cp) /\ (WR_n' => (data_strobe' /\ ~data_strobe))
  <2>1. /\ A0_at(k) /\ A0_at(Prev)
        /\ WR_n_at(k) /\ ~WR_n_at(Prev)
        /\ ~CS_n_at(k) /\ ~CS_n_at(Prev)
    BY <1>k7 DEF A0_at, WR_n_at, CS_n_at, Prev
  <2>2. QED
    BY <1>7, <1>8, <2>1 DEF addr_cp, data_strobe
<1>k8. ASSUME k = 8 PROVE ~(addr_cp' /\ ~addr_cp) /\ ~(data_strobe' /\ ~data_strobe)
  <2>1. /\ A0_at(k) /\ A0_at(Prev)
        /\ ~WR_n_at(k) /\ WR_n_at(Prev)
        /\ ~CS_n_at(k) /\ ~CS_n_at(Prev)
    BY <1>k8 DEF A0_at, WR_n_at, CS_n_at, Prev
  <2>2. QED
    BY <1>7, <1>8, <2>1 DEF addr_cp, data_strobe
<1>k9. ASSUME k = 9 PROVE ~(addr_cp' /\ ~addr_cp) /\ ~(data_strobe' /\ ~data_strobe)
  <2>1. /\ A0_at(k) /\ A0_at(Prev)
        /\ ~WR_n_at(k) /\ ~WR_n_at(Prev)
        /\ CS_n_at(k) /\ ~CS_n_at(Prev)
    BY <1>k9 DEF A0_at, WR_n_at, CS_n_at, Prev
  <2>2. QED
    BY <1>7, <1>8, <2>1 DEF addr_cp, data_strobe
<1>9. QED
  BY <1>1, <1>5, <1>6, <1>k0, <1>k1, <1>k2, <1>k3, <1>k4, <1>k5, <1>k6, <1>k7, <1>k8, <1>k9

\* The registers change where the datum's strobe rises, and only the one addressed.
LEMMA RegsAt ==
  ASSUME PsgInv, Pin
  PROVE  /\ data_strobe' /\ ~data_strobe => regs' = [regs EXCEPT ![reg] = datum]
         /\ ~(data_strobe' /\ ~data_strobe) => regs' = regs
<1> USE DEF PsgInv
<1>1. regs \in [Reg -> Byte] /\ reg \in Reg
  BY DEF TypeOK
<1>2. regs' = [r \in Reg |-> IF ~reg_cp(r) /\ reg_cp(r)' THEN bus_data ELSE regs[r]]
  BY DEF Pin, Edges
<1>3. CASE data_strobe' /\ ~data_strobe
  <2>1. k = 7
    BY <1>3, EdgeAt
  <2>2. addr_out = Address(reg) /\ bus_data = datum
    BY <2>1 DEF BusInv
  <2>3. addr_out' = addr_out
    BY <2>1, EdgeAt DEF Pin, Edges
  <2>4. \A r \in Reg : (~reg_cp(r) /\ reg_cp(r)') <=> r = reg
    BY <1>1, <1>3, <2>2, <2>3 DEF reg_cp, Address
  <2>5. QED
    BY <1>1, <1>2, <1>3, <2>2, <2>4
<1>4. CASE data_strobe /\ data_strobe'
  <2>1. addr_out' = addr_out
    BY <1>4 DEF Pin, Edges, addr_cp, data_strobe
  <2>2. \A r \in Reg : ~(~reg_cp(r) /\ reg_cp(r)')
    BY <1>4, <2>1 DEF reg_cp
  <2>3. QED
    BY <1>1, <1>2, <1>4, <2>2
<1>5. CASE ~data_strobe'
  <2>1. \A r \in Reg : ~reg_cp(r)'
    BY <1>5 DEF reg_cp
  <2>2. QED
    BY <1>1, <1>2, <1>5, <2>1
<1>6. QED
  BY <1>3, <1>4, <1>5

\* The period that reloads the counters is one they can hold.
LEMMA PeriodFits ==
  ASSUME TypeOK
  PROVE  uni_period \in 0..TOP
<1> DEFINE l == regs[3].num % LOW
           h == regs[4].num % HIGH
<1>1. regs[3].num \in Nat /\ regs[4].num \in Nat
  BY DEF TypeOK, Reg, Byte
<1>2. l \in 0..(LOW - 1) /\ h \in 0..(HIGH - 1)
  BY <1>1, Sizes
<1>3. \A w, v \in Nat, b \in Nat : b + 1 <= v => w * b \in Nat /\ w * b + w <= w * v
  <2>1. TAKE w, v \in Nat, b \in Nat
  <2>2. HAVE b + 1 <= v
  <2>3. PICK c \in Nat : v = b + 1 + c
    <3>1. v - (b + 1) \in Nat /\ v = b + 1 + (v - (b + 1))
      BY <2>2
    <3>2. QED
      BY <3>1
  <2>4. w * v = w * b + w + w * c /\ w * b \in Nat /\ w * c \in Nat /\ w * v \in Nat
    BY <2>3
  <2>5. QED
    BY <2>4
<1>4. h + 1 <= HIGH /\ h \in Nat
  BY <1>2, Sizes
<1> HIDE DEF l, h
<1>5. LOW * h \in Nat /\ LOW * h + LOW <= LOW * HIGH
  BY <1>3, <1>4, Sizes
<1>6. l + LOW * h \in Nat /\ l + LOW * h <= TOP
  BY <1>2, <1>5, Sizes
<1>7. uni_period = l + LOW * h
  BY DEF uni_period, l, h
<1>8. QED
  BY <1>6, <1>7, Sizes

LEMMA InitPsgInv == Init => PsgInv
<1> SUFFICES ASSUME Init PROVE PsgInv
  OBVIOUS
<1>1. regs \in [Reg -> Byte] /\ addr_out \in Byte /\ 3 \in Reg /\ 5 \in Reg
  BY Bytes DEF Init, Reg
<1>2. TypeOK
  <2>1. Address(3) \in Byte
    BY <1>1, Bytes
  <2>2. cnt \in 0..TOP /\ uni_wave_clean \in 0..(STEPS - 1) /\ k \in 0..9
    BY Sizes DEF Init
  <2>3. /\ A0 \in BOOLEAN /\ WR_n \in BOOLEAN /\ CS_n \in BOOLEAN
        /\ clk \in BOOLEAN /\ dir_q \in BOOLEAN /\ folding \in BOOLEAN
    BY DEF Init
  <2>4. QED
    BY <1>1, <2>1, <2>2, <2>3 DEF Init, TypeOK
<1>3. PinsInv
  <2>1. A0_at(0) = FALSE /\ WR_n_at(0) = TRUE /\ CS_n_at(0) = TRUE
    BY DEF A0_at, WR_n_at, CS_n_at
  <2>2. QED
    BY <2>1 DEF Init, PinsInv
<1>4. BusInv
  BY DEF Init, BusInv
<1>5. WaveInv
  BY DEF Init, WaveInv
<1>6. QED
  BY <1>2, <1>3, <1>4, <1>5 DEF PsgInv

\* A command starts from settled pins, so the strobe of the last one has come.
LEMMA CommandKeeps == PsgInv /\ Command => PsgInv'
<1> SUFFICES ASSUME PsgInv, Command PROVE PsgInv'
  OBVIOUS
<1> USE DEF PsgInv
<1>1. k \in {0, 1, 2, 3, 4, 5, 6, 7, 8, 9} /\ k' = (k + 1) % 10
  BY DEF TypeOK, Command
<1>2. /\ A0' = A0 /\ WR_n' = WR_n /\ CS_n' = CS_n
      /\ addr_out' = addr_out /\ regs' = regs /\ UNCHANGED wavevars
  BY DEF Command, pinvars, regvars
<1>3. k' \in 0..9 /\ Prev' = k
  BY <1>1 DEF Prev
<1>4. reg' \in Reg /\ datum' \in Byte /\ bus_data' \in Byte
  BY Bytes DEF Command, TypeOK
<1>5. TypeOK'
  BY <1>2, <1>3, <1>4 DEF TypeOK, wavevars
<1>6. PinsInv'
  BY <1>2, <1>3 DEF Command, Settled, PinsInv
<1>7. k # 0 => reg' = reg /\ datum' = datum
  BY DEF Command
<1>8. BusInv'
  <2>1. k' \in 2..4 => bus_data' = Address(reg')
    BY <1>1, <1>7 DEF Command, BusInv
  <2>2. k' \in 5..9 => bus_data' = datum'
    BY <1>1, <1>7 DEF Command, BusInv
  <2>3. (k \in {3, 7} => WR_n) /\ (k \in {2, 6} => ~WR_n')
    <3>1. WR_n <=> k \in {0, 3, 7}
      BY DEF Command, Settled, WR_n_at
    <3>2. WR_n' <=> WR_n
      BY <1>2
    <3>3. QED
      BY <3>1, <3>2
  <2>4. k' \in 4..9 \/ (k' = 3 /\ WR_n') => addr_out' = Address(reg')
    <3>1. k \in {3, 4, 5, 6, 7, 8} => addr_out = Address(reg)
      BY <2>3 DEF BusInv
    <3>2. k = 2 => ~WR_n'
      BY <2>3
    <3>3. QED
      BY <1>1, <1>2, <1>7, <3>1, <3>2
  <2>5. k' \in 8..9 \/ (k' = 7 /\ WR_n') => regs'[reg'] = datum'
    <3>1. k \in {7, 8} => regs[reg] = datum
      BY <2>3 DEF BusInv
    <3>2. k = 6 => ~WR_n'
      BY <2>3
    <3>3. QED
      BY <1>1, <1>2, <1>7, <3>1, <3>2
  <2>6. QED
    BY <2>1, <2>2, <2>4, <2>5 DEF BusInv
<1>9. WaveInv'
  BY <1>2 DEF WaveInv, wavevars, uni_wave, at_extreme, uni_freq_tc, uni_ud
<1>10. QED
  BY <1>5, <1>6, <1>8, <1>9

\* A moving pin latches the address at command 3, the datum at command 7, and
\* a register that it writes ends the fold it would have disturbed.
LEMMA PinKeeps == PsgInv /\ Pin => PsgInv'
<1> SUFFICES ASSUME PsgInv, Pin PROVE PsgInv'
  OBVIOUS
<1>1. TypeOK /\ PinsInv /\ BusInv /\ WaveInv
  BY DEF PsgInv
<1>2. /\ k' = k /\ reg' = reg /\ datum' = datum /\ bus_data' = bus_data
      /\ clk' = clk /\ cnt' = cnt /\ uni_q' = uni_q /\ dir_q' = dir_q
      /\ uni_wave_clean' = uni_wave_clean
      /\ folding' = (folding /\ uni_wave' = TRIANGLE)
      /\ addr_out' = IF ~addr_cp /\ addr_cp' THEN bus_data ELSE addr_out
  BY DEF Pin, Edges, hostvars
<1>3. k \in 0..9 /\ reg \in Reg /\ datum \in Byte /\ bus_data \in Byte
      /\ addr_out \in Byte /\ regs \in [Reg -> Byte] /\ folding \in BOOLEAN
  BY <1>1 DEF TypeOK
<1>4. regs' = [regs EXCEPT ![reg] = datum] \/ regs' = regs
  BY RegsAt
<1>5. regs' \in [Reg -> Byte] /\ addr_out' \in Byte /\ folding' \in BOOLEAN
  BY <1>2, <1>3, <1>4
<1>6. PinsInv' /\ A0' \in BOOLEAN /\ WR_n' \in BOOLEAN /\ CS_n' \in BOOLEAN
  BY <1>1, EdgeAt
<1>7. TypeOK'
  BY <1>1, <1>2, <1>5, <1>6 DEF TypeOK
<1>8. BusInv'
  <2>1. k \in 4..9 => addr_out' = addr_out
    BY <1>1, <1>2, EdgeAt
  <2>2. k = 3 /\ WR_n' => addr_out' = Address(reg)
    BY <1>1, <1>2, EdgeAt DEF BusInv
  <2>3. k \in 8..9 => regs' = regs
    BY <1>1, EdgeAt, RegsAt
  <2>4. k = 7 /\ WR_n' => regs'[reg] = datum
    BY <1>1, <1>3, EdgeAt, RegsAt
  <2>5. QED
    BY <1>1, <1>2, <2>1, <2>2, <2>3, <2>4 DEF BusInv
<1>9. WaveInv'
  <2> SUFFICES ASSUME folding' PROVE uni_wave' = TRIANGLE /\ (~clk' => ~at_extreme')
    BY DEF WaveInv
  <2>1. folding /\ uni_wave' = TRIANGLE /\ uni_wave = TRIANGLE
    BY <1>1, <1>2 DEF WaveInv
  <2>2. uni_ud' = uni_ud
    BY <1>2, <2>1 DEF uni_ud, TRIANGLE
  <2>3. at_extreme' <=> at_extreme
    BY <1>2, <2>2 DEF at_extreme, uni_freq_tc
  <2>4. QED
    BY <1>1, <1>2, <2>1, <2>3 DEF WaveInv
<1>10. QED
  BY <1>6, <1>7, <1>8, <1>9 DEF PsgInv

\* The reset leaves no counter at its end.
LEMMA ResetKeeps == PsgInv /\ Reset => PsgInv'
<1> SUFFICES ASSUME PsgInv, Reset PROVE PsgInv'
  OBVIOUS
<1> USE DEF PsgInv
<1>1. TypeOK' /\ cnt' # TOP
  <2>1. cnt' \in 0..TOP /\ cnt' # TOP /\ uni_wave_clean' \in 0..(STEPS - 1)
    BY Sizes DEF Reset
  <2>2. dir_q' \in BOOLEAN
    BY DEF Reset
  <2>3. QED
    BY <2>1, <2>2 DEF TypeOK, Reset, hostvars, pinvars, regvars
<1>2. PinsInv' /\ BusInv'
  BY DEF PinsInv, BusInv, Prev, Reset, hostvars, pinvars, regvars
<1>3. WaveInv'
  BY <1>1 DEF WaveInv, Reset, regvars, uni_wave, at_extreme, uni_freq_tc
<1>4. QED
  BY <1>1, <1>2, <1>3

LEMMA RiseKeeps == PsgInv /\ Rise => PsgInv'
<1> SUFFICES ASSUME PsgInv, Rise PROVE PsgInv'
  OBVIOUS
<1> USE DEF PsgInv
<1>1. cnt' \in 0..TOP
  <2>1. uni_freq_tc => cnt' \in 0..TOP
    BY PeriodFits DEF Rise
  <2>2. ~uni_freq_tc => cnt' \in 0..TOP
    BY Sizes DEF Rise, TypeOK, uni_freq_tc
  <2>3. QED
    BY <2>1, <2>2
<1>2. uni_q' \in 0..(STEPS - 1)
  <2>1. uni_q \in 0..(STEPS - 1)
    BY DEF TypeOK
  <2>2. Next_q \in 0..(STEPS - 1)
    <3>1. (uni_q + 1) % STEPS \in 0..(STEPS - 1)
      BY <2>1, Sizes
    <3>2. (uni_q + STEPS - 1) % STEPS \in 0..(STEPS - 1)
      BY <2>1, Sizes
    <3>3. QED
      BY <3>1, <3>2 DEF Next_q
  <2>3. QED
    BY <2>1, <2>2 DEF Rise
<1>3. TypeOK'
  BY <1>1, <1>2 DEF TypeOK, Rise, hostvars, pinvars, regvars
<1>4. PinsInv' /\ BusInv'
  BY DEF PinsInv, BusInv, Prev, Rise, hostvars, pinvars, regvars
<1>5. WaveInv'
  BY DEF WaveInv, Rise, regvars, uni_wave
<1>6. QED
  BY <1>3, <1>4, <1>5

\* The 112 has turned the count where it has to turn, and only there.
LEMMA FallKeeps == PsgInv /\ Fall => PsgInv'
<1> SUFFICES ASSUME PsgInv, Fall PROVE PsgInv'
  OBVIOUS
<1> USE DEF PsgInv
<1>1. /\ cnt' = cnt /\ uni_q' = uni_q /\ regs' = regs
      /\ dir_q' = IF at_extreme THEN ~dir_q ELSE dir_q
      /\ dir_q \in BOOLEAN /\ uni_q \in 0..(STEPS - 1)
  BY DEF Fall, regvars, TypeOK
<1>2. dir_q' \in BOOLEAN
  BY <1>1
<1>3. folding' \in BOOLEAN /\ uni_wave_clean' \in 0..(STEPS - 1)
  BY <1>1 DEF Fall
<1>4. TypeOK'
  BY <1>1, <1>2, <1>3 DEF TypeOK, Fall, hostvars, pinvars, regvars
<1>5. PinsInv' /\ BusInv'
  BY DEF PinsInv, BusInv, Prev, Fall, hostvars, pinvars, regvars
<1>6. WaveInv'
  <2> SUFFICES ASSUME folding' PROVE uni_wave' = TRIANGLE /\ ~at_extreme'
    BY DEF WaveInv
  <2>1. uni_wave = TRIANGLE /\ uni_wave' = TRIANGLE
    BY <1>1 DEF Fall, uni_wave
  <2>2. (uni_ud <=> ~dir_q) /\ (uni_ud' <=> ~dir_q')
    <3>1. uni_wave # RSAW /\ uni_wave' # RSAW
      BY <2>1 DEF TRIANGLE, RSAW
    <3>2. uni_ud <=> ~dir_q
      BY <2>1, <3>1 DEF uni_ud
    <3>3. uni_ud' <=> ~dir_q'
      BY <2>1, <3>1 DEF uni_ud
    <3>4. QED
      BY <3>2, <3>3
  <2>3. CASE at_extreme
    <3>1. uni_ud' <=> ~uni_ud
      BY <1>1, <2>2, <2>3
    <3>2. CASE uni_ud
      <4>1. uni_q = STEPS - 1 /\ ~uni_ud'
        BY <2>3, <3>1, <3>2 DEF at_extreme
      <4>2. QED
        BY <1>1, <2>1, <4>1, Sizes DEF at_extreme
    <3>3. CASE ~uni_ud
      <4>1. uni_q = 0 /\ uni_ud'
        BY <2>3, <3>1, <3>3 DEF at_extreme
      <4>2. QED
        BY <1>1, <2>1, <4>1, Sizes DEF at_extreme
    <3>4. QED
      BY <3>2, <3>3
  <2>4. CASE ~at_extreme
    <3>1. uni_ud' <=> uni_ud
      BY <1>1, <2>2, <2>4
    <3>2. QED
      BY <1>1, <2>1, <2>4, <3>1 DEF at_extreme, uni_freq_tc
  <2>5. QED
    BY <2>3, <2>4
<1>7. QED
  BY <1>4, <1>5, <1>6

\* Every reachable state satisfies the invariant.
THEOREM PsgInvariant == Spec => []PsgInv
<1>1. PsgInv /\ UNCHANGED vars => PsgInv'
  BY DEF PsgInv, vars, hostvars, pinvars, regvars, wavevars, TypeOK, PinsInv, BusInv,
         WaveInv, Prev, uni_wave, at_extreme, uni_freq_tc, uni_ud
<1>2. PsgInv /\ [Next]_vars => PsgInv'
  BY <1>1, CommandKeeps, PinKeeps, ResetKeeps, RiseKeeps, FallKeeps DEF Next
<1>3. QED
  BY InitPsgInv, <1>2, PTL DEF Spec

\* The pins, the registers, the counters and the CD4029 stay in their types.
THEOREM PsgTypeOK == Spec => []TypeOK
<1>1. PsgInv => TypeOK
  BY DEF PsgInv
<1>2. QED
  BY <1>1, PsgInvariant, PTL

\* The addressed register holds the datum when the strobe is over.
THEOREM PsgLanded == Spec => []Landed
<1>1. PsgInv => Landed
  BY DEF PsgInv, BusInv, Landed
<1>2. QED
  BY <1>1, PsgInvariant, PTL

\* No order of the pins writes another register, another byte or another time.
THEOREM PsgOnlyTarget == Spec => OnlyTarget
<1> DEFINE Write == regs' # regs => k = 7 /\ regs' = [regs EXCEPT ![reg] = datum]
<1>1. PsgInv /\ Pin => Write
  BY EdgeAt, RegsAt DEF PsgInv
<1>2. PsgInv /\ [Next]_vars => [Write]_vars
  BY <1>1 DEF Next, vars, regvars, Command, Reset, Rise, Fall
<1>3. QED
  BY <1>2, PsgInvariant, PTL DEF Spec, OnlyTarget

\* The triangle moves by one level at a time.
THEOREM PsgTurns == Spec => Turns
<1> DEFINE Step == folding /\ uni_q' # uni_q => uni_q' = uni_q + 1 \/ uni_q = uni_q' + 1
<1>1. PsgInv /\ Rise => Step
  <2> SUFFICES ASSUME PsgInv, Rise, folding, uni_q' # uni_q
               PROVE  uni_q' = uni_q + 1 \/ uni_q = uni_q' + 1
    OBVIOUS
  <2>1. uni_q' = Next_q /\ uni_freq_tc /\ uni_q \in 0..(STEPS - 1)
    BY DEF Rise, PsgInv, TypeOK
  <2>2. ~(uni_q = IF uni_ud THEN STEPS - 1 ELSE 0)
    BY <2>1 DEF PsgInv, WaveInv, Rise, at_extreme
  <2>3. CASE uni_ud
    BY <2>1, <2>2, <2>3, Sizes DEF Next_q
  <2>4. CASE ~uni_ud
    <3>1. (uni_q + STEPS - 1) % STEPS = uni_q - 1
      BY <2>1, <2>2, <2>4, Sizes
    <3>2. QED
      BY <2>1, <2>4, <3>1 DEF Next_q
  <2>5. QED
    BY <2>3, <2>4
<1>2. PsgInv /\ [Next]_vars => [Step]_vars
  BY <1>1 DEF Next, vars, wavevars, Command, Pin, Reset, Fall
<1>3. QED
  BY <1>2, PsgInvariant, PTL DEF Spec, Turns
=============================================================================
