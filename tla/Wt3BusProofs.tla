---------------------------- MODULE Wt3BusProofs ----------------------------
(***************************************************************************)
(* The v1.4 bus front end delivers every write exactly once, for every set *)
(* of byte values and every strobe, if the host pauses for three edges of  *)
(* the device clock: the length of the address chain, whose last flip-flop *)
(* keeps the 377 open.                                                     *)
(***************************************************************************)
EXTENDS Wt3Bus, TLAPS

\* The 377 must be shut before the latch opens again.
ASSUME ChainPaceAssumption == Gap >= 3

\* A request of kind k has reached flip-flop i of its chain.
Reached(k, i) == a0 = k /\ age >= i /\ (strobe \/ tail < i)

\* The chains are what the edge counts of the last strobe say.
Chains ==
  /\ \A i \in 1..3 : addr_q[i] <=> Reached("addr", i)
  /\ \A i \in 1..2 : data_q[i] <=> Reached("data", i)

\* The edge counts of a closed bus, the write that has not arrived yet, and the
\* register number under the loads that follow the first.
Closed  == ~strobe => (age >= tail + Hold \/ age = Cap)
Arrival == IF a0 = "addr" THEN 4 ELSE 2
Flight  == inflight = IF age < Arrival THEN <<a0, d_latch>> ELSE NoWrite
Reload  == addr_q[3] /\ age >= 4 => reg_addr = d_latch

ChainInv == TypeOK /\ Chains /\ Closed /\ Flight /\ Reload
-----------------------------------------------------------------------------
LEMMA Bounds ==
  /\ Hold \in Nat /\ Hold >= 1 /\ Gap \in Nat /\ Gap >= 3
  /\ Cap \in Nat /\ Cap = Hold + Gap + 4
  /\ Val \subseteq Nat /\ 0 \in Val
  BY HostAssumption, ChainPaceAssumption DEF Cap

\* The values of the two chains after a clock.
LEMMA Shifted ==
  ASSUME TypeOK, Clock
  PROVE  /\ addr_q' \in [1..3 -> BOOLEAN] /\ data_q' \in [1..2 -> BOOLEAN]
         /\ addr_q'[1] <=> (strobe /\ a0 = "addr")
         /\ addr_q'[2] <=> addr_q[1]
         /\ addr_q'[3] <=> addr_q[2]
         /\ data_q'[1] <=> (strobe /\ a0 = "data")
         /\ data_q'[2] <=> data_q[1]
<1>1. /\ addr_q' = [i \in 1..3 |-> IF i = 1 THEN wr_comb("addr") ELSE addr_q[i - 1]]
      /\ data_q' = [i \in 1..2 |-> IF i = 1 THEN wr_comb("data") ELSE data_q[i - 1]]
  BY DEF Clock, ChainClock, Shift
<1>2. wr_comb("addr") \in BOOLEAN /\ wr_comb("data") \in BOOLEAN
  BY DEF wr_comb
<1>3. addr_q \in [1..3 -> BOOLEAN] /\ data_q \in [1..2 -> BOOLEAN]
  BY DEF TypeOK, ChainTypeOK
<1>4. /\ addr_q'[1] = wr_comb("addr") /\ addr_q'[2] = addr_q[1] /\ addr_q'[3] = addr_q[2]
      /\ data_q'[1] = wr_comb("data") /\ data_q'[2] = data_q[1]
  BY <1>1
<1>5. /\ \A i \in 1..3 : (IF i = 1 THEN wr_comb("addr") ELSE addr_q[i - 1]) \in BOOLEAN
      /\ \A i \in 1..2 : (IF i = 1 THEN wr_comb("data") ELSE data_q[i - 1]) \in BOOLEAN
  BY <1>2, <1>3
<1>6. addr_q' \in [1..3 -> BOOLEAN] /\ data_q' \in [1..2 -> BOOLEAN]
  BY <1>1, <1>5
<1>7. QED
  BY <1>4, <1>6 DEF wr_comb

LEMMA InitChainInv == Init => ChainInv
<1> SUFFICES ASSUME Init PROVE ChainInv
  OBVIOUS
<1>1. /\ addr_q = [i \in 1..3 |-> FALSE] /\ data_q = [i \in 1..2 |-> FALSE]
      /\ strobe = FALSE /\ age = Cap /\ tail = Cap /\ a0 = "addr"
      /\ d_latch = 0 /\ reg_addr = 0 /\ regw = <<0, 0, 0>> /\ inflight = NoWrite
  BY DEF Init, ChainInit, HostInit, ClearChain
<1>2. TypeOK
  <2>1. addr_q \in [1..3 -> BOOLEAN] /\ data_q \in [1..2 -> BOOLEAN] /\ strobe \in BOOLEAN
    BY <1>1
  <2>2. Cap \in 0..Cap /\ 0 \in Val /\ regw \in {0, 1} \X Val \X Val
    BY <1>1, Bounds
  <2>3. QED
    BY <1>1, <2>1, <2>2 DEF TypeOK, ChainTypeOK, HostTypeOK, Kind
<1>3. Chains
  BY <1>1, Bounds DEF Chains, Reached
<1>4. Closed /\ Flight /\ Reload
  BY <1>1, Bounds DEF Closed, Flight, Reload, Arrival
<1>5. QED
  BY <1>2, <1>3, <1>4 DEF ChainInv

\* When the host may open a strobe, the last one has drained from the chains.
LEMMA Drained ==
  ASSUME ChainInv, ~strobe, tail >= Gap
  PROVE  /\ inflight = NoWrite
         /\ \A i \in 1..3 : ~addr_q[i]
         /\ \A i \in 1..2 : ~data_q[i]
<1>1. age >= 4 /\ tail >= 3
  BY Bounds DEF ChainInv, Closed, TypeOK, ChainTypeOK, HostTypeOK
<1>2. inflight = NoWrite
  BY <1>1 DEF ChainInv, Flight, Arrival, TypeOK, ChainTypeOK, HostTypeOK
<1>3. \A i \in 1..3 : ~(strobe \/ tail < i)
  BY <1>1, Bounds DEF ChainInv, TypeOK, ChainTypeOK, HostTypeOK
<1>4. QED
  BY <1>2, <1>3 DEF ChainInv, Chains, Reached

LEMMA OpenStep ==
  ASSUME ChainInv, NEW k \in Kind, NEW v \in Val, Open(k, v)
  PROVE  ChainInv'
<1>1. /\ ~strobe /\ tail >= Gap /\ strobe' = TRUE /\ a0' = k /\ d_latch' = v /\ age' = 0
      /\ tail' = tail /\ addr_q' = addr_q /\ data_q' = data_q /\ reg_addr' = reg_addr
      /\ regw' = regw /\ inflight' = <<k, v>>
  BY DEF Open, HostOpen, busvars
<1>2. TypeOK'
  BY <1>1, Bounds DEF ChainInv, TypeOK, ChainTypeOK, HostTypeOK, Write
<1>3. Chains'
  BY <1>1, Drained DEF Chains, Reached
<1>4. Closed' /\ Flight' /\ Reload'
  BY <1>1, Bounds DEF Closed, Flight, Reload, Arrival
<1>5. QED
  BY <1>2, <1>3, <1>4 DEF ChainInv

LEMMA CloseStep ==
  ASSUME ChainInv, Close
  PROVE  ChainInv'
<1>1. /\ strobe /\ age >= Hold /\ strobe' = FALSE /\ tail' = 0 /\ a0' = a0
      /\ d_latch' = d_latch /\ age' = age /\ addr_q' = addr_q /\ data_q' = data_q
      /\ reg_addr' = reg_addr /\ regw' = regw /\ inflight' = inflight
  BY DEF Close, HostClose, busvars
<1>2. TypeOK'
  <2>1. strobe' \in BOOLEAN
    BY <1>1
  <2>2. tail' \in 0..Cap
    BY <1>1, Bounds
  <2>3. QED
    BY <1>1, <2>1, <2>2 DEF ChainInv, TypeOK, ChainTypeOK, HostTypeOK
<1>3. Chains'
  BY <1>1 DEF ChainInv, Chains, Reached
<1>4. Closed' /\ Flight' /\ Reload'
  BY <1>1, Bounds DEF ChainInv, TypeOK, ChainTypeOK, HostTypeOK, Closed, Flight, Reload, Arrival
<1>5. QED
  BY <1>2, <1>3, <1>4 DEF ChainInv

\* What a clock takes: the address at age 3, the datum at age 1.
LEMMA Takes ==
  ASSUME ChainInv
  PROVE  /\ a0 = "addr" /\ age = 3 => addr_en
         /\ addr_en => a0 = "addr" /\ age >= 3
         /\ we_n_fall <=> (a0 = "data" /\ age = 1)
<1>1. age \in Nat /\ tail \in Nat /\ a0 \in {"addr", "data"}
  BY Bounds DEF ChainInv, TypeOK, ChainTypeOK, HostTypeOK, Kind
<1>2. addr_en <=> (a0 = "addr" /\ age >= 3 /\ (strobe \/ tail < 3))
  BY DEF ChainInv, Chains, Reached, addr_en
<1>3. age < Cap /\ ~strobe => tail + Hold <= age
  BY <1>1, Bounds DEF ChainInv, Closed
<1>4. we_n_fall <=> /\ a0 = "data" /\ age >= 1 /\ (strobe \/ tail < 1)
                    /\ ~(age >= 2 /\ (strobe \/ tail < 2))
  BY DEF ChainInv, Chains, Reached, we_n_fall
<1>5. age = 3 => strobe \/ tail < 3
  BY <1>1, <1>3, Bounds
<1>6. age = 1 => strobe \/ tail < 1
  BY <1>1, <1>3, Bounds
<1>7. we_n_fall => age = 1
  BY <1>1, <1>4
<1>8. QED
  BY <1>2, <1>4, <1>5, <1>6, <1>7

LEMMA ClockStep ==
  ASSUME ChainInv, Clock
  PROVE  ChainInv'
<1>1. /\ age' = Inc(age) /\ tail' = Inc(tail)
      /\ strobe' = strobe /\ a0' = a0 /\ d_latch' = d_latch
      /\ reg_addr' = IF addr_en THEN d_latch ELSE reg_addr
      /\ regw' = IF we_n_fall THEN <<1 - regw[1], reg_addr', d_latch>> ELSE regw
      /\ inflight' = IF addr_en \/ we_n_fall THEN NoWrite ELSE inflight
  BY DEF Clock, ChainClock, HostEdge
<1>2. /\ age \in 0..Cap /\ tail \in 0..Cap /\ strobe \in BOOLEAN /\ a0 \in {"addr", "data"}
      /\ d_latch \in Val /\ reg_addr \in Val /\ regw \in {0, 1} \X Val \X Val
      /\ inflight \in Write \cup {NoWrite}
  BY DEF ChainInv, TypeOK, ChainTypeOK, HostTypeOK, Kind
<1>3. /\ age' \in 0..Cap /\ tail' \in 0..Cap /\ age' >= 1 /\ tail' >= 1
      /\ age' = age + 1 \/ (age' = age /\ age = Cap)
      /\ tail' = tail + 1 \/ (tail' = tail /\ tail = Cap)
  BY <1>1, <1>2, Bounds DEF Inc
<1>4. TypeOK'
  <2>1. reg_addr' \in Val
    BY <1>1, <1>2
  <2>2. regw' \in {0, 1} \X Val \X Val
    BY <1>1, <1>2, <2>1
  <2>3. addr_q' \in [1..3 -> BOOLEAN] /\ data_q' \in [1..2 -> BOOLEAN]
    BY Shifted DEF ChainInv
  <2>4. QED
    BY <1>1, <1>2, <1>3, <2>1, <2>2, <2>3 DEF TypeOK, ChainTypeOK, HostTypeOK, Kind
<1>5. Chains'
  <2>1. /\ addr_q[1] <=> (a0 = "addr" /\ age >= 1 /\ (strobe \/ tail < 1))
        /\ addr_q[2] <=> (a0 = "addr" /\ age >= 2 /\ (strobe \/ tail < 2))
        /\ data_q[1] <=> (a0 = "data" /\ age >= 1 /\ (strobe \/ tail < 1))
    BY DEF ChainInv, Chains, Reached
  <2>2. /\ age' >= 1 /\ ~(tail' < 1)
        /\ (age' >= 2 <=> age >= 1) /\ (tail' < 2 <=> tail < 1)
        /\ (age' >= 3 <=> age >= 2) /\ (tail' < 3 <=> tail < 2)
    BY <1>2, <1>3, Bounds
  <2>3. /\ addr_q'[1] <=> (strobe /\ a0 = "addr")
        /\ addr_q'[2] <=> addr_q[1]
        /\ addr_q'[3] <=> addr_q[2]
        /\ data_q'[1] <=> (strobe /\ a0 = "data")
        /\ data_q'[2] <=> data_q[1]
    <3>1. TypeOK
      BY DEF ChainInv
    <3>2. QED
      BY <3>1, Shifted
  <2>4. /\ addr_q'[1] <=> Reached("addr", 1)'
        /\ addr_q'[2] <=> Reached("addr", 2)'
        /\ addr_q'[3] <=> Reached("addr", 3)'
        /\ data_q'[1] <=> Reached("data", 1)'
        /\ data_q'[2] <=> Reached("data", 2)'
    BY <1>1, <2>1, <2>2, <2>3 DEF Reached
  <2>5. QED
    BY <2>4 DEF Chains
<1>6. Closed'
  BY <1>1, <1>2, <1>3, Bounds DEF ChainInv, Closed
<1>7. Flight'
  <2>1. Flight /\ Arrival' = Arrival
    BY <1>1 DEF ChainInv, Arrival
  <2>2. age' < Arrival <=> age + 1 < Arrival
    BY <1>2, <1>3, Bounds DEF Arrival
  <2>3. age + 1 < Arrival => ~addr_en /\ ~we_n_fall
    BY <1>2, Takes, Bounds DEF Arrival
  <2>4. age + 1 = Arrival => addr_en \/ we_n_fall
    BY <1>2, Takes, Bounds DEF Arrival
  <2>5. CASE age + 1 < Arrival
    BY <1>1, <1>2, <2>1, <2>2, <2>3, <2>5, Bounds DEF Flight, Arrival
  <2>6. CASE age + 1 = Arrival
    BY <1>1, <1>2, <2>1, <2>2, <2>4, <2>6, Bounds DEF Flight, Arrival
  <2>7. CASE age + 1 > Arrival
    BY <1>1, <1>2, <2>1, <2>2, <2>7, Bounds DEF Flight, Arrival
  <2>8. QED
    BY <1>2, <2>5, <2>6, <2>7, Bounds DEF Arrival
<1>8. Reload'
  <2> SUFFICES ASSUME addr_q'[3], age' >= 4 PROVE reg_addr' = d_latch'
    BY DEF Reload
  <2>1. age >= 3 /\ a0 = "addr"
    BY <1>2, <1>3, <1>5, <1>1, Bounds DEF Chains, Reached
  <2>2. CASE addr_en
    BY <1>1, <2>2
  <2>3. CASE ~addr_en
    <3>1. ~strobe /\ ~(tail < 3)
      BY <2>1, <2>3 DEF ChainInv, Chains, Reached, addr_en
    <3>2. ~(tail' < 3)
      BY <1>2, <1>3, <3>1, Bounds
    <3>3. QED
      BY <1>1, <1>5, <3>1, <3>2 DEF Chains, Reached
  <2>4. QED
    BY <2>2, <2>3
<1>9. QED
  BY <1>4, <1>5, <1>6, <1>7, <1>8 DEF ChainInv

LEMMA ResetStep ==
  ASSUME ChainInv, Reset
  PROVE  ChainInv'
<1>1. /\ ~strobe /\ age' = Cap /\ tail' = Cap /\ strobe' = strobe /\ a0' = a0
      /\ d_latch' = d_latch /\ reg_addr' = reg_addr /\ regw' = regw /\ inflight' = NoWrite
      /\ addr_q' = [i \in 1..3 |-> FALSE] /\ data_q' = [i \in 1..2 |-> FALSE]
  BY DEF Reset, ChainReset, HostReset, ClearChain
<1>2. TypeOK'
  BY <1>1, Bounds DEF ChainInv, TypeOK, ChainTypeOK, HostTypeOK
<1>3. Chains'
  BY <1>1, Bounds DEF Chains, Reached
<1>4. Closed' /\ Flight' /\ Reload'
  BY <1>1, Bounds DEF Closed, Flight, Reload, Arrival
<1>5. QED
  BY <1>2, <1>3, <1>4 DEF ChainInv

LEMMA ChainStep == ChainInv /\ [Next]_vars => ChainInv'
<1>1. ChainInv /\ UNCHANGED vars => ChainInv'
  BY DEF vars, chainvars, hostvars, busvars, ChainInv, TypeOK, ChainTypeOK, HostTypeOK,
         Chains, Reached, Closed, Flight, Arrival, Reload
<1>2. QED
  BY <1>1, OpenStep, CloseStep, ClockStep, ResetStep DEF Next

\* Every reachable state satisfies the invariant.
THEOREM ChainInvariant == Spec => []ChainInv
  BY InitChainInv, ChainStep, PTL DEF Spec

\* The chains, the register number and the RAM write stay in their types.
THEOREM Wt3TypeOK == Spec => []TypeOK
<1>1. ChainInv => TypeOK
  BY DEF ChainInv
<1>2. QED
  BY <1>1, ChainInvariant, PTL
-----------------------------------------------------------------------------
\* A clock takes the write in flight, or nothing, or what it has taken before.
LEMMA ClockRefines ==
  ASSUME ChainInv, Clock
  PROVE  Abs!AbsNext \/ UNCHANGED Abs!absvars
<1>1. /\ reg_addr' = IF addr_en THEN d_latch ELSE reg_addr
      /\ regw' = IF we_n_fall THEN <<1 - regw[1], reg_addr', d_latch>> ELSE regw
      /\ inflight' = IF addr_en \/ we_n_fall THEN NoWrite ELSE inflight
  BY DEF Clock, ChainClock
<1>2. /\ age \in Nat /\ d_latch \in Val /\ a0 \in Kind
      /\ inflight = IF age < Arrival THEN <<a0, d_latch>> ELSE NoWrite
  BY Bounds DEF ChainInv, Flight, TypeOK, ChainTypeOK, HostTypeOK
<1>3. CASE addr_en /\ age = 3
  <2>1. a0 = "addr" /\ ~we_n_fall
    BY <1>3, Takes
  <2>2. inflight = <<"addr", d_latch>>
    BY <1>2, <1>3, <2>1 DEF Arrival
  <2>3. Abs!TakeAddr
    BY <1>1, <1>2, <1>3, <2>1, <2>2 DEF Abs!TakeAddr, Abs!NoWrite, NoWrite
  <2>4. QED
    BY <2>3 DEF Abs!AbsNext
<1>4. CASE addr_en /\ age # 3
  <2>1. a0 = "addr" /\ age >= 4 /\ ~we_n_fall
    BY <1>2, <1>4, Takes
  <2>2. reg_addr = d_latch /\ inflight = NoWrite
    BY <1>2, <1>4, <2>1 DEF ChainInv, Reload, addr_en, Arrival
  <2>3. QED
    BY <1>1, <1>4, <2>1, <2>2 DEF Abs!absvars
<1>5. CASE we_n_fall
  <2>1. a0 = "data" /\ age = 1 /\ ~addr_en
    BY <1>5, Takes
  <2>2. inflight = <<"data", d_latch>> /\ reg_addr' = reg_addr
    BY <1>1, <1>2, <2>1 DEF Arrival
  <2>3. Abs!TakeData
    BY <1>1, <1>2, <1>5, <2>2 DEF Abs!TakeData, Abs!NoWrite, NoWrite
  <2>4. QED
    BY <2>3 DEF Abs!AbsNext
<1>6. CASE ~addr_en /\ ~we_n_fall
  BY <1>1, <1>6 DEF Abs!absvars
<1>7. QED
  BY <1>3, <1>4, <1>5, <1>6

\* The v1.4 front end implements the abstract bus.
THEOREM Wt3ExactlyOnce == Spec => ExactlyOnce
<1>1. Init => Abs!AbsInit
  BY DEF Init, ChainInit, Abs!AbsInit, Abs!NoWrite, NoWrite
<1>2. ChainInv /\ [Next]_vars => [Abs!AbsNext]_(Abs!absvars)
  <2> SUFFICES ASSUME ChainInv, [Next]_vars
               PROVE  Abs!AbsNext \/ UNCHANGED Abs!absvars
    OBVIOUS
  <2>1. ASSUME NEW k \in Kind, NEW v \in Val, Open(k, v) PROVE Abs!Send
    <3>1. inflight = NoWrite
      BY <2>1, Drained DEF Open, HostOpen
    <3>2. QED
      BY <2>1, <3>1 DEF Open, Abs!Send, Abs!Write, Abs!Kind, Kind, Abs!NoWrite, NoWrite
  <2>2. CASE Close
    BY <2>2 DEF Close, Abs!absvars
  <2>3. CASE Clock
    BY <2>3, ClockRefines
  <2>4. CASE Reset
    BY <2>4 DEF Reset, ChainReset, Abs!AbsNext, Abs!Clear, Abs!NoWrite, NoWrite
  <2>5. CASE UNCHANGED vars
    BY <2>5 DEF vars, chainvars, Abs!absvars
  <2>6. QED
    BY <2>1, <2>2, <2>3, <2>4, <2>5 DEF Next, Abs!AbsNext
<1>3. QED
  BY <1>1, <1>2, ChainInvariant, PTL DEF Spec, ExactlyOnce, Abs!AbsSpec
=============================================================================
