--------------------------- MODULE SpfmSyncProofs ---------------------------
(***************************************************************************)
(* The front end of rtl/wt_ram.v delivers every write exactly once, for    *)
(* every set of byte values and every host that holds a strobe for Hold    *)
(* and leaves the bus idle for Gap clock edges, if Hold + Gap >= 4: the    *)
(* documented 3-clock pulse and one idle clock are just enough.            *)
(***************************************************************************)
EXTENDS SpfmSync, TLAPS

\* The byte must survive in the latch until the fourth edge takes it.
ASSUME PaceAssumption == Hold + Gap >= 4

\* A request that has left the bus only drains: high stages are the older ones.
Drains(k) ==
  /\ ~req_meta[k] /\ ~req_pulse[k]
  /\ req_sync[k] => req_prev[k]

\* How far the latest strobe has come through the stages of its own chain.
Open0 == age = 0 => Drains(a0)
Open1 == age = 1 => ~req_sync[a0] /\ ~req_pulse[a0]
Open2 == age = 2 => req_sync[a0] /\ ~req_prev[a0] /\ ~req_pulse[a0]
Open3 == age >= 3 => /\ req_prev[a0] <=> (strobe \/ tail < 3)
                     /\ req_pulse[a0] <=> (age = 3)
Stage1 == age >= 1 => (req_meta[a0] <=> (strobe \/ tail < 1))
Stage2 == age >= 2 => (req_sync[a0] <=> (strobe \/ tail < 2))

\* The counters of a closed bus, and the write that has not arrived yet.
Closed == ~strobe => (age >= tail + Hold \/ age = Cap)
Flight == inflight = IF age < 4 THEN <<a0, d_latch>> ELSE NoWrite

IInv ==
  /\ TypeOK
  /\ \A k \in Kind : k # a0 => Drains(k)
  /\ Open0 /\ Open1 /\ Open2 /\ Open3 /\ Stage1 /\ Stage2
  /\ Closed /\ Flight
-----------------------------------------------------------------------------
LEMMA Bounds ==
  /\ Hold \in Nat /\ Hold >= 1 /\ Gap \in Nat /\ Gap >= 1 /\ Hold + Gap >= 4
  /\ Cap \in Nat /\ Cap = Hold + Gap + 4 /\ 0 \in 0..Cap /\ Cap \in 0..Cap
  /\ Val \subseteq Nat /\ 0 \in Val
  BY HostAssumption, PaceAssumption DEF Cap

LEMMA InitHostTypeOK == HostInit => HostTypeOK
  BY Bounds DEF HostInit, HostTypeOK, Kind

USE Bounds DEF Kind, Write, NoWrite, Off, HostTypeOK, TypeOK

LEMMA InitTypeOK == Init => TypeOK
  BY InitHostTypeOK DEF Init, HostInit

LEMMA InitIInv == Init => IInv
  BY InitTypeOK DEF Init, HostInit, IInv, Drains, Open0, Open1, Open2, Open3,
                    Stage1, Stage2, Closed, Flight

LEMMA TypeStep == TypeOK /\ [Next]_vars => TypeOK'
<1> SUFFICES ASSUME TypeOK, [Next]_vars PROVE TypeOK'
  OBVIOUS
<1>1. ASSUME NEW k \in Kind, NEW v \in Val, Open(k, v) PROVE TypeOK'
  BY <1>1 DEF Open, HostOpen, chain
<1>2. CASE Close
  BY <1>2 DEF Close, HostClose, chain
<1>3. CASE Clock
  BY <1>3 DEF Clock, HostEdge, Inc, req_async
<1>4. CASE Reset
  BY <1>4 DEF Reset, HostReset
<1>5. CASE UNCHANGED vars
  BY <1>5 DEF vars, hostvars, chain
<1>6. QED
  BY <1>1, <1>2, <1>3, <1>4, <1>5 DEF Next

THEOREM SyncTypeOK == Spec => []TypeOK
  BY InitTypeOK, TypeStep, PTL DEF Spec

\* When the host may open a strobe, nothing of the previous one is left.
LEMMA Settled ==
  ASSUME IInv, ~strobe, tail >= Gap
  PROVE  /\ age >= 4
         /\ inflight = NoWrite
         /\ \A k \in Kind : Drains(k)
<1>1. age >= 4
  BY DEF IInv, Closed
<1>2. inflight = NoWrite
  BY <1>1 DEF IInv, Flight
<1>3. Drains(a0)
  BY <1>1 DEF IInv, Drains, Open3, Stage1, Stage2
<1>4. QED
  BY <1>1, <1>2, <1>3 DEF IInv

\* Only a pulse of the current strobe is ever high, and only at age 3.
LEMMA PulseOnlyAtThree ==
  ASSUME IInv, NEW k \in Kind, req_pulse[k]
  PROVE  k = a0 /\ age = 3
  BY DEF IInv, Drains, Open0, Open1, Open2, Open3

LEMMA OpenStep ==
  ASSUME IInv, TypeOK', NEW k \in Kind, NEW v \in Val, Open(k, v)
  PROVE  IInv'
<1>1. /\ \A j \in Kind : Drains(j)'
      /\ age' = 0 /\ a0' = k /\ d_latch' = v /\ strobe'
      /\ inflight' = <<k, v>>
  BY Settled DEF Open, HostOpen, IInv, Drains, chain
<1>2. QED
  BY <1>1 DEF IInv, Open0, Open1, Open2, Open3, Stage1, Stage2, Closed, Flight

LEMMA CloseStep ==
  ASSUME IInv, TypeOK', Close
  PROVE  IInv'
<1>1. /\ age' = age /\ age >= 1 /\ tail' = 0 /\ a0' = a0 /\ age >= Hold
      /\ strobe /\ ~strobe' /\ d_latch' = d_latch
      /\ UNCHANGED <<req_meta, req_sync, req_prev, req_pulse, inflight>>
  BY DEF Close, HostClose, chain, IInv
<1>2. (\A k \in Kind : k # a0 => Drains(k))'
  BY <1>1 DEF IInv, Drains
<1>3. Open0' /\ Open1' /\ Open2' /\ Open3' /\ Stage1' /\ Stage2'
  BY <1>1 DEF IInv, Open0, Open1, Open2, Open3, Stage1, Stage2, Drains
<1>4. Closed' /\ Flight'
  BY <1>1 DEF IInv, Closed, Flight
<1>5. QED
  BY <1>2, <1>3, <1>4 DEF IInv

LEMMA ClockStep ==
  ASSUME IInv, TypeOK', Clock
  PROVE  IInv'
<1>1. /\ age' = Inc(age) /\ tail' = Inc(tail)
      /\ strobe' = strobe /\ a0' = a0 /\ d_latch' = d_latch
      /\ \A k \in Kind : /\ req_meta'[k] <=> (strobe /\ a0 = k)
                         /\ req_sync'[k] = req_meta[k]
                         /\ req_prev'[k] = req_sync[k]
                         /\ req_pulse'[k] <=> (req_sync[k] /\ ~req_prev[k])
  BY DEF Clock, HostEdge, req_async, IInv
<1>2. (\A k \in Kind : k # a0 => Drains(k))'
  BY <1>1 DEF IInv, Drains
<1>3. Open0' /\ Open1' /\ Open2'
  BY <1>1 DEF IInv, Open0, Open1, Open2, Stage1, Stage2, Drains, Inc, Closed
<1>4. Stage1' /\ Stage2'
  BY <1>1 DEF IInv, Open0, Open1, Stage1, Stage2, Drains, Inc, Closed
<1>5. Open3'
  BY <1>1 DEF IInv, Open2, Open3, Stage2, Inc, Closed
<1>6. Closed'
  BY <1>1 DEF IInv, Closed, Inc
<1>7. Flight'
  <2>1. inflight' = IF age = 3 THEN NoWrite ELSE inflight
    BY PulseOnlyAtThree DEF Clock, IInv, Open3
  <2>2. QED
    BY <1>1, <2>1 DEF IInv, Flight, Inc
<1>8. QED
  BY <1>2, <1>3, <1>4, <1>5, <1>6, <1>7 DEF IInv

LEMMA ResetStep ==
  ASSUME IInv, TypeOK', Reset
  PROVE  IInv'
<1>1. /\ \A k \in Kind : /\ ~req_meta'[k] /\ ~req_sync'[k]
                         /\ ~req_prev'[k] /\ ~req_pulse'[k]
      /\ age' = Cap /\ tail' = Cap /\ ~strobe' /\ inflight' = NoWrite
  BY DEF Reset, HostReset
<1>2. QED
  BY <1>1 DEF IInv, Drains, Open0, Open1, Open2, Open3, Stage1, Stage2, Closed,
              Flight

LEMMA IInvStep == IInv /\ [Next]_vars => IInv'
<1> SUFFICES ASSUME IInv, [Next]_vars PROVE IInv'
  OBVIOUS
<1>1. TypeOK'
  BY TypeStep DEF IInv
<1>2. CASE UNCHANGED vars
  BY <1>2 DEF vars, hostvars, chain, IInv, Drains, Open0, Open1, Open2, Open3,
              Stage1, Stage2, Closed, Flight
<1>3. QED
  BY <1>1, <1>2, OpenStep, CloseStep, ClockStep, ResetStep DEF Next

\* The stages of the synchroniser hold exactly the latest strobe, and the
\* latch still holds its byte until it is taken (wt_ram.v:115-145).
THEOREM SyncIInv == Spec => []IInv
  BY InitIInv, IInvStep, PTL DEF Spec

LEMMA StepRefines ==
  ASSUME IInv, [Next]_vars
  PROVE  [Abs!AbsNext]_(Abs!absvars)
<1> USE DEF Abs!Kind, Abs!Write, Abs!NoWrite
<1>1. ASSUME NEW k \in Kind, NEW v \in Val, Open(k, v)
      PROVE  Abs!Send
  BY <1>1, Settled DEF Open, HostOpen, Abs!Send
<1>2. CASE Close
  BY <1>2 DEF Close, Abs!absvars
<1>3. CASE Clock
  <2>1. CASE \E k \in Kind : req_pulse[k]
    <3>1. req_pulse[a0] /\ age = 3 /\ \A k \in Kind : req_pulse[k] => k = a0
      BY <2>1, PulseOnlyAtThree
    <3>2. inflight = <<a0, d_latch>> /\ inflight' = NoWrite
      BY <1>3, <3>1 DEF IInv, Flight, Clock
    <3>3. CASE a0 = "addr"
      <4>1. Abs!TakeAddr
        BY <1>3, <3>1, <3>2, <3>3 DEF Clock, IInv, Abs!TakeAddr
      <4>2. QED
        BY <4>1 DEF Abs!AbsNext
    <3>4. CASE a0 = "data"
      <4>1. Abs!TakeData
        BY <1>3, <3>1, <3>2, <3>4 DEF Clock, IInv, Abs!TakeData
      <4>2. QED
        BY <4>1 DEF Abs!AbsNext
    <3>5. QED
      BY <3>3, <3>4 DEF IInv
  <2>2. CASE ~\E k \in Kind : req_pulse[k]
    BY <1>3, <2>2 DEF Clock, Abs!absvars
  <2>3. QED
    BY <2>1, <2>2
<1>4. CASE Reset
  BY <1>4 DEF Reset, Abs!AbsNext, Abs!Clear
<1>5. CASE UNCHANGED vars
  BY <1>5 DEF vars, Abs!absvars
<1>6. QED
  BY <1>1, <1>2, <1>3, <1>4, <1>5 DEF Next, Abs!AbsNext

\* The front end implements SpfmSpec: each write takes effect exactly once,
\* with its own A0 and byte, before the host may strobe again
\* (wt_ram.v:115-145, 205-210).
THEOREM SyncExactlyOnce == Spec => ExactlyOnce
<1>1. Init => Abs!AbsInit
  BY DEF Init, Abs!AbsInit, Abs!NoWrite
<1>2. QED
  BY <1>1, StepRefines, SyncIInv, PTL DEF Spec, ExactlyOnce, Abs!AbsSpec
=============================================================================
