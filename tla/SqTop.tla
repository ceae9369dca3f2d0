------------------------------- MODULE SqTop --------------------------------
(***************************************************************************)
(* The square-wave chip, rtl/sq_top.v, behind its ROM-decoded bus,         *)
(* rtl/wt_spfm_bus.v.  There is no synchroniser: the level of the strobe,  *)
(* decoded by a ROM, opens the 74HC373 and enables the registers at every  *)
(* clock.  Four 74HC161 in a ripple chain count up from the frequency      *)
(* word; their last carry reloads them and is the clock of the 74HC74 that *)
(* drives the output.  The host writes the word in two bytes.  /RST only   *)
(* masks the ROM: no register has a reset.                                 *)
(***************************************************************************)
EXTENDS SpfmHost

CONSTANTS
  DIGIT,        \* states of one counter chip (16)
  Words         \* environment: the frequency words the host writes

BYTE == DIGIT * DIGIT
SIZE == BYTE * BYTE
TOP  == DIGIT - 1

ASSUME SqAssumption ==
  /\ DIGIT \in Nat /\ DIGIT >= 2
  /\ Val = 0..(BYTE - 1)
  /\ Words \subseteq 0..(SIZE - 1)

VARIABLES
  reg_addr,         \* 377 of the bus
  freq_lo, freq_hi, \* the two 377s of the frequency word
  cnt,              \* cnt[i]: the chips u_cnt0..3
  sq_q,             \* the 74
  turn,             \* host: strobes of the word under way already opened
  word,             \* host: the word being written, or the last one
  prev,             \* host: the word before it
  loaded,           \* history: the word last loaded into the counter
  since             \* history: clocks since then

regvars  == <<reg_addr, freq_lo, freq_hi>>
playvars == <<cnt, sq_q, loaded, since>>
songvars == <<turn, word, prev>>
vars     == <<hostvars, regvars, playvars, songvars>>

Lo(w) == w % BYTE
Hi(w) == w \div BYTE
Mixed == Lo(word) + BYTE * Hi(prev)      \* the new low byte, the old high byte
Chip  == 0..3

\* Bound of since, beyond the longest half period.
Long == SIZE

TypeOK ==
  /\ HostTypeOK
  /\ reg_addr \in Val /\ freq_lo \in Val /\ freq_hi \in Val
  /\ cnt \in [Chip -> 0..TOP] /\ sq_q \in BOOLEAN
  /\ turn \in 0..3
  /\ word \in 0..(SIZE - 1) /\ prev \in 0..(SIZE - 1) /\ loaded \in 0..(SIZE - 1)
  /\ since \in 0..Long

Init ==
  /\ HostInit
  /\ reg_addr = 0 /\ freq_lo = 0 /\ freq_hi = 0
  /\ cnt = [i \in Chip |-> 0] /\ sq_q = FALSE
  /\ turn = 0 /\ word = 0 /\ prev = 0
  /\ loaded = 0 /\ since = 0

\* write_freq of tb/sq_tb.v: number 0, low byte, number 1, high byte.
OpenFirst ==
  /\ turn = 0
  /\ HostOpen("addr", 0)
  /\ word' \in Words
  /\ prev' = word
  /\ turn' = 1

OpenNext ==
  /\ \/ turn = 1 /\ HostOpen("data", Lo(word))
     \/ turn = 2 /\ HostOpen("addr", 1)
     \/ turn = 3 /\ HostOpen("data", Hi(word))
  /\ turn' = (turn + 1) % 4
  /\ UNCHANGED <<word, prev>>

Open ==
  /\ OpenFirst \/ OpenNext
  /\ UNCHANGED <<regvars, playvars>>

Close ==
  /\ HostClose
  /\ UNCHANGED <<regvars, playvars, songvars>>

\* Mutant of wr: A0 does not reach the decode ROM.
wrNoA0(k) == strobe

\* The decode ROM, {CS_n, WR_n, A0, RST_n}: ~addr_wr_n and ~data_wr_n.
wr(k) == strobe /\ a0 = k

\* Mutant of lo_en: the register number is not decoded.
lo_enAlways == wr("data")

lo_en == wr("data") /\ reg_addr % 2 = 0
hi_en == wr("data") /\ reg_addr % 2 = 1

\* Carries: chip i is at its end and so is every chip below it.
TC(c, i) == \A j \in 0..i : c[j] = TOP
tc3      == TC(cnt, 3)
Freq     == freq_lo + BYTE * freq_hi

\* The four bits of the word at each chip.
LoadData(i) == <<freq_lo % DIGIT, freq_lo \div DIGIT, freq_hi % DIGIT, freq_hi \div DIGIT>>[i + 1]

\* Mutant of NextCnt: the reload misses the last count.
NextCntEarly ==
  [i \in Chip |->
     IF TC(cnt, 3) \/ (cnt[0] = TOP - 1 /\ \A j \in 1..3 : cnt[j] = TOP)
     THEN LoadData(i)
     ELSE IF i = 0 \/ TC(cnt, i - 1) THEN (cnt[i] + 1) % DIGIT ELSE cnt[i]]

\* Mutant of NextCnt: a chip counts past its end.
NextCntNoWrap ==
  [i \in Chip |->
     IF tc3 THEN LoadData(i)
     ELSE IF i = 0 \/ TC(cnt, i - 1) THEN cnt[i] + 1 ELSE cnt[i]]

\* Mutant of NextCnt: the third chip is enabled by the carry of the second alone.
NextCntSkips ==
  [i \in Chip |->
     IF tc3 THEN LoadData(i)
     ELSE IF i = 0 \/ (IF i = 2 THEN cnt[1] = TOP ELSE TC(cnt, i - 1))
     THEN (cnt[i] + 1) % DIGIT ELSE cnt[i]]

\* All chips reload at the clock after the last carry; else a chip counts when
\* the carry of the chip below it is up.
NextCnt ==
  [i \in Chip |->
     IF tc3 THEN LoadData(i)
     ELSE IF i = 0 \/ TC(cnt, i - 1) THEN (cnt[i] + 1) % DIGIT ELSE cnt[i]]

\* The chips do not change at one instant.  When chip i reaches its end as the
\* chips below it leave theirs, the last carry is up in between if chip i is
\* first, and the 74 takes it for a clock.
MayPulse(c) ==
  \E i \in 1..3 : c[i] = TOP - 1 /\ \A j \in Chip \ {i} : c[j] = TOP

\* Mutant of Count: the edge of the last carry does not reach the 74.
CountMute ==
  /\ cnt' = NextCnt
  /\ \E pulse \in IF MayPulse(cnt) THEN BOOLEAN ELSE {FALSE} :
       sq_q' = IF pulse THEN ~sq_q ELSE sq_q
  /\ loaded' = IF tc3 THEN Freq ELSE loaded
  /\ since'  = IF tc3 THEN 0 ELSE IF since < Long THEN since + 1 ELSE since

Count ==
  /\ cnt' = NextCnt
  /\ \E pulse \in IF MayPulse(cnt) THEN BOOLEAN ELSE {FALSE} :
       sq_q' = IF pulse \/ (~tc3 /\ TC(NextCnt, 3)) THEN ~sq_q ELSE sq_q
  /\ loaded' = IF tc3 THEN Freq ELSE loaded
  /\ since'  = IF tc3 THEN 0 ELSE IF since < Long THEN since + 1 ELSE since

\* One posedge SPFM_CLK: the 377s see the strobe as it stands.
Clock ==
  /\ HostEdge
  /\ reg_addr' = IF wr("addr") THEN d_latch ELSE reg_addr
  /\ freq_lo'  = IF lo_en THEN d_latch ELSE freq_lo
  /\ freq_hi'  = IF hi_en THEN d_latch ELSE freq_hi
  /\ Count
  /\ UNCHANGED songvars

Next == Open \/ Close \/ Clock

Spec == Init /\ [][Next]_vars

\* The oscillator never stops.
FairSpec == Spec /\ WF_vars(Clock)
-----------------------------------------------------------------------------
\* The word is written when its fourth strobe has met a clock.
Written == turn = 0 /\ (~strobe \/ age > 0)

\* What the counter reloads is the host's word, except while the host is
\* between the two bytes of a new one: then it may still be the word before, or
\* one that nobody asked for, with the new low and the old high byte - never
\* anything else, and never once the fourth strobe has met a clock
\* (sq_top.v:74-89, wt_spfm_bus.v:122-127).
ReloadsWord ==
  [][tc3 /\ cnt' # cnt =>
       /\ loaded' \in {word, prev, Mixed}
       /\ Written => loaded' = word]_vars

\* Clocks until the word being played has its last carry.
ToGo == SIZE - 1 - loaded - since

\* Every word sounds at its documented pitch, whatever was played before: the
\* counter reloads SIZE - FREQ clocks after its last load, never earlier or
\* later, and sq_out flips at the clock before every reload (sq_top.v:10-11,
\* 106-176).  It flips at no other clock but where the count carries from one chip
\* to the next for the last time; a word within reach of the first chip passes no
\* such place.  Of the highest word, whose carry does not fall, nothing is said.
Pitch ==
  [][loaded # SIZE - 1 =>
       /\ tc3 <=> ToGo = 0
       /\ ToGo = 1 /\ cnt' # cnt => sq_q' # sq_q
       /\ sq_q' # sq_q => ToGo \in {1, DIGIT, BYTE, DIGIT * BYTE}]_vars

\* Whatever the counter is busy with, a torn word included, the word written
\* is played in the end, unless the host goes on to another (sq_top.v:106-157).
InTune == Written ~> loaded = word \/ turn # 0
=============================================================================
