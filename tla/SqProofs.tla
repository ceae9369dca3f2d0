------------------------------ MODULE SqProofs ------------------------------
(***************************************************************************)
(* What the counter of SqTop reloads, and how long it then runs, for every *)
(* digit width, every set of frequency words and every legal strobe        *)
(* timing.  The first needs the content of all four strobes of a word and  *)
(* of the three registers at each point of the sequence; the second, that  *)
(* the four chips together read as one number, the word loaded and the     *)
(* clocks since, whatever carries from chip to chip.                       *)
(***************************************************************************)
EXTENDS SqTop, TLAPS

\* What the strobe under way, or the last one, carries.
Content ==
  /\ turn = 1 => a0 = "addr" /\ d_latch = 0
  /\ turn = 2 => a0 = "data" /\ d_latch = Lo(word)
  /\ turn = 3 => a0 = "addr" /\ d_latch = 1
  /\ turn = 0 /\ strobe => a0 = "data" /\ d_latch = Hi(word)
  /\ ~strobe => age >= 1

\* The register number at each point of the sequence.
Number ==
  /\ turn = 1 /\ age >= 1 => reg_addr = 0
  /\ turn = 2 => reg_addr = 0
  /\ turn = 3 /\ age >= 1 => reg_addr = 1
  /\ turn = 0 /\ strobe => reg_addr = 1

\* The two bytes at each point of the sequence.
LowByte ==
  /\ turn = 1 \/ (turn = 2 /\ age = 0) => freq_lo = Lo(prev)
  /\ turn \in {0, 3} \/ (turn = 2 /\ age >= 1) => freq_lo = Lo(word)

HighByte ==
  /\ turn # 0 \/ (strobe /\ age = 0) => freq_hi = Hi(prev)
  /\ Written => freq_hi = Hi(word)

WordInv == Content /\ Number /\ LowByte /\ HighByte

\* The number on the two lower chips, on the two upper ones, and on all four.
LoPair(c)  == c[0] + DIGIT * c[1]
HiPair(c)  == c[2] + DIGIT * c[3]
Reading(c) == LoPair(c) + BYTE * HiPair(c)

PlayInv == Reading(cnt) = loaded + since
-----------------------------------------------------------------------------
LEMMA Widths ==
  /\ DIGIT \in Nat /\ DIGIT >= 2 /\ TOP = DIGIT - 1
  /\ BYTE = DIGIT * DIGIT /\ BYTE \in Nat /\ BYTE >= 4 /\ DIGIT < BYTE
  /\ SIZE = BYTE * BYTE /\ SIZE \in Nat /\ SIZE >= 16 /\ BYTE < SIZE
<1>1. DIGIT \in Nat /\ DIGIT >= 2
  BY SqAssumption
<1>2. \A d \in Nat : d >= 2 => d * d \in Nat /\ d * d >= 4 /\ d < d * d
  OBVIOUS
<1>3. \A d \in Nat : d >= 4 => d * d \in Nat /\ d * d >= 16 /\ d < d * d
  OBVIOUS
<1>4. BYTE \in Nat /\ BYTE >= 4 /\ DIGIT < BYTE
  BY <1>1, <1>2 DEF BYTE
<1>5. SIZE \in Nat /\ SIZE >= 16 /\ BYTE < SIZE
  BY <1>3, <1>4 DEF SIZE
<1>6. QED
  BY <1>1, <1>4, <1>5 DEF BYTE, SIZE, TOP

\* A number below the square of d is two digits to the base d.
LEMMA Digits ==
  ASSUME NEW d \in Nat \ {0}, NEW x \in 0..(d * d - 1)
  PROVE  /\ x % d \in 0..(d - 1) /\ x \div d \in 0..(d - 1)
         /\ x = (x % d) + d * (x \div d)
<1>1. \A e \in Nat \ {0} : \A y \in Nat :
        y < e * e => /\ y % e \in 0..(e - 1) /\ y \div e \in 0..(e - 1)
                     /\ y = (y % e) + e * (y \div e)
  OBVIOUS
<1>2. x \in Nat /\ x < d * d
  OBVIOUS
<1>3. QED
  BY <1>1, <1>2

LEMMA Number2 ==
  ASSUME NEW d \in Nat \ {0}, NEW x \in 0..(d - 1), NEW y \in 0..(d - 1)
  PROVE  x + d * y \in 0..(d * d - 1)
<1>1. d * y <= d * (d - 1)
  OBVIOUS
<1>2. d * (d - 1) = d * d - d
  OBVIOUS
<1>3. d * y \in Nat
  OBVIOUS
<1>4. QED
  BY <1>1, <1>2, <1>3

\* The number is its digits: two of them within d of the square have the
\* highest second digit.
LEMMA NearTop ==
  ASSUME NEW d \in Nat \ {0}, NEW x \in 0..(d - 1), NEW y \in 0..(d - 1),
         NEW k \in 0..d, x + d * y >= d * d - k
  PROVE  y = d - 1 /\ x >= d - k
<1>1. CASE y = d - 1
  <2>1. d * y = d * d - d
    BY <1>1
  <2>2. d * d \in Nat
    OBVIOUS
  <2>3. QED
    BY <1>1, <2>1, <2>2
<1>2. CASE y # d - 1
  <2>1. y <= d - 2
    BY <1>2
  <2>2. d * y <= d * (d - 2)
    BY <2>1
  <2>3. d * (d - 2) = d * d - d - d
    OBVIOUS
  <2>4. d * y \in Nat /\ d * d \in Nat
    OBVIOUS
  <2>5. FALSE
    BY <2>2, <2>3, <2>4
  <2>6. QED
    BY <2>5
<1>3. QED
  BY <1>1, <1>2

\* Every value of the bus is a byte, and a word is two of them.
LEMMA WordBytes ==
  ASSUME NEW w \in 0..(SIZE - 1)
  PROVE  Lo(w) \in Val /\ Hi(w) \in Val /\ w = Lo(w) + BYTE * Hi(w)
<1>1. BYTE \in Nat \ {0} /\ w \in 0..(BYTE * BYTE - 1)
  BY Widths
<1>2. /\ w % BYTE \in 0..(BYTE - 1) /\ w \div BYTE \in 0..(BYTE - 1)
      /\ w = (w % BYTE) + BYTE * (w \div BYTE)
  BY <1>1, Digits
<1>3. QED
  BY <1>2, SqAssumption DEF Lo, Hi

LEMMA FreqWord ==
  ASSUME freq_lo \in Val, freq_hi \in Val
  PROVE  Freq \in 0..(SIZE - 1)
<1>1. BYTE \in Nat \ {0} /\ freq_lo \in 0..(BYTE - 1) /\ freq_hi \in 0..(BYTE - 1)
  BY Widths, SqAssumption
<1>2. freq_lo + BYTE * freq_hi \in 0..(BYTE * BYTE - 1)
  BY <1>1, Number2
<1>3. QED
  BY <1>2, Widths DEF Freq

LEMMA LoadDigits ==
  ASSUME freq_lo \in Val, freq_hi \in Val, NEW i \in Chip
  PROVE  LoadData(i) \in 0..TOP
<1>1. DIGIT \in Nat \ {0} /\ freq_lo \in 0..(DIGIT * DIGIT - 1)
      /\ freq_hi \in 0..(DIGIT * DIGIT - 1)
  BY Widths, SqAssumption
<1>2. freq_lo % DIGIT \in 0..(DIGIT - 1) /\ freq_lo \div DIGIT \in 0..(DIGIT - 1)
  BY <1>1, Digits
<1>3. freq_hi % DIGIT \in 0..(DIGIT - 1) /\ freq_hi \div DIGIT \in 0..(DIGIT - 1)
  BY <1>1, Digits
<1>4. i = 0 \/ i = 1 \/ i = 2 \/ i = 3
  BY DEF Chip
<1>5. CASE i = 0
  BY <1>2, <1>5, Widths DEF LoadData
<1>6. CASE i = 1
  BY <1>2, <1>6, Widths DEF LoadData
<1>7. CASE i = 2
  BY <1>3, <1>7, Widths DEF LoadData
<1>8. CASE i = 3
  BY <1>3, <1>8, Widths DEF LoadData
<1>9. QED
  BY <1>4, <1>5, <1>6, <1>7, <1>8

\* Two digits count one up, the second when the first is at its end.
LEMMA Count2 ==
  ASSUME NEW d \in Nat \ {0}, NEW x \in 0..(d - 1), NEW y \in 0..(d - 1)
  PROVE  /\ x + d * y = d * d - 1 <=> x = d - 1 /\ y = d - 1
         /\ x # d - 1 => (x + 1) + d * y = (x + d * y) + 1
         /\ x = d - 1 => 0 + d * (y + 1) = (x + d * y) + 1
<1>1. d * y \in Nat /\ d * d \in Nat
  OBVIOUS
<1>2. d * (y + 1) = d * y + d
  OBVIOUS
<1>3. ASSUME x + d * y = d * d - 1 PROVE x = d - 1 /\ y = d - 1
  <2>1. 1 \in 0..d /\ x + d * y >= d * d - 1
    BY <1>1, <1>3
  <2>2. y = d - 1 /\ x >= d - 1
    BY <2>1, NearTop
  <2>3. QED
    BY <2>2
<1>4. ASSUME x = d - 1, y = d - 1 PROVE x + d * y = d * d - 1
  <2>1. d * y = d * d - d
    BY <1>4
  <2>2. QED
    BY <1>1, <1>4, <2>1
<1>5. QED
  BY <1>1, <1>2, <1>3, <1>4

LEMMA Pairs ==
  ASSUME NEW c \in [Chip -> 0..TOP]
  PROVE  /\ c[0] \in 0..(DIGIT - 1) /\ c[1] \in 0..(DIGIT - 1)
         /\ c[2] \in 0..(DIGIT - 1) /\ c[3] \in 0..(DIGIT - 1)
         /\ LoPair(c) \in 0..(BYTE - 1) /\ HiPair(c) \in 0..(BYTE - 1)
         /\ Reading(c) \in 0..(SIZE - 1)
<1>1. /\ c[0] \in 0..(DIGIT - 1) /\ c[1] \in 0..(DIGIT - 1)
      /\ c[2] \in 0..(DIGIT - 1) /\ c[3] \in 0..(DIGIT - 1)
  BY Widths DEF Chip
<1>2. DIGIT \in Nat \ {0} /\ BYTE \in Nat \ {0}
  BY Widths
<1>3. LoPair(c) \in 0..(BYTE - 1) /\ HiPair(c) \in 0..(BYTE - 1)
  BY <1>1, <1>2, Number2, Widths DEF LoPair, HiPair
<1>4. Reading(c) \in 0..(SIZE - 1)
  BY <1>2, <1>3, Number2, Widths DEF Reading
<1>5. QED
  BY <1>1, <1>3, <1>4

\* The last carry is up when every chip is at its end.
LEMMA Carry3 ==
  ASSUME NEW c \in [Chip -> 0..TOP]
  PROVE  /\ TC(c, 3) <=> c[0] = TOP /\ c[1] = TOP /\ c[2] = TOP /\ c[3] = TOP
         /\ TC(c, 3) <=> Reading(c) = SIZE - 1
         /\ LoPair(c) = BYTE - 1 <=> c[0] = TOP /\ c[1] = TOP
<1>1. 0..3 = {0, 1, 2, 3}
  OBVIOUS
<1>2. TC(c, 3) <=> c[0] = TOP /\ c[1] = TOP /\ c[2] = TOP /\ c[3] = TOP
  BY <1>1 DEF TC
<1>3. DIGIT \in Nat \ {0} /\ BYTE \in Nat \ {0}
  BY Widths
<1>4. /\ c[0] \in 0..(DIGIT - 1) /\ c[1] \in 0..(DIGIT - 1)
      /\ c[2] \in 0..(DIGIT - 1) /\ c[3] \in 0..(DIGIT - 1)
      /\ LoPair(c) \in 0..(BYTE - 1) /\ HiPair(c) \in 0..(BYTE - 1)
  BY Pairs
<1>5. LoPair(c) = BYTE - 1 <=> c[0] = TOP /\ c[1] = TOP
  <2>1. c[0] + DIGIT * c[1] = DIGIT * DIGIT - 1 <=> c[0] = DIGIT - 1 /\ c[1] = DIGIT - 1
    BY <1>3, <1>4, Count2
  <2>2. QED
    BY <2>1, Widths DEF LoPair
<1>6. HiPair(c) = BYTE - 1 <=> c[2] = TOP /\ c[3] = TOP
  <2>1. c[2] + DIGIT * c[3] = DIGIT * DIGIT - 1 <=> c[2] = DIGIT - 1 /\ c[3] = DIGIT - 1
    BY <1>3, <1>4, Count2
  <2>2. QED
    BY <2>1, Widths DEF HiPair
<1>7. Reading(c) = SIZE - 1 <=> LoPair(c) = BYTE - 1 /\ HiPair(c) = BYTE - 1
  <2>1. LoPair(c) + BYTE * HiPair(c) = BYTE * BYTE - 1
          <=> LoPair(c) = BYTE - 1 /\ HiPair(c) = BYTE - 1
    BY <1>3, <1>4, Count2
  <2>2. QED
    BY <2>1, Widths DEF Reading
<1>8. QED
  BY <1>2, <1>5, <1>6, <1>7

\* After a reload the chips read the frequency word.
LEMMA LoadReads ==
  ASSUME TypeOK, tc3
  PROVE  Reading(NextCnt) = Freq
<1>1. \A i \in Chip : NextCnt[i] = LoadData(i)
  BY DEF NextCnt
<1>2. 0 \in Chip /\ 1 \in Chip /\ 2 \in Chip /\ 3 \in Chip
  BY DEF Chip
<1>3. /\ NextCnt[0] = freq_lo % DIGIT /\ NextCnt[1] = freq_lo \div DIGIT
      /\ NextCnt[2] = freq_hi % DIGIT /\ NextCnt[3] = freq_hi \div DIGIT
  BY <1>1, <1>2 DEF LoadData
<1>4. DIGIT \in Nat \ {0} /\ freq_lo \in 0..(DIGIT * DIGIT - 1)
      /\ freq_hi \in 0..(DIGIT * DIGIT - 1)
  BY Widths, SqAssumption DEF TypeOK
<1>5. /\ freq_lo = (freq_lo % DIGIT) + DIGIT * (freq_lo \div DIGIT)
      /\ freq_hi = (freq_hi % DIGIT) + DIGIT * (freq_hi \div DIGIT)
  BY <1>4, Digits
<1>6. LoPair(NextCnt) = freq_lo /\ HiPair(NextCnt) = freq_hi
  BY <1>3, <1>5 DEF LoPair, HiPair
<1>7. QED
  BY <1>6 DEF Reading, Freq
-----------------------------------------------------------------------------
LEMMA InitType == Init => TypeOK
<1> SUFFICES ASSUME Init PROVE TypeOK
  OBVIOUS
<1>1. HostTypeOK
  <2>1. strobe \in BOOLEAN
    BY DEF Init, HostInit
  <2>2. a0 \in Kind /\ d_latch \in Val /\ age \in 0..Cap /\ tail \in 0..Cap
    BY HostAssumption DEF Init, HostInit, Kind, Cap
  <2>3. QED
    BY <2>1, <2>2 DEF HostTypeOK
<1>2. 0 \in Val /\ 0 \in 0..TOP /\ 0 \in 0..(SIZE - 1) /\ 0 \in 0..Long
  BY HostAssumption, Widths DEF Long
<1>3. cnt \in [Chip -> 0..TOP]
  BY <1>2 DEF Init
<1>4. sq_q \in BOOLEAN
  BY DEF Init
<1>5. QED
  BY <1>1, <1>2, <1>3, <1>4 DEF Init, TypeOK

LEMMA OpenType ==
  ASSUME NEW k \in Kind, NEW v \in Val, HostTypeOK, HostOpen(k, v)
  PROVE  HostTypeOK'
<1>1. strobe' \in BOOLEAN
  BY DEF HostOpen
<1>2. a0' \in Kind /\ d_latch' \in Val /\ age' \in 0..Cap /\ tail' \in 0..Cap
  BY HostAssumption DEF HostOpen, HostTypeOK, Cap
<1>3. QED
  BY <1>1, <1>2 DEF HostTypeOK

\* What the counter chips hold after a clock.
LEMMA CntType ==
  ASSUME TypeOK
  PROVE  NextCnt \in [Chip -> 0..TOP]
<1> DEFINE next(i) == IF tc3 THEN LoadData(i)
                      ELSE IF i = 0 \/ TC(cnt, i - 1) THEN (cnt[i] + 1) % DIGIT ELSE cnt[i]
<1>1. ASSUME NEW i \in Chip PROVE next(i) \in 0..TOP
  <2>1. LoadData(i) \in 0..TOP
    BY LoadDigits DEF TypeOK
  <2>2. cnt[i] \in 0..TOP
    BY DEF TypeOK
  <2>3. (cnt[i] + 1) % DIGIT \in 0..TOP
    BY <2>2, Widths
  <2>4. QED
    BY <2>1, <2>2, <2>3
<1>2. NextCnt = [i \in Chip |-> next(i)]
  BY DEF NextCnt
<1>3. QED
  BY <1>1, <1>2

LEMMA ClockType ==
  ASSUME TypeOK, Clock
  PROVE  TypeOK'
<1>1. HostTypeOK'
  <2>1. strobe' \in BOOLEAN /\ a0' \in Kind /\ d_latch' \in Val
    BY DEF TypeOK, HostTypeOK, Clock, HostEdge
  <2>2. age' \in 0..Cap /\ tail' \in 0..Cap
    BY HostAssumption DEF TypeOK, HostTypeOK, Clock, HostEdge, Inc, Cap
  <2>3. QED
    BY <2>1, <2>2 DEF HostTypeOK
<1>2. reg_addr' \in Val /\ freq_lo' \in Val /\ freq_hi' \in Val
  BY DEF TypeOK, HostTypeOK, Clock
<1>3. cnt' \in [Chip -> 0..TOP]
  BY CntType DEF Clock, Count
<1>4. PICK pulse \in BOOLEAN :
        sq_q' = IF pulse \/ (~tc3 /\ TC(NextCnt, 3)) THEN ~sq_q ELSE sq_q
  BY DEF Clock, Count
<1>5. sq_q' \in BOOLEAN
  BY <1>4 DEF TypeOK
<1>6. since' \in 0..Long
  <2>1. since \in 0..Long /\ Long \in Nat
    BY Widths DEF TypeOK, Long
  <2>2. since' \in {0, since + 1, since} /\ (since' = since + 1 => since < Long)
    BY <2>1 DEF Clock, Count
  <2>3. QED
    BY <2>1, <2>2
<1>7. loaded' \in 0..(SIZE - 1)
  BY FreqWord DEF TypeOK, Clock, Count
<1>8. turn' \in 0..3 /\ word' \in 0..(SIZE - 1) /\ prev' \in 0..(SIZE - 1)
  BY DEF TypeOK, Clock, songvars
<1>9. QED
  BY <1>1, <1>2, <1>3, <1>5, <1>6, <1>7, <1>8 DEF TypeOK

LEMMA OpenStepType ==
  ASSUME TypeOK, Open
  PROVE  TypeOK'
<1>1. 0 \in Val /\ 1 \in Val /\ "addr" \in Kind /\ "data" \in Kind
  BY SqAssumption, Widths DEF Kind
<1>2. Lo(word) \in Val /\ Hi(word) \in Val
  BY WordBytes DEF TypeOK
<1>3. \E k \in Kind, v \in Val : HostOpen(k, v)
  BY <1>1, <1>2 DEF Open, OpenFirst, OpenNext
<1>4. HostTypeOK'
  BY <1>3, OpenType DEF TypeOK
<1>5. turn' \in 0..3 /\ word' \in 0..(SIZE - 1) /\ prev' \in 0..(SIZE - 1)
  <2>1. CASE OpenFirst
    BY <2>1, SqAssumption DEF TypeOK, OpenFirst
  <2>2. CASE OpenNext
    BY <2>2 DEF TypeOK, OpenNext
  <2>3. QED
    BY <2>1, <2>2 DEF Open
<1>6. UNCHANGED <<regvars, playvars>>
  BY DEF Open
<1>7. QED
  BY <1>4, <1>5, <1>6 DEF TypeOK, regvars, playvars

LEMMA StepType ==
  ASSUME TypeOK, [Next]_vars
  PROVE  TypeOK'
<1>1. CASE Open
  BY <1>1, OpenStepType
<1>2. CASE Close
  <2>1. HostTypeOK'
    <3>1. strobe' \in BOOLEAN
      BY <1>2 DEF Close, HostClose
    <3>2. a0' \in Kind /\ d_latch' \in Val /\ age' \in 0..Cap /\ tail' \in 0..Cap
      BY <1>2, HostAssumption DEF Close, HostClose, HostTypeOK, TypeOK, Cap
    <3>3. QED
      BY <3>1, <3>2 DEF HostTypeOK
  <2>2. QED
    BY <1>2, <2>1 DEF Close, TypeOK, regvars, playvars, songvars
<1>3. CASE Clock
  BY <1>3, ClockType
<1>4. CASE UNCHANGED vars
  BY <1>4 DEF TypeOK, HostTypeOK, vars, hostvars, regvars, playvars, songvars
<1>5. QED
  BY <1>1, <1>2, <1>3, <1>4 DEF Next

\* Every chip and register of the voice stays within its width.
THEOREM SqTypeOK == Spec => []TypeOK
<1>1. Init => TypeOK
  BY InitType
<1>2. TypeOK /\ [Next]_vars => TypeOK'
  BY StepType
<1>3. QED
  BY <1>1, <1>2, PTL DEF Spec
-----------------------------------------------------------------------------
LEMMA InitWord == Init => WordInv
<1> SUFFICES ASSUME Init PROVE WordInv
  OBVIOUS
<1>1. Lo(0) = 0 /\ Hi(0) = 0
  BY Widths DEF Lo, Hi
<1>2. /\ turn = 0 /\ ~strobe /\ word = 0 /\ prev = 0 /\ freq_lo = 0 /\ freq_hi = 0
      /\ age = Cap /\ Cap >= 1
  BY HostAssumption DEF Init, HostInit, Cap
<1>3. Content /\ Number
  BY <1>2 DEF Content, Number
<1>4. LowByte /\ HighByte
  BY <1>1, <1>2 DEF LowByte, HighByte, Written
<1>5. QED
  BY <1>3, <1>4 DEF WordInv

\* A strobe opens only after the one before it has met a clock.
LEMMA OpenFirstWord ==
  ASSUME TypeOK, WordInv, OpenFirst, UNCHANGED regvars
  PROVE  WordInv'
<1>1. /\ turn = 0 /\ ~strobe /\ turn' = 1 /\ strobe' /\ a0' = "addr" /\ d_latch' = 0
      /\ age' = 0 /\ prev' = word
  BY DEF OpenFirst, HostOpen
<1>2. Written
  BY <1>1 DEF Written
<1>3. freq_lo = Lo(word) /\ freq_hi = Hi(word)
  BY <1>1, <1>2 DEF WordInv, LowByte, HighByte
<1>4. freq_lo' = Lo(prev') /\ freq_hi' = Hi(prev')
  BY <1>1, <1>3 DEF regvars, Lo, Hi
<1>5. Content' /\ Number'
  BY <1>1 DEF Content, Number
<1>6. LowByte' /\ HighByte'
  BY <1>1, <1>4 DEF LowByte, HighByte, Written
<1>7. QED
  BY <1>5, <1>6 DEF WordInv

LEMMA OpenNextWord ==
  ASSUME TypeOK, WordInv, OpenNext, UNCHANGED regvars
  PROVE  WordInv'
<1>1. /\ ~strobe /\ strobe' /\ age' = 0 /\ age \in Nat /\ age >= 1
      /\ word' = word /\ prev' = prev
      /\ reg_addr' = reg_addr /\ freq_lo' = freq_lo /\ freq_hi' = freq_hi
  BY DEF OpenNext, HostOpen, TypeOK, HostTypeOK, regvars, WordInv, Content
<1>2. Lo(word') = Lo(word) /\ Hi(word') = Hi(word) /\ Lo(prev') = Lo(prev)
      /\ Hi(prev') = Hi(prev)
  BY <1>1 DEF Lo, Hi
<1>3. CASE turn = 1
  <2>1. turn' = 2 /\ a0' = "data" /\ d_latch' = Lo(word)
    BY <1>3 DEF OpenNext, HostOpen
  <2>2. reg_addr = 0 /\ freq_lo = Lo(prev) /\ freq_hi = Hi(prev)
    BY <1>1, <1>3 DEF WordInv, Number, LowByte, HighByte
  <2>3. QED
    BY <1>1, <1>2, <2>1, <2>2
       DEF WordInv, Content, Number, LowByte, HighByte, Written
<1>4. CASE turn = 2
  <2>1. turn' = 3 /\ a0' = "addr" /\ d_latch' = 1
    BY <1>4 DEF OpenNext, HostOpen
  <2>2. freq_lo = Lo(word) /\ freq_hi = Hi(prev)
    BY <1>1, <1>4 DEF WordInv, LowByte, HighByte
  <2>3. QED
    BY <1>1, <1>2, <2>1, <2>2
       DEF WordInv, Content, Number, LowByte, HighByte, Written
<1>5. CASE turn = 3
  <2>1. turn' = 0 /\ a0' = "data" /\ d_latch' = Hi(word)
    BY <1>5 DEF OpenNext, HostOpen
  <2>2. reg_addr = 1 /\ freq_lo = Lo(word) /\ freq_hi = Hi(prev)
    BY <1>1, <1>5 DEF WordInv, Number, LowByte, HighByte
  <2>3. QED
    BY <1>1, <1>2, <2>1, <2>2
       DEF WordInv, Content, Number, LowByte, HighByte, Written
<1>6. QED
  BY <1>3, <1>4, <1>5 DEF OpenNext

LEMMA CloseWord ==
  ASSUME TypeOK, WordInv, Close
  PROVE  WordInv'
<1>1. /\ strobe /\ ~strobe' /\ age' = age /\ age \in Nat /\ age >= 1
      /\ a0' = a0 /\ d_latch' = d_latch
  BY HostAssumption DEF Close, HostClose, TypeOK, HostTypeOK
<1>2. /\ turn' = turn /\ word' = word /\ prev' = prev
      /\ reg_addr' = reg_addr /\ freq_lo' = freq_lo /\ freq_hi' = freq_hi
  BY DEF Close, regvars, songvars
<1>3. Lo(word') = Lo(word) /\ Hi(word') = Hi(word) /\ Lo(prev') = Lo(prev)
      /\ Hi(prev') = Hi(prev)
  BY <1>2 DEF Lo, Hi
<1>4. Content'
  BY <1>1, <1>2, <1>3 DEF WordInv, Content
<1>5. Number'
  BY <1>1, <1>2 DEF WordInv, Number
<1>6. LowByte' /\ HighByte'
  BY <1>1, <1>2, <1>3 DEF WordInv, LowByte, HighByte, Written
<1>7. QED
  BY <1>4, <1>5, <1>6 DEF WordInv

\* A clock with the strobe up takes the byte into the register the sequence
\* means; without it nothing moves, and the strobe has met a clock before.
LEMMA ClockWord ==
  ASSUME TypeOK, WordInv, Clock
  PROVE  WordInv'
<1>1. /\ strobe' = strobe /\ a0' = a0 /\ d_latch' = d_latch
      /\ turn' = turn /\ word' = word /\ prev' = prev
      /\ age' \in Nat /\ age' >= 1 /\ age \in Nat
  BY HostAssumption DEF Clock, HostEdge, songvars, Inc, Cap, TypeOK, HostTypeOK
<1>2. Lo(word') = Lo(word) /\ Hi(word') = Hi(word) /\ Lo(prev') = Lo(prev)
      /\ Hi(prev') = Hi(prev)
  BY <1>1 DEF Lo, Hi
<1>3. Content'
  BY <1>1, <1>2 DEF WordInv, Content
<1>4. /\ reg_addr' = IF strobe /\ a0 = "addr" THEN d_latch ELSE reg_addr
      /\ freq_lo' = IF strobe /\ a0 = "data" /\ reg_addr % 2 = 0 THEN d_latch ELSE freq_lo
      /\ freq_hi' = IF strobe /\ a0 = "data" /\ reg_addr % 2 = 1 THEN d_latch ELSE freq_hi
  BY DEF Clock, wr, lo_en, hi_en
<1>5. turn \in {0, 1, 2, 3}
  BY DEF TypeOK
<1>6. CASE ~strobe
  <2>1. age >= 1
    BY <1>6 DEF WordInv, Content
  <2>2. reg_addr' = reg_addr /\ freq_lo' = freq_lo /\ freq_hi' = freq_hi
    BY <1>4, <1>6
  <2>3. QED
    BY <1>1, <1>2, <1>3, <1>6, <2>1, <2>2 DEF WordInv, Number, LowByte, HighByte, Written
<1>7. CASE strobe /\ turn = 1
  <2>1. a0 = "addr" /\ d_latch = 0 /\ freq_lo = Lo(prev) /\ freq_hi = Hi(prev)
    BY <1>7 DEF WordInv, Content, LowByte, HighByte
  <2>2. reg_addr' = 0 /\ freq_lo' = freq_lo /\ freq_hi' = freq_hi
    BY <1>4, <1>7, <2>1
  <2>3. QED
    BY <1>1, <1>2, <1>3, <1>7, <2>1, <2>2 DEF WordInv, Number, LowByte, HighByte, Written
<1>8. CASE strobe /\ turn = 2
  <2>1. a0 = "data" /\ d_latch = Lo(word) /\ reg_addr = 0 /\ freq_hi = Hi(prev)
    BY <1>8 DEF WordInv, Content, Number, HighByte
  <2>2. reg_addr' = 0 /\ freq_lo' = Lo(word) /\ freq_hi' = freq_hi
    BY <1>4, <1>8, <2>1
  <2>3. QED
    BY <1>1, <1>2, <1>3, <1>8, <2>1, <2>2 DEF WordInv, Number, LowByte, HighByte, Written
<1>9. CASE strobe /\ turn = 3
  <2>1. a0 = "addr" /\ d_latch = 1 /\ freq_lo = Lo(word) /\ freq_hi = Hi(prev)
    BY <1>9 DEF WordInv, Content, LowByte, HighByte
  <2>2. reg_addr' = 1 /\ freq_lo' = freq_lo /\ freq_hi' = freq_hi
    BY <1>4, <1>9, <2>1
  <2>3. QED
    BY <1>1, <1>2, <1>3, <1>9, <2>1, <2>2 DEF WordInv, Number, LowByte, HighByte, Written
<1>10. CASE strobe /\ turn = 0
  <2>1. a0 = "data" /\ d_latch = Hi(word) /\ reg_addr = 1 /\ freq_lo = Lo(word)
    BY <1>10 DEF WordInv, Content, Number, LowByte
  <2>2. reg_addr' = 1 /\ freq_hi' = Hi(word) /\ freq_lo' = freq_lo
    BY <1>4, <1>10, <2>1
  <2>3. QED
    BY <1>1, <1>2, <1>3, <1>10, <2>1, <2>2 DEF WordInv, Number, LowByte, HighByte, Written
<1>11. QED
  BY <1>5, <1>6, <1>7, <1>8, <1>9, <1>10

LEMMA StepWord ==
  ASSUME TypeOK, WordInv, [Next]_vars
  PROVE  WordInv'
<1>1. CASE Open
  BY <1>1, OpenFirstWord, OpenNextWord DEF Open
<1>2. CASE Close
  BY <1>2, CloseWord
<1>3. CASE Clock
  BY <1>3, ClockWord
<1>4. CASE UNCHANGED vars
  BY <1>4 DEF vars, hostvars, regvars, songvars, WordInv, Content, Number, LowByte,
              HighByte, Written, Lo, Hi
<1>5. QED
  BY <1>1, <1>2, <1>3, <1>4 DEF Next

SqInv == TypeOK /\ WordInv

\* At each point of a word's four strobes the registers hold what the bytes
\* that have met a clock say.
THEOREM SqInvariant == Spec => []SqInv
<1>1. Init => SqInv
  BY InitType, InitWord DEF SqInv
<1>2. SqInv /\ [Next]_vars => SqInv'
  BY StepType, StepWord DEF SqInv
<1>3. QED
  BY <1>1, <1>2, PTL DEF Spec

\* The reload of ReloadsWord.
RightReload ==
  tc3 /\ cnt' # cnt => /\ loaded' \in {word, prev, Mixed}
                       /\ Written => loaded' = word

LEMMA ReloadStep ==
  ASSUME SqInv, Clock
  PROVE  RightReload
<1> SUFFICES ASSUME tc3
             PROVE  /\ loaded' \in {word, prev, Mixed}
                    /\ Written => loaded' = word
  BY DEF RightReload
<1>1. loaded' = freq_lo + BYTE * freq_hi
  BY DEF Clock, Count, Freq
<1>2. word = Lo(word) + BYTE * Hi(word) /\ prev = Lo(prev) + BYTE * Hi(prev)
  BY WordBytes DEF SqInv, TypeOK
<1>3. turn \in {0, 1, 2, 3} /\ age \in Nat
  BY DEF SqInv, TypeOK, HostTypeOK
<1>4. CASE Written
  <2>1. freq_lo = Lo(word) /\ freq_hi = Hi(word)
    BY <1>4 DEF SqInv, WordInv, LowByte, HighByte, Written
  <2>2. QED
    BY <1>1, <1>2, <2>1
<1>5. CASE ~Written
  <2>1. turn # 0 \/ (strobe /\ age = 0)
    BY <1>3, <1>5 DEF Written
  <2>2. freq_hi = Hi(prev)
    BY <2>1 DEF SqInv, WordInv, HighByte
  <2>3. freq_lo = Lo(prev) \/ freq_lo = Lo(word)
    BY <1>3 DEF SqInv, WordInv, LowByte
  <2>4. loaded' = prev \/ loaded' = Mixed
    BY <1>1, <1>2, <2>2, <2>3 DEF Mixed
  <2>5. QED
    BY <1>5, <2>4
<1>6. QED
  BY <1>4, <1>5

\* A reload takes the host's word as soon as the fourth strobe has met a clock,
\* and before that the old one or the torn one, for every set of words.
THEOREM SqReloadsWord == Spec => ReloadsWord
<1>1. SqInv /\ [Next]_vars => [RightReload]_vars
  <2> SUFFICES ASSUME SqInv, [Next]_vars
               PROVE  RightReload \/ UNCHANGED vars
    OBVIOUS
  <2>1. CASE Open \/ Close
    BY <2>1 DEF Open, Close, playvars, RightReload
  <2>2. CASE Clock
    BY <2>2, ReloadStep
  <2>3. QED
    BY <2>1, <2>2 DEF Next
<1>2. QED
  BY <1>1, SqInvariant, PTL DEF Spec, ReloadsWord, RightReload
-----------------------------------------------------------------------------
LEMMA InitPlay == Init => PlayInv
<1> SUFFICES ASSUME Init PROVE PlayInv
  OBVIOUS
<1>1. /\ cnt[0] = 0 /\ cnt[1] = 0 /\ cnt[2] = 0 /\ cnt[3] = 0
      /\ loaded = 0 /\ since = 0
  BY DEF Init, Chip
<1>2. DIGIT * 0 = 0 /\ BYTE * 0 = 0
  BY Widths
<1>3. QED
  BY <1>1, <1>2 DEF PlayInv, Reading, LoPair, HiPair

\* What each chip does when the last carry is not up.
LEMMA ChipsCount ==
  ASSUME TypeOK, ~tc3
  PROVE  /\ NextCnt[0] = IF cnt[0] = TOP THEN 0 ELSE cnt[0] + 1
         /\ NextCnt[1] = IF cnt[0] # TOP THEN cnt[1]
                         ELSE IF cnt[1] = TOP THEN 0 ELSE cnt[1] + 1
         /\ NextCnt[2] = IF ~(cnt[0] = TOP /\ cnt[1] = TOP) THEN cnt[2]
                         ELSE IF cnt[2] = TOP THEN 0 ELSE cnt[2] + 1
         /\ NextCnt[3] = IF ~(cnt[0] = TOP /\ cnt[1] = TOP /\ cnt[2] = TOP) THEN cnt[3]
                         ELSE cnt[3] + 1
<1>1. cnt \in [Chip -> 0..TOP] /\ 0 \in Chip /\ 1 \in Chip /\ 2 \in Chip /\ 3 \in Chip
  BY DEF TypeOK, Chip
<1>2. \A x \in 0..TOP : (x + 1) % DIGIT = IF x = TOP THEN 0 ELSE x + 1
  <2>1. \A d \in Nat \ {0} : \A x \in 0..(d - 1) :
          (x + 1) % d = IF x = d - 1 THEN 0 ELSE x + 1
    OBVIOUS
  <2>2. QED
    BY <2>1, Widths
<1>3. 0..0 = {0} /\ 0..1 = {0, 1} /\ 0..2 = {0, 1, 2}
  OBVIOUS
<1>4. /\ TC(cnt, 0) <=> cnt[0] = TOP
      /\ TC(cnt, 1) <=> cnt[0] = TOP /\ cnt[1] = TOP
      /\ TC(cnt, 2) <=> cnt[0] = TOP /\ cnt[1] = TOP /\ cnt[2] = TOP
  BY <1>3 DEF TC
<1>5. /\ 1 - 1 = 0 /\ 2 - 1 = 1 /\ 3 - 1 = 2
  OBVIOUS
<1>6. NextCnt[0] = IF cnt[0] = TOP THEN 0 ELSE cnt[0] + 1
  BY <1>1, <1>2 DEF NextCnt
<1>7. NextCnt[1] = IF cnt[0] # TOP THEN cnt[1]
                   ELSE IF cnt[1] = TOP THEN 0 ELSE cnt[1] + 1
  BY <1>1, <1>2, <1>4, <1>5 DEF NextCnt
<1>8. NextCnt[2] = IF ~(cnt[0] = TOP /\ cnt[1] = TOP) THEN cnt[2]
                   ELSE IF cnt[2] = TOP THEN 0 ELSE cnt[2] + 1
  BY <1>1, <1>2, <1>4, <1>5 DEF NextCnt
<1>9. NextCnt[3] = IF ~(cnt[0] = TOP /\ cnt[1] = TOP /\ cnt[2] = TOP) THEN cnt[3]
                   ELSE cnt[3] + 1
  <2>1. ~(cnt[0] = TOP /\ cnt[1] = TOP /\ cnt[2] = TOP /\ cnt[3] = TOP)
    BY <1>1, Carry3 DEF tc3
  <2>2. QED
    BY <1>1, <1>2, <1>4, <1>5, <2>1 DEF NextCnt
<1>10. QED
  BY <1>6, <1>7, <1>8, <1>9

\* Otherwise the chips read one more, whichever of them carry.
LEMMA CountReads ==
  ASSUME TypeOK, ~tc3
  PROVE  Reading(NextCnt) = Reading(cnt) + 1
<1>1. DIGIT \in Nat \ {0} /\ BYTE \in Nat \ {0} /\ TOP = DIGIT - 1
  BY Widths
<1>2. cnt \in [Chip -> 0..TOP]
  BY DEF TypeOK
<1>3. /\ cnt[0] \in 0..(DIGIT - 1) /\ cnt[1] \in 0..(DIGIT - 1)
      /\ cnt[2] \in 0..(DIGIT - 1) /\ cnt[3] \in 0..(DIGIT - 1)
      /\ LoPair(cnt) \in 0..(BYTE - 1) /\ HiPair(cnt) \in 0..(BYTE - 1)
  BY <1>2, Pairs
<1>4. ~(cnt[0] = TOP /\ cnt[1] = TOP /\ cnt[2] = TOP /\ cnt[3] = TOP)
      /\ (LoPair(cnt) = BYTE - 1 <=> cnt[0] = TOP /\ cnt[1] = TOP)
  BY <1>2, Carry3 DEF tc3
<1>5. CASE LoPair(cnt) # BYTE - 1
  <2>1. NextCnt[2] = cnt[2] /\ NextCnt[3] = cnt[3]
    BY <1>4, <1>5, ChipsCount
  <2>2. HiPair(NextCnt) = HiPair(cnt)
    BY <2>1 DEF HiPair
  <2>3. LoPair(NextCnt) = LoPair(cnt) + 1
    <3>1. CASE cnt[0] = TOP
      <4>1. NextCnt[0] = 0 /\ NextCnt[1] = cnt[1] + 1
        BY <1>4, <1>5, <3>1, ChipsCount
      <4>2. 0 + DIGIT * (cnt[1] + 1) = (cnt[0] + DIGIT * cnt[1]) + 1
        BY <1>1, <1>3, <3>1, Count2
      <4>3. QED
        BY <4>1, <4>2 DEF LoPair
    <3>2. CASE cnt[0] # TOP
      <4>1. NextCnt[0] = cnt[0] + 1 /\ NextCnt[1] = cnt[1]
        BY <3>2, ChipsCount
      <4>2. (cnt[0] + 1) + DIGIT * cnt[1] = (cnt[0] + DIGIT * cnt[1]) + 1
        BY <1>1, <1>3, <3>2, Count2
      <4>3. QED
        BY <4>1, <4>2 DEF LoPair
    <3>3. QED
      BY <3>1, <3>2
  <2>4. (LoPair(cnt) + 1) + BYTE * HiPair(cnt) = (LoPair(cnt) + BYTE * HiPair(cnt)) + 1
    BY <1>1, <1>3, <1>5, Count2
  <2>5. QED
    BY <2>2, <2>3, <2>4 DEF Reading
<1>6. CASE LoPair(cnt) = BYTE - 1
  <2>1. cnt[0] = TOP /\ cnt[1] = TOP
    BY <1>4, <1>6
  <2>2. NextCnt[0] = 0 /\ NextCnt[1] = 0
    BY <2>1, ChipsCount
  <2>3. LoPair(NextCnt) = 0
    <3>1. DIGIT * 0 = 0
      BY <1>1
    <3>2. QED
      BY <2>2, <3>1 DEF LoPair
  <2>4. HiPair(NextCnt) = HiPair(cnt) + 1
    <3>1. CASE cnt[2] = TOP
      <4>1. NextCnt[2] = 0 /\ NextCnt[3] = cnt[3] + 1
        BY <1>4, <2>1, <3>1, ChipsCount
      <4>2. 0 + DIGIT * (cnt[3] + 1) = (cnt[2] + DIGIT * cnt[3]) + 1
        BY <1>1, <1>3, <3>1, Count2
      <4>3. QED
        BY <4>1, <4>2 DEF HiPair
    <3>2. CASE cnt[2] # TOP
      <4>1. NextCnt[2] = cnt[2] + 1 /\ NextCnt[3] = cnt[3]
        BY <2>1, <3>2, ChipsCount
      <4>2. (cnt[2] + 1) + DIGIT * cnt[3] = (cnt[2] + DIGIT * cnt[3]) + 1
        BY <1>1, <1>3, <3>2, Count2
      <4>3. QED
        BY <4>1, <4>2 DEF HiPair
    <3>3. QED
      BY <3>1, <3>2
  <2>5. 0 + BYTE * (HiPair(cnt) + 1) = (LoPair(cnt) + BYTE * HiPair(cnt)) + 1
    BY <1>1, <1>3, <1>6, Count2
  <2>6. QED
    BY <2>3, <2>4, <2>5 DEF Reading
<1>7. QED
  BY <1>5, <1>6

\* The carries of the ripple chain that can clock the 74 in between.
LEMMA PulsePlaces ==
  ASSUME TypeOK, MayPulse(cnt)
  PROVE  /\ ~tc3
         /\ SIZE - 1 - Reading(cnt) \in {DIGIT, BYTE, DIGIT * BYTE}
<1>1. PICK i \in 1..3 : cnt[i] = TOP - 1 /\ \A j \in Chip \ {i} : cnt[j] = TOP
  BY DEF MayPulse
<1>2. /\ DIGIT \in Nat /\ BYTE \in Nat /\ TOP = DIGIT - 1 /\ BYTE = DIGIT * DIGIT
      /\ SIZE = BYTE * BYTE /\ cnt \in [Chip -> 0..TOP] /\ SIZE \in Nat
  BY Widths DEF TypeOK
<1>3. ~tc3
  <2>1. i = 1 \/ i = 2 \/ i = 3
    OBVIOUS
  <2>2. QED
    BY <1>1, <1>2, <2>1, Carry3 DEF tc3
<1>4. /\ DIGIT * TOP = BYTE - DIGIT
      /\ DIGIT * (TOP - 1) = BYTE - DIGIT - DIGIT
      /\ BYTE * (BYTE - 1) = SIZE - BYTE
      /\ BYTE * (BYTE - 2) = SIZE - BYTE - BYTE
      /\ BYTE * (BYTE - 1 - DIGIT) = SIZE - BYTE - DIGIT * BYTE
  BY <1>2
<1>5. CASE i = 1
  <2>1. cnt[0] = TOP /\ cnt[1] = TOP - 1 /\ cnt[2] = TOP /\ cnt[3] = TOP
    BY <1>1, <1>5 DEF Chip
  <2>2. LoPair(cnt) = BYTE - 1 - DIGIT /\ HiPair(cnt) = BYTE - 1
    BY <1>2, <1>4, <2>1 DEF LoPair, HiPair
  <2>3. Reading(cnt) = SIZE - 1 - DIGIT
    BY <1>2, <1>4, <2>2 DEF Reading
  <2>4. QED
    BY <1>2, <1>3, <2>3
<1>6. CASE i = 2
  <2>1. cnt[0] = TOP /\ cnt[1] = TOP /\ cnt[2] = TOP - 1 /\ cnt[3] = TOP
    BY <1>1, <1>6 DEF Chip
  <2>2. LoPair(cnt) = BYTE - 1 /\ HiPair(cnt) = BYTE - 2
    BY <1>2, <1>4, <2>1 DEF LoPair, HiPair
  <2>3. Reading(cnt) = SIZE - 1 - BYTE
    BY <1>2, <1>4, <2>2 DEF Reading
  <2>4. QED
    BY <1>2, <1>3, <2>3
<1>7. CASE i = 3
  <2>1. cnt[0] = TOP /\ cnt[1] = TOP /\ cnt[2] = TOP /\ cnt[3] = TOP - 1
    BY <1>1, <1>7 DEF Chip
  <2>2. LoPair(cnt) = BYTE - 1 /\ HiPair(cnt) = BYTE - 1 - DIGIT
    BY <1>2, <1>4, <2>1 DEF LoPair, HiPair
  <2>3. Reading(cnt) = BYTE - 1 + (SIZE - BYTE - DIGIT * BYTE)
    BY <1>4, <2>2 DEF Reading
  <2>4. DIGIT * BYTE \in Nat
    BY <1>2
  <2>5. Reading(cnt) = SIZE - 1 - DIGIT * BYTE
    BY <1>2, <2>3, <2>4
  <2>6. QED
    BY <1>2, <1>3, <2>4, <2>5
<1>8. QED
  BY <1>5, <1>6, <1>7

\* The clock of Pitch.
InTime ==
  loaded # SIZE - 1 =>
    /\ tc3 <=> ToGo = 0
    /\ ToGo = 1 /\ cnt' # cnt => sq_q' # sq_q
    /\ sq_q' # sq_q => ToGo \in {1, DIGIT, BYTE, DIGIT * BYTE}

\* The reading is what is left of the word.
LEMMA ReadsToGo ==
  ASSUME TypeOK, PlayInv
  PROVE  /\ ToGo = SIZE - 1 - Reading(cnt)
         /\ ToGo \in Nat
         /\ tc3 <=> ToGo = 0
<1>1. /\ loaded \in 0..(SIZE - 1) /\ since \in 0..Long /\ SIZE \in Nat /\ Long = SIZE
      /\ cnt \in [Chip -> 0..TOP]
  BY Widths DEF TypeOK, Long
<1>2. Reading(cnt) \in 0..(SIZE - 1)
  BY <1>1, Pairs
<1>3. ToGo = SIZE - 1 - Reading(cnt)
  BY <1>1, <1>2 DEF PlayInv, ToGo
<1>4. tc3 <=> Reading(cnt) = SIZE - 1
  BY <1>1, Carry3 DEF tc3
<1>5. QED
  BY <1>1, <1>2, <1>3, <1>4

LEMMA ClockPlay ==
  ASSUME TypeOK, PlayInv, Clock
  PROVE  PlayInv' /\ InTime
<1>1. PICK pulse \in IF MayPulse(cnt) THEN BOOLEAN ELSE {FALSE} :
        sq_q' = IF pulse \/ (~tc3 /\ TC(NextCnt, 3)) THEN ~sq_q ELSE sq_q
  BY DEF Clock, Count
<1>2. /\ cnt' = NextCnt /\ NextCnt \in [Chip -> 0..TOP]
      /\ loaded' = IF tc3 THEN Freq ELSE loaded
      /\ since' = IF tc3 THEN 0 ELSE IF since < Long THEN since + 1 ELSE since
  BY CntType DEF Clock, Count
<1>3. /\ loaded \in 0..(SIZE - 1) /\ since \in 0..Long /\ SIZE \in Nat /\ SIZE >= 16
      /\ Long = SIZE /\ Freq \in 0..(SIZE - 1) /\ sq_q \in BOOLEAN
  BY FreqWord, Widths DEF TypeOK, Long
<1>4. /\ ToGo = SIZE - 1 - loaded - since /\ ToGo = SIZE - 1 - Reading(cnt)
      /\ ToGo \in Nat /\ (tc3 <=> ToGo = 0)
  BY ReadsToGo DEF ToGo
<1>5. Reading(cnt) \in 0..(SIZE - 1)
  BY Pairs DEF TypeOK
<1>6. CASE tc3
  <2>1. Reading(NextCnt) = Freq
    BY <1>6, LoadReads
  <2>2. Reading(cnt') = loaded' + since'
    BY <1>2, <1>3, <1>6, <2>1
  <2>3. sq_q' = sq_q
    BY <1>1, <1>6, PulsePlaces
  <2>4. QED
    BY <1>4, <1>6, <2>2, <2>3 DEF InTime, PlayInv, Reading, LoPair, HiPair
<1>7. CASE ~tc3
  <2>1. Reading(NextCnt) = Reading(cnt) + 1
    BY <1>7, CountReads
  <2>2. since < Long
    BY <1>3, <1>4, <1>7
  <2>3. Reading(cnt') = loaded' + since'
    BY <1>2, <1>3, <1>7, <2>1, <2>2 DEF PlayInv
  <2>4. TC(NextCnt, 3) <=> ToGo = 1
    <3>1. TC(NextCnt, 3) <=> Reading(NextCnt) = SIZE - 1
      BY <1>2, Carry3
    <3>2. QED
      BY <1>3, <1>4, <1>5, <2>1, <3>1
  <2>5. ToGo = 1 => sq_q' # sq_q
    BY <1>1, <1>3, <1>7, <2>4
  <2>6. sq_q' # sq_q => ToGo = 1 \/ MayPulse(cnt)
    BY <1>1, <1>7, <2>4
  <2>7. MayPulse(cnt) => ToGo \in {DIGIT, BYTE, DIGIT * BYTE}
    BY <1>4, PulsePlaces
  <2>8. QED
    BY <1>4, <2>3, <2>5, <2>6, <2>7 DEF InTime, PlayInv, Reading, LoPair, HiPair
<1>8. QED
  BY <1>6, <1>7

\* For every digit width, every word sounds at its pitch: a reload every
\* SIZE - FREQ clocks, a flip before each, and flips at the three places of the
\* ripple chain alone beside them.
THEOREM SqPitch == Spec => Pitch
<1>1. Init => PlayInv
  BY InitPlay
<1>2. TypeOK /\ PlayInv /\ [Next]_vars => PlayInv' /\ [InTime]_vars
  <2> SUFFICES ASSUME TypeOK, PlayInv, [Next]_vars
               PROVE  PlayInv' /\ (InTime \/ UNCHANGED vars)
    OBVIOUS
  <2>1. CASE UNCHANGED playvars
    <3>1. PlayInv' /\ sq_q' = sq_q /\ cnt' = cnt
      BY <2>1 DEF playvars, PlayInv, Reading, LoPair, HiPair
    <3>2. tc3 <=> ToGo = 0
      BY ReadsToGo
    <3>3. QED
      BY <3>1, <3>2 DEF InTime
  <2>2. CASE Clock
    BY <2>2, ClockPlay
  <2>3. QED
    BY <2>1, <2>2 DEF Next, Open, Close, vars
<1>3. Spec => [][InTime]_vars
  BY <1>1, <1>2, SqTypeOK, PTL DEF Spec
<1>4. QED
  BY <1>3 DEF InTime, Pitch
=============================================================================
