----------------------------- MODULE JtagProofs -----------------------------
(***************************************************************************)
(* Proofs about JtagUart and its Alarm, for every size of the clock, the   *)
(* rings and the FIFOs that the assumptions allow.                         *)
(***************************************************************************)
EXTENDS JtagUart, SequenceTheorems, TLAPS

-----------------------------------------------------------------------------
(* The alarm.  Its time is ahead of the clock by the ticks that are left,  *)
(* counted past the end of the word when the flag is set.                  *)

AlarmInv ==
  /\ AlarmTypeOK
  /\ time + (IF rollover THEN Word ELSE 0) = alt_nticks + due

(* A sum of two numbers of a word, in a word.                              *)
LEMMA Rest ==
  ASSUME NEW x \in 0..(2 * Word - 1)
  PROVE  x % Word = IF x < Word THEN x ELSE x - Word
  BY AlarmAssumption, Z3

LEMMA Before ==
  ASSUME NEW a \in Int, NEW b \in Int, NEW r, r = (a < b) PROVE r \in BOOLEAN /\ (r <=> a < b)
<1>1. (a < b) \in BOOLEAN
  BY SMT
<1>2. r \in BOOLEAN
  BY <1>1
<1>3. r <=> a < b
  BY Zenon
<1> QED
  BY <1>2, <1>3

LEMMA AlarmInvStart == AlarmStart => AlarmInv
<1> SUFFICES ASSUME AlarmStart PROVE AlarmInv
  OBVIOUS
<1> USE AlarmAssumption DEF AlarmStart
<1>1. time = IF Second + alt_nticks + 1 < Word THEN Second + alt_nticks + 1
             ELSE Second + alt_nticks + 1 - Word
  BY Rest
<1>2. rollover = (time < alt_nticks)
  BY DEF RollsOver
<1>3. rollover \in BOOLEAN /\ (rollover <=> time < alt_nticks)
  BY <1>1, <1>2, Before
<1> QED
  BY <1>1, <1>3 DEF AlarmInv, AlarmTypeOK

LEMMA AlarmOnTimeInv == AlarmInv => AlarmOnTime
<1> SUFFICES ASSUME AlarmInv PROVE AlarmOnTime
  OBVIOUS
<1>1. (alt_nticks + 1) % Word = IF alt_nticks + 1 < Word THEN alt_nticks + 1 ELSE 0
  BY AlarmAssumption, Rest DEF AlarmInv, AlarmTypeOK
<1> QED
  BY <1>1, AlarmAssumption DEF AlarmInv, AlarmTypeOK, AlarmOnTime, GoesOff, StillOver

LEMMA AlarmInvTick == AlarmInv /\ alt_tick => AlarmInv'
<1> SUFFICES ASSUME AlarmInv, alt_tick PROVE AlarmInv'
  OBVIOUS
<1> DEFINE now  == (alt_nticks + 1) % Word
           next == (time + Second) % Word
<1> USE AlarmAssumption
<1>1. now = IF alt_nticks + 1 < Word THEN alt_nticks + 1 ELSE 0
  BY Rest DEF AlarmInv, AlarmTypeOK
<1>2. next = IF time + Second < Word THEN time + Second ELSE time + Second - Word
  BY Rest DEF AlarmInv, AlarmTypeOK
<1>3. GoesOff(now) <=> due = 1
  BY AlarmOnTimeInv DEF AlarmOnTime
<1>4. alt_nticks' = now
  BY DEF alt_tick
<1> HIDE DEF now, next
<1>5. CASE due = 1
  <2>1. time' = next /\ rollover' = (next < now) /\ due' = Second
    BY <1>3, <1>5 DEF alt_tick, RollsOver, now, next
  <2>2. rollover' \in BOOLEAN /\ (rollover' <=> next < now)
    BY <1>1, <1>2, <2>1, Before DEF AlarmInv, AlarmTypeOK
  <2>3. time = now
    BY <1>1, <1>5 DEF AlarmInv, AlarmTypeOK
  <2> QED
    BY <1>1, <1>2, <1>4, <2>1, <2>2, <2>3 DEF AlarmInv, AlarmTypeOK
<1>6. CASE due # 1
  <2>1. time' = time /\ rollover' = (rollover /\ now # 0) /\ due' = due - 1
    BY <1>3, <1>6 DEF alt_tick, StillOver, now
  <2>2. rollover' \in BOOLEAN /\ (rollover' <=> rollover /\ now # 0)
    BY <2>1
  <2> QED
    BY <1>1, <1>4, <1>6, <2>1, <2>2 DEF AlarmInv, AlarmTypeOK
<1> QED
  BY <1>5, <1>6

-----------------------------------------------------------------------------
(* The driver.  Between the index the program reads and the one it moves   *)
(* lie the characters, in order; a copy under way has added to them, or    *)
(* taken from them, what it has copied.                                    *)

Writing == {"wlook", "wcopy", "wadvance", "wenable", "wwait"}
Reading == {"rlook", "rcopy", "radvance", "renable", "rwait"}

Added == IF pc \in {"wcopy", "wadvance"} THEN copied ELSE 0
Gone  == IF pc \in {"rcopy", "radvance"} THEN copied ELSE 0

(* The numbers of a call.                                                  *)
CallInv ==
  /\ pc \in Writing => put + count - copied <= Chars
  /\ pc \notin Reading => ~any
  /\ pc \in {"wlook", "wwait", "rlook", "rwait"} => count > 0
  /\ pc \in {"wcopy", "wadvance", "rcopy", "radvance"} => n > 0 /\ n <= count
  /\ pc \in {"wcopy", "rcopy"} => copied < n
  /\ pc \in {"wadvance", "radvance"} => copied = n
  /\ pc \in {"wlook", "wenable", "wwait", "rlook", "renable", "rwait", "idle", "close"} => n = 0
  /\ pc \in {"wcopy", "wadvance"} =>
       tx_in + n <= BufLen /\ Dist(tx_out, tx_in) + n <= BufLen - 1
  /\ pc \in {"rcopy", "radvance"} =>
       rx_out + n <= BufLen /\ n <= Dist(rx_out, rx_in)
  /\ pc = "renable" => any

TxHeld ==
  /\ put = taken + Len(txfifo) + Dist(tx_out, tx_in) + Added
  /\ \A k \in 1..Len(txfifo) : txfifo[k] = taken + k
  /\ \A j \in Index : Dist(tx_out, j) < Dist(tx_out, tx_in) + Added =>
       tx_buf[j] = taken + Len(txfifo) + Dist(tx_out, j) + 1

RxHeld ==
  /\ typed = read - Gone + Dist(rx_out, rx_in) + Len(rxfifo)
  /\ read >= Gone
  /\ \A k \in 1..Len(rxfifo) : rxfifo[k] = typed - Len(rxfifo) + k
  /\ \A j \in Index : Dist(rx_out, j) < Dist(rx_out, rx_in) =>
       rx_buf[j] = read - Gone + Dist(rx_out, j) + 1

JtagInv ==
  /\ AlarmInv /\ JtagTypeOK
  /\ CallInv /\ TxHeld /\ RxHeld
  /\ TxNotStuck /\ RxNotDeaf

(* What the type invariant says of the numbers.                            *)
LEMMA Numbers ==
  ASSUME JtagTypeOK
  PROVE  /\ tx_in \in Index /\ tx_out \in Index /\ rx_in \in Index /\ rx_out \in Index
         /\ count \in Nat /\ n \in Nat /\ copied \in Nat /\ copied <= n /\ n <= BufLen - 1
         /\ put \in Nat /\ taken \in Nat /\ typed \in Nat /\ read \in Nat
         /\ put <= Chars /\ taken <= Chars /\ typed <= Keys /\ read <= Keys
         /\ Len(txfifo) \in Nat /\ Len(txfifo) <= Depth
         /\ Len(rxfifo) \in Nat /\ Len(rxfifo) <= Depth
         /\ Added \in Nat /\ Gone \in Nat
<1>1. Len(txfifo) \in Nat /\ Len(rxfifo) \in Nat
  BY LenProperties DEF JtagTypeOK
<1> QED
  BY <1>1, JtagAssumption DEF JtagTypeOK, Added, Gone

(* Distances in the ring.                                                  *)
LEMMA DistRange ==
  ASSUME NEW a \in Index, NEW b \in Index PROVE Dist(a, b) \in Nat /\ Dist(a, b) <= BufLen - 1
  BY JtagAssumption DEF Dist, Index

LEMMA WrapRange ==
  ASSUME NEW a \in Index, NEW k \in Index
  PROVE  Wrap(a + k) \in Index /\ Dist(a, Wrap(a + k)) = k
  BY JtagAssumption DEF Dist, Index, Wrap

(* The index behind moves up to the one ahead, or the one ahead away.      *)
LEMMA DistFrom ==
  ASSUME NEW a \in Index, NEW b \in Index, NEW k \in Nat, k <= Dist(a, b)
  PROVE  Wrap(a + k) \in Index /\ Dist(Wrap(a + k), b) = Dist(a, b) - k
  BY JtagAssumption DEF Dist, Index, Wrap

LEMMA DistTo ==
  ASSUME NEW a \in Index, NEW b \in Index, NEW k \in Nat, Dist(a, b) + k <= BufLen - 1
  PROVE  Wrap(b + k) \in Index /\ Dist(a, Wrap(b + k)) = Dist(a, b) + k
  BY JtagAssumption DEF Dist, Index, Wrap

LEMMA DistVia ==
  ASSUME NEW a \in Index, NEW b \in Index, NEW j \in Index
  PROVE  Dist(b, j) = IF Dist(a, j) >= Dist(a, b) THEN Dist(a, j) - Dist(a, b)
                      ELSE Dist(a, j) - Dist(a, b) + BufLen
  BY JtagAssumption DEF Dist, Index

LEMMA DistSame ==
  ASSUME NEW a \in Index, NEW b \in Index, NEW j \in Index, Dist(a, b) = Dist(a, j) PROVE b = j
  BY JtagAssumption DEF Dist, Index

LEMMA DistZero ==
  ASSUME NEW a \in Index, NEW b \in Index, Dist(a, b) = 0 PROVE a = b
  BY JtagAssumption DEF Dist, Index

(* A function on 1..m is a sequence.                                       *)
LEMMA AsSeq ==
  ASSUME NEW S, NEW m \in Nat, NEW s \in [1..m -> S]
  PROVE  s \in Seq(S) /\ Len(s) = m
<1>1. s \in Seq(S)
  BY SeqDef
<1>2. DOMAIN s = 1..m /\ DOMAIN s = 1..Len(s) /\ Len(s) \in Nat
  BY <1>1, LenProperties
<1> QED
  BY <1>1, <1>2

LEMMA JtagInvInit == JtagInit => JtagInv
<1> SUFFICES ASSUME JtagInit PROVE JtagInv
  OBVIOUS
<1> USE JtagAssumption DEF JtagInit
<1>1. AlarmInv
  BY AlarmInvStart
<1>2. JtagTypeOK
  <2>1. <<>> \in Seq(1..Chars) /\ <<>> \in Seq(1..Keys) /\ Len(<<>>) = 0
    BY EmptySeq
  <2>2. tx_buf \in [Index -> 0..Chars] /\ rx_buf \in [Index -> 0..Keys]
    BY DEF Index
  <2>3. WE \in BOOLEAN /\ RE \in BOOLEAN /\ AC \in BOOLEAN /\ gone \in BOOLEAN /\ any \in BOOLEAN
    OBVIOUS
  <2> QED
    BY <1>1, <2>1, <2>2, <2>3 DEF JtagTypeOK, AlarmInv, Index
<1>3. CallInv
  BY DEF CallInv, Writing, Reading
<1>4. TxHeld
  BY DEF TxHeld, Added, Dist, Index
<1>5. RxHeld
  BY DEF RxHeld, Gone, Dist, Index
<1> QED
  BY <1>1, <1>2, <1>3, <1>4, <1>5 DEF JtagInv, TxNotStuck, RxNotDeaf

(* The parts of the invariant, each by the variables it is about.          *)
txSide == <<WE, txfifo, txVars, put, taken>>
rxSide == <<RE, rxfifo, rxVars, typed, read>>

(* The host.                                                               *)
LEMMA HostTakeKeeps == JtagInv /\ HostTake => JtagInv'
<1> SUFFICES ASSUME JtagInv, HostTake PROVE JtagInv'
  OBVIOUS
<1>1. /\ AlarmInv /\ JtagTypeOK /\ CallInv /\ TxHeld /\ RxHeld
      /\ TxNotStuck /\ RxNotDeaf
  BY DEF JtagInv
<1>2. /\ txfifo # <<>> /\ taken' = Head(txfifo) /\ txfifo' = Tail(txfifo) /\ AC' = TRUE
      /\ UNCHANGED <<alt_nticks, time, rollover, due, WE, RE, rxfifo, gone,
                     tx_buf, tx_in, tx_out, rx_buf, rx_in, rx_out, host_inactive, pc,
                     count, seen, n, copied, any, put, typed, read>>
  BY DEF HostTake, alarmVars, txVars, rxVars, callVars
<1>3. /\ txfifo' \in Seq(1..Chars) /\ Len(txfifo') = Len(txfifo) - 1
      /\ \A k \in 1..Len(txfifo') : txfifo'[k] = txfifo[k + 1]
      /\ Len(txfifo) \in Nat \ {0} /\ Head(txfifo) = txfifo[1]
  BY <1>1, <1>2, HeadTailProperties, EmptySeq DEF JtagTypeOK
<1>4. put = taken + Len(txfifo) + Dist(tx_out, tx_in) + Added
  BY <1>1 DEF TxHeld
<1>5. taken' = taken + 1
  BY <1>1, <1>2, <1>3 DEF TxHeld
<1>6. taken' + Len(txfifo') = taken + Len(txfifo)
  BY <1>1, <1>3, <1>5, Numbers
<1>7. TxHeld'
  <2>1. Dist(tx_out, tx_in)' = Dist(tx_out, tx_in) /\ Added' = Added
    BY <1>2 DEF Dist, Added
  <2>2. (put = taken + Len(txfifo) + Dist(tx_out, tx_in) + Added)'
    BY <1>2, <1>4, <1>6, <2>1
  <2>3. ASSUME NEW k \in 1..Len(txfifo') PROVE txfifo'[k] = taken' + k
    <3>1. k + 1 \in 1..Len(txfifo) /\ txfifo'[k] = txfifo[k + 1]
      BY <1>3
    <3>2. txfifo[k + 1] = taken + (k + 1)
      BY <1>1, <3>1 DEF TxHeld
    <3> QED
      BY <1>1, <1>3, <1>5, <3>1, <3>2, Numbers
  <2>4. (\A j \in Index : Dist(tx_out, j) < Dist(tx_out, tx_in) + Added =>
           tx_buf[j] = taken + Len(txfifo) + Dist(tx_out, j) + 1)'
    BY <1>1, <1>2, <1>6 DEF TxHeld, Dist, Added
  <2> QED
    BY <2>2, <2>3, <2>4 DEF TxHeld
<1>8. JtagTypeOK'
  <2>1. taken' \in 0..Chars
    <3>1. /\ taken \in Nat /\ put \in Nat /\ put <= Chars /\ Added \in Nat
          /\ Dist(tx_out, tx_in) \in Nat
      BY <1>1, Numbers, DistRange
    <3>2. taken + Len(txfifo) <= put
      BY <1>3, <1>4, <3>1
    <3> QED
      BY <1>3, <1>5, <3>1, <3>2, JtagAssumption
  <2>2. Len(txfifo') <= Depth
    BY <1>1, <1>3, Numbers, JtagAssumption
  <2>3. AC' \in BOOLEAN
    BY <1>2
  <2> QED
    BY <1>1, <1>2, <1>3, <2>1, <2>2, <2>3 DEF JtagTypeOK, AlarmTypeOK
<1>9. AlarmInv'
  BY <1>1, <1>2 DEF AlarmInv, AlarmTypeOK
<1>10. CallInv' /\ RxHeld' /\ TxNotStuck' /\ RxNotDeaf'
  BY <1>1, <1>2 DEF CallInv, RxHeld, Gone, Dist, TxNotStuck, RxNotDeaf
<1> QED
  BY <1>7, <1>8, <1>9, <1>10 DEF JtagInv

LEMMA HostTypeKeeps == JtagInv /\ HostType => JtagInv'
<1> SUFFICES ASSUME JtagInv, HostType PROVE JtagInv'
  OBVIOUS
<1>1. /\ AlarmInv /\ JtagTypeOK /\ CallInv /\ TxHeld /\ RxHeld
      /\ TxNotStuck /\ RxNotDeaf
  BY DEF JtagInv
<1>2. /\ typed < Keys /\ Len(rxfifo) < Depth
      /\ typed' = typed + 1 /\ rxfifo' = Append(rxfifo, typed + 1) /\ AC' = TRUE
      /\ UNCHANGED <<alt_nticks, time, rollover, due, WE, RE, txfifo, gone,
                     tx_buf, tx_in, tx_out, rx_buf, rx_in, rx_out, host_inactive, pc,
                     count, seen, n, copied, any, put, taken, read>>
  BY DEF HostType, alarmVars, txVars, rxVars, callVars
<1>3. /\ rxfifo' \in Seq(1..Keys) /\ Len(rxfifo') = Len(rxfifo) + 1
      /\ \A k \in 1..Len(rxfifo) : rxfifo'[k] = rxfifo[k]
      /\ rxfifo'[Len(rxfifo) + 1] = typed + 1
  <2>1. typed + 1 \in 1..Keys
    BY <1>1, <1>2, Numbers, JtagAssumption
  <2>2. rxfifo \in Seq(1..Keys)
    BY <1>1 DEF JtagTypeOK
  <2> QED
    BY <1>2, <2>1, <2>2, AppendProperties
<1>4. typed = read - Gone + Dist(rx_out, rx_in) + Len(rxfifo) /\ read >= Gone
  BY <1>1 DEF RxHeld
<1>5. typed' - Len(rxfifo') = typed - Len(rxfifo)
  BY <1>1, <1>2, <1>3, Numbers
<1>6. RxHeld'
  <2>1. Dist(rx_out, rx_in)' = Dist(rx_out, rx_in) /\ Gone' = Gone
    BY <1>2 DEF Dist, Gone
  <2>2. (typed = read - Gone + Dist(rx_out, rx_in) + Len(rxfifo) /\ read >= Gone)'
    <3>1. /\ typed \in Nat /\ read \in Nat /\ Gone \in Nat /\ Len(rxfifo) \in Nat
          /\ Dist(rx_out, rx_in) \in Nat
      BY <1>1, Numbers, DistRange
    <3> QED
      BY <1>2, <1>3, <1>4, <2>1, <3>1
  <2>3. ASSUME NEW k \in 1..Len(rxfifo') PROVE rxfifo'[k] = typed' - Len(rxfifo') + k
    <3>1. CASE k = Len(rxfifo) + 1
      BY <1>1, <1>2, <1>3, <3>1, Numbers
    <3>2. CASE k \in 1..Len(rxfifo)
      BY <1>1, <1>3, <1>5, <3>2 DEF RxHeld
    <3> QED
      BY <1>1, <1>3, <3>1, <3>2, Numbers
  <2>4. (\A j \in Index : Dist(rx_out, j) < Dist(rx_out, rx_in) =>
           rx_buf[j] = read - Gone + Dist(rx_out, j) + 1)'
    BY <1>1, <1>2 DEF RxHeld, Dist, Gone
  <2> QED
    BY <2>2, <2>3, <2>4 DEF RxHeld
<1>7. JtagTypeOK'
  <2>1. typed' \in 0..Keys /\ Len(rxfifo') <= Depth
    BY <1>1, <1>2, <1>3, Numbers, JtagAssumption
  <2>2. AC' \in BOOLEAN
    BY <1>2
  <2> QED
    BY <1>1, <1>2, <1>3, <2>1, <2>2 DEF JtagTypeOK, AlarmTypeOK
<1>8. AlarmInv'
  BY <1>1, <1>2 DEF AlarmInv, AlarmTypeOK
<1>9. CallInv' /\ TxHeld' /\ TxNotStuck' /\ RxNotDeaf'
  BY <1>1, <1>2 DEF CallInv, TxHeld, Added, Dist, TxNotStuck, RxNotDeaf
<1> QED
  BY <1>6, <1>7, <1>8, <1>9 DEF JtagInv

LEMMA HostLeavesKeeps == JtagInv /\ HostLeaves => JtagInv'
<1> SUFFICES ASSUME JtagInv, HostLeaves PROVE JtagInv'
  OBVIOUS
<1> USE DEF JtagInv, HostLeaves, txVars, rxVars, callVars, alarmVars
<1>1. AlarmInv' /\ JtagTypeOK'
  BY DEF JtagTypeOK, AlarmInv, AlarmTypeOK
<1>2. CallInv' /\ TxHeld' /\ RxHeld' /\ TxNotStuck' /\ RxNotDeaf'
  BY DEF CallInv, TxHeld, RxHeld, Added, Gone, Dist, TxNotStuck, RxNotDeaf
<1> QED
  BY <1>1, <1>2

LEMMA TickKeeps == JtagInv /\ Tick => JtagInv'
<1> SUFFICES ASSUME JtagInv, Tick PROVE JtagInv'
  OBVIOUS
<1> USE JtagAssumption DEF JtagInv, Tick, txVars, rxVars, callVars
<1>1. AlarmInv'
  BY AlarmInvTick
<1>2. AC' \in BOOLEAN /\ host_inactive' \in 0..(IntMax - 2)
  <2>1. CASE GoesOff(alt_nticks') /\ AC
    <3>1. AC' = FALSE /\ host_inactive' = 0
      BY <2>1 DEF CheckHost
    <3>2. AC' \in BOOLEAN
      BY <3>1, Zenon
    <3> QED
      BY <3>1, <3>2
  <2>2. CASE GoesOff(alt_nticks') /\ ~AC
    <3>1. AC' = AC
      BY <2>2 DEF CheckHost
    <3>2. host_inactive' \in 0..(IntMax - 2)
      BY <2>2 DEF JtagTypeOK, CheckHost
    <3> QED
      BY <3>1, <3>2 DEF JtagTypeOK
  <2>3. CASE ~GoesOff(alt_nticks')
    BY <2>3 DEF JtagTypeOK
  <2> QED
    BY <2>1, <2>2, <2>3
<1>3. JtagTypeOK'
  BY <1>1, <1>2 DEF JtagTypeOK, AlarmInv
<1>4. CallInv' /\ TxHeld' /\ RxHeld' /\ TxNotStuck' /\ RxNotDeaf'
  BY DEF CallInv, TxHeld, RxHeld, Added, Gone, Dist, TxNotStuck, RxNotDeaf
<1> QED
  BY <1>1, <1>3, <1>4

-----------------------------------------------------------------------------
(* The interrupt routine.                                                  *)

LEMMA ReceiveKeeps ==
  ASSUME JtagInv, Receive,
         UNCHANGED <<rx_out, pc, callVars, read, typed>>
  PROVE  /\ RxHeld' /\ RxNotDeaf'
         /\ RE' \in BOOLEAN
         /\ rxfifo' \in Seq(1..Keys) /\ Len(rxfifo') <= Depth
         /\ rx_buf' \in [Index -> 0..Keys] /\ rx_in' \in Index
         /\ pc \in {"rcopy", "radvance"} => n <= Dist(rx_out, rx_in')
<1>0. /\ JtagTypeOK /\ CallInv /\ RxHeld /\ RxNotDeaf
      /\ UNCHANGED <<rx_out, pc, count, seen, n, copied, any, read, typed>>
  BY DEF JtagInv, callVars
<1>1. CASE ~RI
  <2>1. UNCHANGED <<rx_buf, rx_in, rxfifo, RE>>
    BY <1>0, <1>1 DEF Receive
  <2>2. RxHeld' /\ RxNotDeaf'
    BY <1>0, <2>1 DEF RxHeld, RxNotDeaf, Gone, Dist
  <2>3. pc \in {"rcopy", "radvance"} => n <= Dist(rx_out, rx_in')
    BY <1>0, <2>1 DEF CallInv, Dist
  <2> QED
    BY <1>0, <2>1, <2>2, <2>3 DEF JtagTypeOK
<1>2. CASE RI
  <2> DEFINE m == Least(Len(rxfifo), Room(rx_in, rx_out))
             d == Dist(rx_out, rx_in)
  <2>1. /\ rx_buf' = [j \in Index |->
             IF Dist(rx_in, j) < m THEN rxfifo[Dist(rx_in, j) + 1] ELSE rx_buf[j]]
        /\ rx_in' = Wrap(rx_in + m)
        /\ rxfifo' = SubSeq(rxfifo, m + 1, Len(rxfifo))
        /\ RE' = (m = Len(rxfifo))
    BY <1>0, <1>2 DEF Receive
  <2>2. Len(rxfifo) \in Nat /\ \A k \in 1..Len(rxfifo) : rxfifo[k] \in 1..Keys
    BY <1>0, LenProperties, ElementOfSeq DEF JtagTypeOK
  <2>0. typed = read - Gone + d + Len(rxfifo) /\ read >= Gone
    BY <1>0 DEF RxHeld
  <2>3. /\ d \in 0..(BufLen - 1) /\ m \in 0..Len(rxfifo) /\ d + m <= BufLen - 1
        /\ m = Len(rxfifo) \/ d + m = BufLen - 1
    <3>1. d \in Nat /\ d <= BufLen - 1
      BY <1>0, Numbers, DistRange, JtagAssumption
    <3>2. m = IF Len(rxfifo) <= BufLen - 1 - d THEN Len(rxfifo) ELSE BufLen - 1 - d
      BY <1>0 DEF Least, Room
    <3> HIDE DEF m, d
    <3> QED
      BY <1>0, <2>2, <3>1, <3>2, JtagAssumption
  <2>4. rx_in' \in Index /\ Dist(rx_out, rx_in') = d + m
    <3> HIDE DEF m
    <3> QED
      BY <1>0, <2>1, <2>3, Numbers, DistTo
  <2>5. /\ rxfifo' \in Seq(1..Keys) /\ Len(rxfifo') = Len(rxfifo) - m
        /\ \A k \in 1..(Len(rxfifo) - m) : rxfifo'[k] = rxfifo[m + k]
    <3>1. \A i \in (m + 1)..Len(rxfifo) : rxfifo[i] \in 1..Keys
      BY <1>0, <2>2, <2>3
    <3> HIDE DEF m
    <3>2. /\ SubSeq(rxfifo, m + 1, Len(rxfifo)) \in Seq(1..Keys)
          /\ Len(SubSeq(rxfifo, m + 1, Len(rxfifo))) =
               IF m + 1 <= Len(rxfifo) THEN Len(rxfifo) - (m + 1) + 1 ELSE 0
          /\ \A i \in 1..(Len(rxfifo) - (m + 1) + 1) :
               SubSeq(rxfifo, m + 1, Len(rxfifo))[i] = rxfifo[m + 1 + i - 1]
      <4>1. m + 1 \in Int /\ Len(rxfifo) \in Int
        BY <1>0, <2>2, <2>3
      <4> QED
        BY <1>0, <3>1, <4>1, SubSeqProperties
    <3> QED
      BY <1>0, <2>1, <2>2, <2>3, <3>2
  <2>6. \A j \in Index : rx_buf'[j] \in 0..Keys
    <3> TAKE j \in Index
    <3>1. CASE Dist(rx_in, j) < m
      <4>1. Dist(rx_in, j) + 1 \in 1..Len(rxfifo)
        <5> HIDE DEF m
        <5>1. Dist(rx_in, j) \in Nat
          BY <1>0, Numbers, DistRange, JtagAssumption
        <5> QED
          BY <1>0, <2>2, <2>3, <3>1, <5>1
      <4>2. rx_buf'[j] = rxfifo[Dist(rx_in, j) + 1]
        BY <1>0, <2>1, <3>1
      <4> QED
        BY <1>0, <2>2, <4>1, <4>2
    <3>2. CASE ~(Dist(rx_in, j) < m)
      BY <1>0, <2>1, <3>2 DEF JtagTypeOK
    <3> QED
      BY <1>0, <3>1, <3>2
  <2>7. rx_buf' \in [Index -> 0..Keys]
    BY <1>0, <2>1, <2>6
  <2>8. RE' \in BOOLEAN /\ (RE' <=> m = Len(rxfifo))
    <3> HIDE DEF m
    <3>1. (m = Len(rxfifo)) \in BOOLEAN
      OBVIOUS
    <3> QED
      BY <1>0, <2>1, <3>1, Zenon
  <2>9. RxNotDeaf'
    <3>1. ~RE' => Dist(rx_out, rx_in') = BufLen - 1
      BY <1>0, <2>3, <2>4, <2>8, JtagAssumption
    <3>2. rx_in' = rx_out => Dist(rx_out, rx_in') = 0
      BY <1>0, Numbers DEF Dist, Index
    <3> QED
      BY <1>0, <3>1, <3>2, JtagAssumption DEF RxNotDeaf
  <2>10. Gone' = Gone /\ Gone \in Nat
    BY <1>0 DEF Gone, JtagTypeOK
  <2> HIDE DEF m, d
  <2>11. RxHeld'
    <3>1. (typed = read - Gone + Dist(rx_out, rx_in) + Len(rxfifo) /\ read >= Gone)'
      <4>1. Dist(rx_out, rx_in)' = Dist(rx_out, rx_in')
        BY <1>0 DEF Dist
      <4> QED
        BY <1>0, <2>0, <2>3, <2>4, <2>5, <2>10, <4>1, Numbers
    <3>2. ASSUME NEW k \in 1..Len(rxfifo') PROVE rxfifo'[k] = typed' - Len(rxfifo') + k
      <4>1. m + k \in 1..Len(rxfifo) /\ rxfifo'[k] = rxfifo[m + k]
        BY <1>0, <2>2, <2>3, <2>5
      <4> QED
        <5>1. rxfifo[m + k] = typed - Len(rxfifo) + (m + k)
          BY <1>0, <4>1 DEF RxHeld
        <5> QED
          BY <1>0, <2>3, <2>5, <4>1, <5>1, Numbers
    <3>3. ASSUME NEW j \in Index, Dist(rx_out, j) < Dist(rx_out, rx_in')
          PROVE  rx_buf'[j] = read - Gone + Dist(rx_out, j) + 1
      <4>0. /\ Dist(rx_out, j) \in Nat /\ Dist(rx_out, j) <= BufLen - 1
            /\ Dist(rx_in, j) \in Nat
            /\ Dist(rx_in, j) = IF Dist(rx_out, j) >= d THEN Dist(rx_out, j) - d
                                 ELSE Dist(rx_out, j) - d + BufLen
        BY <1>0, Numbers, DistRange, DistVia, JtagAssumption DEF d
      <4>1. CASE Dist(rx_out, j) < d
        <5>1. ~(Dist(rx_in, j) < m)
          BY <1>0, <2>3, <4>0, <4>1, JtagAssumption
        <5>2. rx_buf'[j] = rx_buf[j]
          BY <1>0, <2>1, <5>1 DEF m
        <5> QED
          BY <1>0, <4>1, <5>2 DEF RxHeld, d
      <4>2. CASE Dist(rx_out, j) >= d
        <5>1. Dist(rx_in, j) = Dist(rx_out, j) - d /\ Dist(rx_in, j) < m
          BY <1>0, <2>3, <2>4, <3>3, <4>0, <4>2, JtagAssumption
        <5>2. rx_buf'[j] = rxfifo[Dist(rx_in, j) + 1]
          BY <1>0, <2>1, <5>1 DEF m
        <5>3. Dist(rx_in, j) + 1 \in 1..Len(rxfifo)
          BY <1>0, <2>2, <2>3, <4>0, <5>1
        <5>4. rx_buf'[j] = typed - Len(rxfifo) + (Dist(rx_in, j) + 1)
          BY <1>0, <5>2, <5>3 DEF RxHeld
        <5> QED
          <6>1. typed \in Nat /\ read \in Nat /\ Gone \in Nat /\ Len(rxfifo) \in Nat
            BY <1>0, Numbers
          <6> QED
            BY <2>0, <2>3, <4>0, <5>1, <5>4, <6>1
      <4> QED
        BY <1>0, <2>3, <4>0, <4>1, <4>2, JtagAssumption
    <3> QED
      BY <1>0, <2>10, <3>1, <3>2, <3>3 DEF RxHeld
  <2>12. pc \in {"rcopy", "radvance"} => n <= Dist(rx_out, rx_in')
    BY <1>0, <2>3, <2>4, Numbers DEF CallInv, d
  <2>13. Len(rxfifo') <= Depth
    BY <1>0, <2>2, <2>3, <2>5, Numbers, JtagAssumption
  <2> QED
    BY <1>0, <2>4, <2>5, <2>7, <2>8, <2>9, <2>11, <2>12, <2>13
<1> QED
  BY <1>0, <1>1, <1>2

LEMMA TransmitKeeps ==
  ASSUME JtagInv, Transmit,
         UNCHANGED <<tx_buf, tx_in, pc, callVars, put, taken>>
  PROVE  /\ TxHeld' /\ TxNotStuck'
         /\ WE' \in BOOLEAN
         /\ txfifo' \in Seq(1..Chars) /\ Len(txfifo') <= Depth
         /\ tx_out' \in Index
         /\ Dist(tx_out', tx_in) <= Dist(tx_out, tx_in)
<1>0. /\ JtagTypeOK /\ CallInv /\ TxHeld /\ TxNotStuck
      /\ UNCHANGED <<tx_buf, tx_in, pc, count, seen, n, copied, any, put, taken>>
  BY DEF JtagInv, callVars
<1>1. CASE ~WI
  <2>1. UNCHANGED <<txfifo, tx_out, WE>>
    BY <1>1 DEF Transmit
  <2>2. TxHeld' /\ TxNotStuck'
    BY <1>0, <2>1 DEF TxHeld, TxNotStuck, Added, Dist
  <2>3. Dist(tx_out', tx_in) <= Dist(tx_out, tx_in)
    BY <1>0, <2>1, Numbers, DistRange
  <2> QED
    BY <1>0, <2>1, <2>2, <2>3 DEF JtagTypeOK
<1>2. CASE WI
  <2> DEFINE m == Least(Depth - Len(txfifo), Dist(tx_out, tx_in))
             d == Dist(tx_out, tx_in)
             s == [k \in 1..m |-> tx_buf[Wrap(tx_out + k - 1)]]
  <2>1. txfifo' = txfifo \o s /\ tx_out' = Wrap(tx_out + m) /\ WE' = (m = Depth - Len(txfifo))
    BY <1>2 DEF Transmit, WriteOn
  <2>2. /\ put \in Nat /\ put <= Chars /\ taken \in Nat /\ Added \in Nat
        /\ Len(txfifo) \in Nat /\ Len(txfifo) <= Depth /\ d \in Nat /\ d <= BufLen - 1
        /\ tx_in \in Index /\ tx_out \in Index
    BY <1>0, Numbers, DistRange
  <2>3. put = taken + Len(txfifo) + d + Added
    BY <1>0 DEF TxHeld
  <2>4. m \in Nat /\ m <= d /\ m <= Depth - Len(txfifo) /\ (m = Depth - Len(txfifo) \/ m = d)
    BY <2>2, JtagAssumption DEF Least
  <2>5. Added' = Added
    BY <1>0 DEF Added
  <2> HIDE DEF m, d, s
  <2>6. tx_out' \in Index /\ Dist(tx_out', tx_in) = d - m
    BY <2>1, <2>2, <2>4, DistFrom DEF d
  <2>7. ASSUME NEW k \in 1..m
        PROVE  /\ tx_buf[Wrap(tx_out + k - 1)] = taken + Len(txfifo) + k
               /\ taken + Len(txfifo) + k \in 1..Chars
    <3> DEFINE j == Wrap(tx_out + (k - 1))
    <3>1. k - 1 \in Index /\ tx_out + k - 1 = tx_out + (k - 1)
      BY <2>2, <2>4, JtagAssumption DEF Index
    <3>2. j \in Index /\ Dist(tx_out, j) = k - 1
      BY <2>2, <3>1, WrapRange
    <3> HIDE DEF j
    <3>3. k - 1 < d + Added
      BY <2>2, <2>4
    <3>4. tx_buf[j] = taken + Len(txfifo) + (k - 1) + 1
      BY <1>0, <3>2, <3>3 DEF TxHeld, d
    <3>5. taken + Len(txfifo) + (k - 1) + 1 = taken + Len(txfifo) + k
      BY <2>2
    <3>6. tx_buf[Wrap(tx_out + k - 1)] = tx_buf[j]
      BY <3>1 DEF j
    <3>7. taken + Len(txfifo) + k \in 1..Chars
      BY <2>2, <2>3, <2>4, JtagAssumption
    <3> QED
      BY <3>4, <3>5, <3>6, <3>7
  <2>8. s \in Seq(1..Chars) /\ Len(s) = m /\ \A k \in 1..m : s[k] = taken + Len(txfifo) + k
    <3>1. s \in [1..m -> 1..Chars]
      BY <2>7 DEF s
    <3>2. s \in Seq(1..Chars) /\ Len(s) = m
      BY <2>4, <3>1, AsSeq
    <3> QED
      BY <2>7, <3>2 DEF s
  <2>9. /\ txfifo' \in Seq(1..Chars) /\ Len(txfifo') = Len(txfifo) + m
        /\ \A i \in 1..(Len(txfifo) + m) :
             txfifo'[i] = IF i <= Len(txfifo) THEN txfifo[i] ELSE s[i - Len(txfifo)]
    <3>1. txfifo \in Seq(1..Chars)
      BY <1>0 DEF JtagTypeOK
    <3> QED
      BY <2>1, <2>8, <3>1, ConcatProperties
  <2>10. WE' \in BOOLEAN /\ (WE' <=> m = Depth - Len(txfifo))
    <3>1. (m = Depth - Len(txfifo)) \in BOOLEAN
      OBVIOUS
    <3> QED
      BY <2>1, <3>1, Zenon
  <2>11. TxNotStuck'
    <3>1. ~WE' => Dist(tx_out', tx_in) = 0
      BY <2>2, <2>4, <2>6, <2>10
    <3>2. Dist(tx_out', tx_in) = 0 => tx_in = tx_out'
      BY <2>2, <2>6, DistZero
    <3> QED
      BY <1>0, <3>1, <3>2 DEF TxNotStuck
  <2>12. Dist(tx_out, tx_in)' = d - m
    BY <1>0, <2>6 DEF Dist
  <2>13. TxHeld'
    <3>1. (put = taken + Len(txfifo) + Dist(tx_out, tx_in) + Added)'
      BY <1>0, <2>2, <2>3, <2>4, <2>5, <2>9, <2>12
    <3>2. ASSUME NEW k \in 1..Len(txfifo') PROVE txfifo'[k] = taken' + k
      <4>1. CASE k <= Len(txfifo)
        BY <1>0, <2>2, <2>4, <2>9, <4>1 DEF TxHeld
      <4>2. CASE k > Len(txfifo)
        <5>1. k - Len(txfifo) \in 1..m /\ txfifo'[k] = s[k - Len(txfifo)]
          BY <2>2, <2>4, <2>9, <4>2
        <5>2. s[k - Len(txfifo)] = taken + Len(txfifo) + (k - Len(txfifo))
          BY <2>8, <5>1
        <5> QED
          BY <1>0, <2>2, <2>9, <5>1, <5>2
      <4> QED
        BY <2>2, <2>4, <2>9, <4>1, <4>2
    <3>3. ASSUME NEW j \in Index, Dist(tx_out', j) < d - m + Added
          PROVE  tx_buf[j] = taken + Len(txfifo') + Dist(tx_out', j) + 1
      <4>1. /\ Dist(tx_out, j) \in Nat /\ Dist(tx_out, j) <= BufLen - 1
            /\ Dist(tx_out', j) \in Nat /\ Dist(tx_out', j) <= BufLen - 1
        BY <2>2, <2>6, DistRange
      <4>2. Dist(tx_out, tx_out') = m
        BY <2>1, <2>2, <2>4, WrapRange, JtagAssumption DEF Index
      <4>3. Dist(tx_out', j) = IF Dist(tx_out, j) >= m THEN Dist(tx_out, j) - m
                               ELSE Dist(tx_out, j) - m + BufLen
        BY <2>2, <2>6, <4>2, DistVia
      <4>4. d + Added <= BufLen - 1
        BY <1>0, <2>2, Numbers, JtagAssumption DEF Added, CallInv, d
      <4>5. Dist(tx_out, j) >= m
        BY <2>2, <2>4, <3>3, <4>1, <4>3, <4>4, JtagAssumption
      <4>6. Dist(tx_out, j) < d + Added
        BY <2>2, <2>4, <3>3, <4>1, <4>3, <4>5
      <4>7. tx_buf[j] = taken + Len(txfifo) + Dist(tx_out, j) + 1
        BY <1>0, <4>6 DEF TxHeld, d
      <4>8. Dist(tx_out, j) = Dist(tx_out', j) + m
        BY <2>4, <4>1, <4>3, <4>5
      <4>9. taken + Len(txfifo) + Dist(tx_out, j) + 1 = taken + Len(txfifo') + Dist(tx_out', j) + 1
        BY <2>2, <2>4, <2>9, <4>1, <4>8
      <4> QED
        BY <4>7, <4>9
    <3>4. (\A j \in Index : Dist(tx_out, j) < Dist(tx_out, tx_in) + Added =>
             tx_buf[j] = taken + Len(txfifo) + Dist(tx_out, j) + 1)'
      <4>1. \A j \in Index : Dist(tx_out, j)' = Dist(tx_out', j)
        BY DEF Dist
      <4> QED
        BY <1>0, <2>5, <2>12, <3>3, <4>1
    <3> QED
      BY <3>1, <3>2, <3>4 DEF TxHeld
  <2>14. Len(txfifo') <= Depth /\ Dist(tx_out', tx_in) <= Dist(tx_out, tx_in)
    BY <2>2, <2>4, <2>6, <2>9, JtagAssumption DEF d
  <2> QED
    BY <2>6, <2>9, <2>10, <2>11, <2>13, <2>14
<1> QED
  BY <1>1, <1>2

LEMMA IsrKeeps == JtagInv /\ Isr => JtagInv'
<1> SUFFICES ASSUME JtagInv, Isr PROVE JtagInv'
  OBVIOUS
<1>1. /\ AlarmInv /\ JtagTypeOK /\ CallInv
      /\ Receive /\ Transmit
      /\ UNCHANGED <<rx_out, tx_buf, tx_in, callVars>>
      /\ UNCHANGED <<alt_nticks, time, rollover, due, AC, gone, tx_buf, tx_in, rx_out,
                     host_inactive, pc, count, seen, n, copied, any, put, taken, typed, read>>
  BY DEF JtagInv, Isr, alarmVars, callVars
<1>2. /\ RxHeld' /\ RxNotDeaf' /\ RE' \in BOOLEAN
      /\ rxfifo' \in Seq(1..Keys) /\ Len(rxfifo') <= Depth
      /\ rx_buf' \in [Index -> 0..Keys] /\ rx_in' \in Index
      /\ pc \in {"rcopy", "radvance"} => n <= Dist(rx_out, rx_in')
  BY <1>1, ReceiveKeeps
<1>3. /\ TxHeld' /\ TxNotStuck' /\ WE' \in BOOLEAN
      /\ txfifo' \in Seq(1..Chars) /\ Len(txfifo') <= Depth
      /\ tx_out' \in Index
      /\ Dist(tx_out', tx_in) <= Dist(tx_out, tx_in)
  BY <1>1, TransmitKeeps
<1>4. JtagTypeOK'
  BY <1>1, <1>2, <1>3 DEF JtagTypeOK, AlarmTypeOK
<1>5. AlarmInv'
  BY <1>1 DEF AlarmInv, AlarmTypeOK
<1>6. CallInv'
  <2>1. /\ Dist(tx_out, tx_in)' = Dist(tx_out', tx_in)
        /\ Dist(rx_out, rx_in)' = Dist(rx_out, rx_in')
    BY <1>1 DEF Dist
  <2>2. pc \in {"wcopy", "wadvance"} => Dist(tx_out', tx_in) + n <= BufLen - 1
    <3>1. /\ Dist(tx_out', tx_in) \in Nat /\ Dist(tx_out, tx_in) \in Nat /\ n \in Nat
      BY <1>1, <1>3, Numbers, DistRange
    <3> QED
      BY <1>1, <1>3, <3>1, JtagAssumption DEF CallInv
  <2> QED
    BY <1>1, <1>2, <2>1, <2>2 DEF CallInv
<1> QED
  BY <1>2, <1>3, <1>4, <1>5, <1>6 DEF JtagInv

-----------------------------------------------------------------------------
(* The program writes.                                                     *)

LEMMA SpaceFits ==
  ASSUME NEW in \in Index, NEW out \in Index
  PROVE  /\ Space(in, out) \in Nat
         /\ in + Space(in, out) <= BufLen
         /\ Dist(out, in) + Space(in, out) <= BufLen - 1
  BY JtagAssumption DEF Space, Dist, Index

(* What no write touches.                                                  *)
LEMMA WriteSide ==
  ASSUME JtagInv, UNCHANGED untouchedByWrite,
         pc \notin Reading, pc' \notin Reading, any' = FALSE,
         WE' \in BOOLEAN, tx_buf' \in [Index -> 0..Chars], tx_in' \in Index,
         pc' \in {"idle", "wlook", "wcopy", "wadvance", "wenable", "wwait", "close"},
         count' \in Nat, seen' \in Index, n' \in 0..(BufLen - 1), copied' \in 0..n',
         put' \in 0..Chars
  PROVE  AlarmInv' /\ JtagTypeOK' /\ RxHeld' /\ RxNotDeaf'
<1>1. /\ AlarmInv /\ JtagTypeOK /\ RxHeld /\ RxNotDeaf
      /\ UNCHANGED <<alt_nticks, time, rollover, due, AC, txfifo, rxfifo, RE, gone,
                     rx_buf, rx_in, rx_out, tx_out, host_inactive, taken, typed, read>>
  BY DEF JtagInv, untouchedByWrite, alarmVars, rxVars
<1>2. AlarmInv'
  BY <1>1 DEF AlarmInv, AlarmTypeOK
<1>3. any' \in BOOLEAN
  OBVIOUS
<1>4. JtagTypeOK'
  BY <1>1, <1>3 DEF JtagTypeOK, AlarmTypeOK
<1>5. Gone' = Gone
  BY DEF Gone, Reading
<1>6. RxHeld'
  BY <1>1, <1>5 DEF RxHeld, Dist
<1>7. RxNotDeaf'
  BY <1>1 DEF RxNotDeaf, Reading
<1> QED
  BY <1>2, <1>4, <1>6, <1>7

(* The steps that move no character and no index.                          *)
LEMMA WriteIdles ==
  ASSUME JtagInv, UNCHANGED untouchedByWrite, UNCHANGED <<tx_buf, tx_in, put>>,
         pc \in {"idle", "wlook", "wenable", "wwait", "close"},
         pc' \in {"idle", "wlook", "wcopy", "wenable", "wwait", "close"},
         WE' \in BOOLEAN, any' = FALSE,
         WE' \/ (WE' = WE /\ (pc \in {"wlook", "wenable"} => pc' \in {"wcopy", "wenable"})),
         count' \in Nat, seen' \in Index, n' \in 0..(BufLen - 1), copied' = 0,
         CallInv'
  PROVE  JtagInv'
<1>1. AlarmInv' /\ JtagTypeOK' /\ RxHeld' /\ RxNotDeaf'
  <2>1. tx_buf' \in [Index -> 0..Chars] /\ tx_in' \in Index /\ put' \in 0..Chars
    BY DEF JtagInv, JtagTypeOK
  <2>2. pc \notin Reading /\ pc' \notin Reading
    BY DEF Reading
  <2>3. copied' \in 0..n'
    OBVIOUS
  <2>4. pc' \in {"idle", "wlook", "wcopy", "wadvance", "wenable", "wwait", "close"}
    OBVIOUS
  <2> QED
    BY <2>1, <2>2, <2>3, <2>4, WriteSide
<1>2. TxHeld'
  <2>1. Added' = 0 /\ Added = 0
    BY DEF Added
  <2> QED
    BY <2>1 DEF JtagInv, TxHeld, Dist, untouchedByWrite
<1>3. TxNotStuck'
  BY DEF JtagInv, TxNotStuck, untouchedByWrite
<1> QED
  BY <1>1, <1>2, <1>3 DEF JtagInv

LEMMA WriteKeeps == JtagInv /\ Write => JtagInv'
<1> SUFFICES ASSUME JtagInv, Write PROVE JtagInv'
  OBVIOUS
<1>1. /\ JtagTypeOK /\ CallInv /\ pc = "idle" /\ pc' = "wlook"
      /\ count' \in 1..(Chars - put)
      /\ UNCHANGED <<WE, tx_buf, tx_in, seen, n, copied, any, put>>
      /\ UNCHANGED untouchedByWrite
  BY DEF JtagInv, Write
<1>2. n = 0 /\ copied = 0 /\ any = FALSE
  BY <1>1, Numbers DEF CallInv, Reading, JtagTypeOK
<1>3. CallInv'
  BY <1>1, <1>2, Numbers, JtagAssumption DEF CallInv, Writing, Reading
<1>4. /\ WE' \in BOOLEAN /\ any' = FALSE /\ count' \in Nat /\ seen' \in Index
      /\ n' \in 0..(BufLen - 1) /\ copied' = 0
  BY <1>1, <1>2, JtagAssumption DEF JtagTypeOK
<1> QED
  BY <1>1, <1>3, <1>4, WriteIdles

LEMMA WriteLookKeeps == JtagInv /\ WriteLook => JtagInv'
<1> SUFFICES ASSUME JtagInv, WriteLook PROVE JtagInv'
  OBVIOUS
<1>1. /\ JtagTypeOK /\ CallInv /\ pc = "wlook" /\ seen' = tx_out
      /\ n' = Least(Space(tx_in, tx_out), count)
      /\ pc' = IF Space(tx_in, tx_out) = 0 THEN "wenable" ELSE "wcopy"
      /\ UNCHANGED <<WE, tx_buf, tx_in, count, copied, any, put>>
      /\ UNCHANGED untouchedByWrite /\ UNCHANGED tx_out
  BY DEF JtagInv, WriteLook, untouchedByWrite
<1>2. copied = 0 /\ any = FALSE /\ count > 0 /\ put + count - copied <= Chars
  BY <1>1, Numbers DEF CallInv, Writing, Reading, JtagTypeOK
<1>3. /\ Space(tx_in, tx_out) \in Nat
      /\ tx_in + Space(tx_in, tx_out) <= BufLen
      /\ Dist(tx_out, tx_in) + Space(tx_in, tx_out) <= BufLen - 1
      /\ Dist(tx_out, tx_in) \in Nat /\ tx_in \in Nat /\ count \in Nat
  <2>1. tx_in \in Index /\ tx_out \in Index /\ count \in Nat
    BY <1>1, Numbers
  <2>2. tx_in \in Nat
    BY <2>1, JtagAssumption DEF Index
  <2> QED
    BY <2>1, <2>2, SpaceFits, DistRange
<1>4. n' \in Nat /\ n' <= Space(tx_in, tx_out) /\ n' <= count
  BY <1>1, <1>3 DEF Least
<1>5. /\ tx_in + n' <= BufLen
      /\ Dist(tx_out, tx_in) + n' <= BufLen - 1
      /\ n' \in 0..(BufLen - 1)
      /\ n' = 0 <=> Space(tx_in, tx_out) = 0
  BY <1>1, <1>2, <1>3, <1>4, JtagAssumption DEF Least
<1>6. Dist(tx_out, tx_in)' = Dist(tx_out, tx_in)
  BY <1>1 DEF Dist
<1>7. CallInv'
  BY <1>1, <1>2, <1>3, <1>4, <1>5, <1>6 DEF CallInv, Writing, Reading
<1>8. /\ WE' \in BOOLEAN /\ any' = FALSE /\ count' \in Nat /\ seen' \in Index
      /\ copied' = 0
  BY <1>1, <1>2 DEF JtagTypeOK
<1> QED
  BY <1>1, <1>5, <1>7, <1>8, WriteIdles

LEMMA WriteCopyKeeps == JtagInv /\ WriteCopy => JtagInv'
<1> SUFFICES ASSUME JtagInv, WriteCopy PROVE JtagInv'
  OBVIOUS
<1>1. /\ JtagTypeOK /\ CallInv /\ TxHeld /\ pc = "wcopy"
      /\ tx_buf' = [tx_buf EXCEPT ![tx_in + copied] = put + 1]
      /\ put' = put + 1 /\ copied' = copied + 1
      /\ pc' = IF copied + 1 = n THEN "wadvance" ELSE "wcopy"
      /\ UNCHANGED <<WE, tx_in, count, seen, n, any>>
      /\ UNCHANGED untouchedByWrite /\ UNCHANGED <<tx_out, txfifo, taken>>
  BY DEF JtagInv, WriteCopy, untouchedByWrite
<1> DEFINE d == Dist(tx_out, tx_in)
           i == tx_in + copied
<1>2. /\ copied < n /\ n <= count /\ any = FALSE /\ put + count - copied <= Chars
      /\ tx_in + n <= BufLen /\ d + n <= BufLen - 1
  BY <1>1 DEF CallInv, Writing, Reading, JtagTypeOK
<1>3. /\ d \in Nat /\ copied \in Nat /\ n \in Nat /\ count \in Nat /\ put \in Nat /\ taken \in Nat
      /\ Len(txfifo) \in Nat /\ tx_in \in Index /\ tx_out \in Index /\ tx_in \in Nat
      /\ n <= BufLen - 1
  <2>1. tx_in \in Index /\ tx_out \in Index
    BY <1>1, Numbers
  <2>2. tx_in \in Nat
    BY <2>1, JtagAssumption DEF Index
  <2> QED
    BY <1>1, <2>1, <2>2, Numbers, DistRange
<1>4. put = taken + Len(txfifo) + d + copied
  BY <1>1 DEF TxHeld, Added
<1>5. Added' = copied + 1 /\ Added = copied
  BY <1>1 DEF Added
<1> HIDE DEF d
<1>6. i \in Index /\ Wrap(i) = i
  BY <1>2, <1>3, JtagAssumption DEF Index, Wrap
<1>7. Dist(tx_out, i) = d + copied
  <2>1. Dist(tx_out, Wrap(tx_in + copied)) = d + copied
    BY <1>2, <1>3, DistTo, JtagAssumption DEF d
  <2> QED
    BY <1>6, <2>1
<1> HIDE DEF i
<1>8. \A j \in Index : tx_buf'[j] = IF j = i THEN put + 1 ELSE tx_buf[j]
  BY <1>1 DEF JtagTypeOK, i
<1>9. put' \in 0..Chars /\ put + 1 \in 0..Chars
  BY <1>1, <1>2, <1>3, JtagAssumption
<1>10. tx_buf' \in [Index -> 0..Chars]
  BY <1>1, <1>9 DEF JtagTypeOK
<1>11. AlarmInv' /\ JtagTypeOK' /\ RxHeld' /\ RxNotDeaf'
  <2>1. pc \notin Reading /\ pc' \notin Reading
    BY <1>1 DEF Reading
  <2>2. /\ count' \in Nat /\ seen' \in Index /\ n' \in 0..(BufLen - 1) /\ copied' \in 0..n'
        /\ any' = FALSE /\ WE' \in BOOLEAN /\ tx_in' \in Index
        /\ pc' \in {"idle", "wlook", "wcopy", "wadvance", "wenable", "wwait", "close"}
    BY <1>1, <1>2, <1>3 DEF JtagTypeOK
  <2> QED
    BY <1>1, <1>9, <1>10, <2>1, <2>2, WriteSide
<1>12. Dist(tx_out, tx_in)' = d
  BY <1>1 DEF Dist, d
<1>13. CallInv'
  BY <1>1, <1>2, <1>3, <1>12 DEF CallInv, Writing, Reading
<1>14. TxHeld'
  <2>1. put + 1 = taken + Len(txfifo) + d + (copied + 1)
    BY <1>3, <1>4
  <2>2. ASSUME NEW j \in Index, Dist(tx_out, j) < d + (copied + 1)
        PROVE  tx_buf'[j] = taken + Len(txfifo) + Dist(tx_out, j) + 1
    <3>1. CASE j = i
      BY <1>3, <1>4, <1>7, <1>8, <3>1
    <3>2. CASE j # i
      <4>1. Dist(tx_out, j) # d + copied
        BY <1>3, <1>6, <1>7, <3>2, DistSame
      <4>2. Dist(tx_out, j) \in Nat
        BY <1>3, DistRange
      <4>3. Dist(tx_out, j) < d + copied
        BY <1>3, <2>2, <4>1, <4>2
      <4> QED
        BY <1>1, <1>5, <1>8, <3>2, <4>3 DEF TxHeld, d
    <3> QED
      BY <3>1, <3>2
  <2>3. \A k \in 1..Len(txfifo) : txfifo[k] = taken + k
    BY <1>1 DEF TxHeld
  <2>4. \A j \in Index : Dist(tx_out, j)' = Dist(tx_out, j)
    BY <1>1 DEF Dist
  <2> QED
    BY <1>1, <1>5, <1>12, <2>1, <2>2, <2>3, <2>4 DEF TxHeld
<1>15. TxNotStuck'
  BY <1>1 DEF TxNotStuck
<1> QED
  BY <1>11, <1>13, <1>14, <1>15 DEF JtagInv

LEMMA WriteAdvanceKeeps == JtagInv /\ WriteAdvance => JtagInv'
<1> SUFFICES ASSUME JtagInv, WriteAdvance PROVE JtagInv'
  OBVIOUS
<1>1. /\ JtagTypeOK /\ CallInv /\ TxHeld /\ pc = "wadvance"
      /\ tx_in' = Wrap(tx_in + n) /\ count' = count - n
      /\ pc' = IF count - n = 0 THEN "wenable" ELSE "wlook"
      /\ seen' = 0 /\ n' = 0 /\ copied' = 0
      /\ UNCHANGED <<WE, tx_buf, any, put>>
      /\ UNCHANGED untouchedByWrite /\ UNCHANGED <<tx_out, txfifo, taken>>
  BY DEF JtagInv, WriteAdvance, untouchedByWrite
<1> DEFINE d == Dist(tx_out, tx_in)
<1>2. /\ copied = n /\ n <= count /\ any = FALSE /\ put + count - copied <= Chars
      /\ d + n <= BufLen - 1
  BY <1>1 DEF CallInv, Writing, Reading, JtagTypeOK
<1>3. /\ d \in Nat /\ n \in Nat /\ count \in Nat /\ put \in Nat /\ taken \in Nat
      /\ Len(txfifo) \in Nat /\ tx_in \in Index /\ tx_out \in Index
  BY <1>1, Numbers, DistRange
<1>4. Added' = 0 /\ Added = n
  BY <1>1, <1>2 DEF Added
<1> HIDE DEF d
<1>5. tx_in' \in Index /\ Dist(tx_out, tx_in') = d + n
  BY <1>1, <1>2, <1>3, DistTo DEF d
<1>6. AlarmInv' /\ JtagTypeOK' /\ RxHeld' /\ RxNotDeaf'
  <2>1. pc \notin Reading /\ pc' \notin Reading
    BY <1>1 DEF Reading
  <2>2. /\ count' \in Nat /\ seen' \in Index /\ n' \in 0..(BufLen - 1) /\ copied' \in 0..n'
        /\ any' = FALSE /\ WE' \in BOOLEAN /\ put' \in 0..Chars
        /\ tx_buf' \in [Index -> 0..Chars]
        /\ pc' \in {"idle", "wlook", "wcopy", "wadvance", "wenable", "wwait", "close"}
    BY <1>1, <1>2, <1>3, JtagAssumption DEF JtagTypeOK, Index
  <2> QED
    BY <1>1, <1>5, <2>1, <2>2, WriteSide
<1>7. CallInv'
  BY <1>1, <1>2, <1>3 DEF CallInv, Writing, Reading
<1>8. TxHeld'
  <2>1. put = taken + Len(txfifo) + (d + n) + 0
    BY <1>1, <1>3, <1>4 DEF TxHeld, d
  <2>2. Dist(tx_out, tx_in)' = d + n
    BY <1>1, <1>5 DEF Dist
  <2>3. (d + n) + 0 = d + n
    BY <1>3
  <2>4. \A j \in Index : Dist(tx_out, j)' = Dist(tx_out, j)
    BY <1>1 DEF Dist
  <2>5. \A j \in Index : Dist(tx_out, j) < d + n =>
          tx_buf[j] = taken + Len(txfifo) + Dist(tx_out, j) + 1
    BY <1>1, <1>4 DEF TxHeld, d
  <2>6. \A k \in 1..Len(txfifo) : txfifo[k] = taken + k
    BY <1>1 DEF TxHeld
  <2> QED
    BY <1>1, <1>4, <2>1, <2>2, <2>3, <2>4, <2>5, <2>6 DEF TxHeld
<1>9. TxNotStuck'
  BY <1>1 DEF TxNotStuck
<1> QED
  BY <1>6, <1>7, <1>8, <1>9 DEF JtagInv

LEMMA WriteEnableKeeps == JtagInv /\ WriteEnable => JtagInv'
<1> SUFFICES ASSUME JtagInv, WriteEnable PROVE JtagInv'
  OBVIOUS
<1>1. /\ JtagTypeOK /\ CallInv /\ pc = "wenable" /\ WE' = TRUE
      /\ (count > 0 /\ Goto("wwait")) \/ Goto("idle")
      /\ UNCHANGED <<tx_buf, tx_in, put>> /\ UNCHANGED untouchedByWrite
  BY DEF JtagInv, WriteEnable, Kick
<1>2. n = 0 /\ copied = 0 /\ any = FALSE /\ put + count - copied <= Chars
  BY <1>1, Numbers DEF CallInv, Writing, Reading, JtagTypeOK
<1>3. /\ pc' \in {"idle", "wwait"} /\ any' = FALSE /\ n' = 0 /\ copied' = 0
      /\ count' \in Nat /\ seen' \in Index
      /\ pc' = "wwait" => count' = count /\ count > 0
  BY <1>1, <1>2, JtagAssumption DEF Goto, callVars, JtagTypeOK, Index
<1>4. CallInv'
  BY <1>1, <1>2, <1>3 DEF CallInv, Writing, Reading
<1>5. WE' \in BOOLEAN
  BY <1>1
<1>6. n' \in 0..(BufLen - 1)
  BY <1>3, JtagAssumption
<1> QED
  BY <1>1, <1>3, <1>4, <1>5, <1>6, WriteIdles

LEMMA WriteWaitKeeps == JtagInv /\ WriteWait => JtagInv'
<1> SUFFICES ASSUME JtagInv, WriteWait PROVE JtagInv'
  OBVIOUS
<1>1. /\ JtagTypeOK /\ CallInv /\ pc = "wwait" /\ UNCHANGED WE
      /\ Goto(IF host_inactive # 0 THEN "idle" ELSE "wlook")
      /\ UNCHANGED <<tx_buf, tx_in, put>> /\ UNCHANGED untouchedByWrite
  BY DEF JtagInv, WriteWait
<1>2. n = 0 /\ copied = 0 /\ any = FALSE /\ put + count - copied <= Chars /\ count > 0
  BY <1>1, Numbers DEF CallInv, Writing, Reading, JtagTypeOK
<1>3. /\ pc' \in {"idle", "wlook"} /\ any' = FALSE /\ n' = 0 /\ copied' = 0
      /\ count' \in Nat /\ seen' \in Index
      /\ pc' = "wlook" => count' = count
  BY <1>1, <1>2, JtagAssumption DEF Goto, callVars, JtagTypeOK, Index
<1>4. CallInv'
  BY <1>1, <1>2, <1>3 DEF CallInv, Writing, Reading
<1>5. WE' \in BOOLEAN /\ n' \in 0..(BufLen - 1)
  BY <1>1, <1>3, JtagAssumption DEF JtagTypeOK
<1> QED
  BY <1>1, <1>3, <1>4, <1>5, WriteIdles

LEMMA CloseKeeps == JtagInv /\ (Close \/ CloseWait) => JtagInv'
<1> SUFFICES ASSUME JtagInv, Close \/ CloseWait PROVE JtagInv'
  OBVIOUS
<1>1. /\ JtagTypeOK /\ CallInv /\ pc \in {"idle", "close"} /\ UNCHANGED WE
      /\ (pc' = "close" /\ UNCHANGED callVars) \/ Goto("idle")
      /\ UNCHANGED <<tx_buf, tx_in, put>> /\ UNCHANGED untouchedByWrite
  BY DEF JtagInv, Close, CloseWait
<1>2. n = 0 /\ copied = 0 /\ any = FALSE
  <2>1. pc \notin Reading
    BY <1>1 DEF Reading
  <2>2. n = 0 /\ copied = 0
    BY <1>1, Numbers DEF CallInv
  <2> QED
    BY <1>1, <2>1, <2>2 DEF CallInv, JtagTypeOK
<1>3. /\ pc' \in {"idle", "close"} /\ any' = FALSE /\ n' = 0 /\ copied' = 0
      /\ count' \in Nat /\ seen' \in Index
  BY <1>1, <1>2, JtagAssumption DEF Goto, callVars, JtagTypeOK, Index
<1>4. CallInv'
  BY <1>1, <1>2, <1>3 DEF CallInv, Writing, Reading
<1>5. WE' \in BOOLEAN /\ n' \in 0..(BufLen - 1)
  BY <1>1, <1>3, JtagAssumption DEF JtagTypeOK
<1> QED
  BY <1>1, <1>3, <1>4, <1>5, WriteIdles

-----------------------------------------------------------------------------
(* The program reads.                                                      *)

LEMMA Within ==
  ASSUME NEW a \in Nat, NEW b \in Nat, NEW c \in Nat, NEW l \in Nat, b <= c, a + c <= l
  PROVE  a + b <= l
  OBVIOUS

LEMMA HeldFits ==
  ASSUME NEW in \in Index, NEW out \in Index
  PROVE  /\ Held(in, out) \in Nat
         /\ out + Held(in, out) <= BufLen
         /\ Held(in, out) <= Dist(out, in)
         /\ Held(in, out) = 0 => in = out
  BY JtagAssumption DEF Held, Dist, Index

(* What no read touches.                                                   *)
LEMMA ReadSide ==
  ASSUME JtagInv, UNCHANGED untouchedByRead,
         pc \notin Writing, pc' \notin Writing,
         any' \in BOOLEAN, RE' \in BOOLEAN, rx_out' \in Index,
         pc' \in {"idle", "rlook", "rcopy", "radvance", "renable", "rwait"},
         count' \in Nat, seen' \in Index, n' \in 0..(BufLen - 1), copied' \in 0..n',
         read' \in 0..Keys
  PROVE  AlarmInv' /\ JtagTypeOK' /\ TxHeld' /\ TxNotStuck'
<1>1. /\ AlarmInv /\ JtagTypeOK /\ TxHeld /\ TxNotStuck
      /\ UNCHANGED <<alt_nticks, time, rollover, due, AC, txfifo, rxfifo, WE, gone,
                     tx_buf, tx_in, tx_out, rx_buf, rx_in, host_inactive, put, taken, typed>>
  BY DEF JtagInv, untouchedByRead, alarmVars, txVars
<1>2. AlarmInv'
  BY <1>1 DEF AlarmInv, AlarmTypeOK
<1>3. JtagTypeOK'
  BY <1>1 DEF JtagTypeOK, AlarmTypeOK
<1>4. Added' = Added
  BY DEF Added, Writing
<1>5. TxHeld'
  BY <1>1, <1>4 DEF TxHeld, Dist
<1>6. TxNotStuck'
  BY <1>1 DEF TxNotStuck, Writing
<1> QED
  BY <1>2, <1>3, <1>5, <1>6

(* The steps that move no character and no index.                          *)
LEMMA ReadIdles ==
  ASSUME JtagInv, UNCHANGED untouchedByRead, UNCHANGED <<rx_out, read>>,
         pc \in {"idle", "rlook", "renable", "rwait"},
         pc' \in {"idle", "rlook", "rcopy", "renable", "rwait"},
         RE' \in BOOLEAN, any' \in BOOLEAN,
         count' \in Nat, seen' \in Index, n' \in 0..(BufLen - 1), copied' = 0,
         CallInv', RxNotDeaf'
  PROVE  JtagInv'
<1>1. AlarmInv' /\ JtagTypeOK' /\ TxHeld' /\ TxNotStuck'
  <2>1. rx_out' \in Index /\ read' \in 0..Keys
    BY DEF JtagInv, JtagTypeOK
  <2>2. pc \notin Writing /\ pc' \notin Writing
    BY DEF Writing
  <2>3. copied' \in 0..n'
    OBVIOUS
  <2>4. pc' \in {"idle", "rlook", "rcopy", "radvance", "renable", "rwait"}
    OBVIOUS
  <2> QED
    BY <2>1, <2>2, <2>3, <2>4, ReadSide
<1>2. RxHeld'
  <2>1. Gone' = 0 /\ Gone = 0
    BY DEF Gone
  <2> QED
    BY <2>1 DEF JtagInv, RxHeld, Dist, untouchedByRead
<1> QED
  BY <1>1, <1>2 DEF JtagInv

LEMMA ReadKeeps == JtagInv /\ Read => JtagInv'
<1> SUFFICES ASSUME JtagInv, Read PROVE JtagInv'
  OBVIOUS
<1>1. /\ JtagTypeOK /\ CallInv /\ RxNotDeaf /\ pc = "idle" /\ pc' = "rlook"
      /\ count' \in 1..Keys
      /\ UNCHANGED <<RE, rx_out, seen, n, copied, any, read>>
      /\ UNCHANGED untouchedByRead /\ UNCHANGED rx_in
  BY DEF JtagInv, Read, untouchedByRead
<1>2. n = 0 /\ copied = 0
  BY <1>1, Numbers DEF CallInv
<1>3. CallInv'
  BY <1>1, <1>2, JtagAssumption DEF CallInv, Writing, Reading
<1>4. /\ RE' \in BOOLEAN /\ any' \in BOOLEAN /\ count' \in Nat /\ seen' \in Index
      /\ n' \in 0..(BufLen - 1) /\ copied' = 0
  BY <1>1, <1>2, JtagAssumption DEF JtagTypeOK
<1>5. RxNotDeaf'
  BY <1>1 DEF RxNotDeaf
<1> QED
  BY <1>1, <1>3, <1>4, <1>5, ReadIdles

LEMMA ReadLookKeeps == JtagInv /\ ReadLook => JtagInv'
<1> SUFFICES ASSUME JtagInv, ReadLook PROVE JtagInv'
  OBVIOUS
<1>1. /\ JtagTypeOK /\ CallInv /\ RxNotDeaf /\ pc = "rlook"
      /\ UNCHANGED <<RE, rx_out, read>>
      /\ UNCHANGED untouchedByRead /\ UNCHANGED rx_in
  BY DEF JtagInv, ReadLook, untouchedByRead
<1>2. n = 0 /\ copied = 0 /\ count > 0 /\ count \in Nat /\ any \in BOOLEAN
  BY <1>1, Numbers DEF CallInv, JtagTypeOK
<1>3. /\ Held(rx_in, rx_out) \in Nat /\ rx_out + Held(rx_in, rx_out) <= BufLen
      /\ Held(rx_in, rx_out) <= Dist(rx_out, rx_in)
      /\ Held(rx_in, rx_out) = 0 => rx_in = rx_out
      /\ rx_in = rx_out => Held(rx_in, rx_out) = 0
      /\ rx_in \in Index /\ rx_out \in Index
      /\ Dist(rx_out, rx_in) \in Nat /\ Dist(rx_out, rx_in) <= BufLen - 1
  <2>1. rx_in \in Index /\ rx_out \in Index
    BY <1>1, Numbers
  <2>2. rx_in = rx_out => Held(rx_in, rx_out) = 0
    BY <2>1, JtagAssumption DEF Held, Index
  <2> QED
    BY <2>1, <2>2, HeldFits, DistRange
<1>4. Dist(rx_out, rx_in)' = Dist(rx_out, rx_in)
  BY <1>1 DEF Dist
<1>5. CASE /\ seen' = rx_in
           /\ n' = Least(Held(rx_in, rx_out), count)
           /\ pc' = IF Held(rx_in, rx_out) > 0 THEN "rcopy"
                    ELSE IF any THEN "renable" ELSE "rwait"
           /\ UNCHANGED <<count, copied, any>>
  <2>1. rx_out \in Nat
    BY <1>3, JtagAssumption DEF Index
  <2>2. /\ n' \in Nat /\ n' <= Held(rx_in, rx_out) /\ n' <= count
        /\ n' = 0 <=> Held(rx_in, rx_out) = 0
    BY <1>2, <1>3, <1>5 DEF Least
  <2>3. /\ n' \in 0..(BufLen - 1) /\ n' <= Dist(rx_out, rx_in) /\ rx_out + n' <= BufLen
    <3>1. n' <= Dist(rx_out, rx_in)
      BY <1>3, <2>2
    <3>2. rx_out + n' <= BufLen
      <4>1. /\ Held(rx_in, rx_out) \in Nat /\ rx_out + Held(rx_in, rx_out) <= BufLen
            /\ n' \in Nat /\ n' <= Held(rx_in, rx_out)
        BY <1>3, <2>2
      <4> QED
        BY <2>1, <4>1, Within, JtagAssumption
    <3> QED
      BY <1>3, <2>2, <3>1, <3>2, JtagAssumption
  <2>4. pc' \in {"rcopy", "renable", "rwait"}
    BY <1>5
  <2>5. /\ pc' = "rcopy" => n' > 0
        /\ pc' \in {"renable", "rwait"} => n' = 0
    BY <1>3, <1>5, <2>2
  <2>6. pc' = "renable" => any'
    BY <1>3, <1>5
  <2>7. CallInv'
    BY <1>1, <1>2, <1>4, <1>5, <2>2, <2>3, <2>4, <2>5, <2>6 DEF CallInv, Writing, Reading
  <2>8. RxNotDeaf'
    <3>1. ~RE => rx_in # rx_out \/ any
      BY <1>1 DEF RxNotDeaf
    <3>2. rx_in # rx_out => pc' = "rcopy"
      BY <1>3, <1>5
    <3> QED
      BY <1>1, <1>5, <2>4, <3>1, <3>2, <1>3 DEF RxNotDeaf
  <2>9. RE' \in BOOLEAN /\ any' \in BOOLEAN /\ count' \in Nat /\ seen' \in Index /\ copied' = 0
    BY <1>1, <1>2, <1>3, <1>5 DEF JtagTypeOK
  <2> QED
    BY <1>1, <2>3, <2>4, <2>7, <2>8, <2>9, ReadIdles
<1>6. CASE Held(rx_in, rx_out) = 0 /\ ~any /\ Goto("idle")
  <2>1. /\ pc' = "idle" /\ count' = 0 /\ seen' = 0 /\ n' = 0 /\ copied' = 0 /\ any' = FALSE
    BY <1>6 DEF Goto
  <2>2. CallInv'
    BY <2>1 DEF CallInv, Writing, Reading
  <2>3. RxNotDeaf'
    BY <1>1, <1>3, <1>6 DEF RxNotDeaf
  <2>4. RE' \in BOOLEAN /\ count' \in Nat /\ seen' \in Index /\ n' \in 0..(BufLen - 1)
    BY <1>1, <2>1, JtagAssumption DEF JtagTypeOK, Index
  <2>5. any' \in BOOLEAN
    BY <2>1
  <2>6. pc' \in {"idle", "rlook", "rcopy", "renable", "rwait"}
    BY <2>1
  <2> QED
    BY <1>1, <2>1, <2>2, <2>3, <2>4, <2>5, <2>6, ReadIdles
<1> QED
  BY <1>5, <1>6 DEF ReadLook

LEMMA ReadCopyKeeps == JtagInv /\ ReadCopy => JtagInv'
<1> SUFFICES ASSUME JtagInv, ReadCopy PROVE JtagInv'
  OBVIOUS
<1>1. /\ JtagTypeOK /\ CallInv /\ RxHeld /\ RxNotDeaf /\ pc = "rcopy"
      /\ read' = rx_buf[rx_out + copied] /\ copied' = copied + 1
      /\ pc' = IF copied + 1 = n THEN "radvance" ELSE "rcopy"
      /\ UNCHANGED <<RE, rx_out, count, seen, n, any>>
      /\ UNCHANGED untouchedByRead /\ UNCHANGED <<rx_buf, rx_in, rxfifo, typed, put>>
  BY DEF JtagInv, ReadCopy, untouchedByRead
<1> DEFINE d == Dist(rx_out, rx_in)
           i == rx_out + copied
<1>2. copied < n /\ n <= count /\ rx_out + n <= BufLen /\ n <= d
  BY <1>1 DEF CallInv
<1>3. /\ d \in Nat /\ copied \in Nat /\ n \in Nat /\ count \in Nat /\ typed \in Nat /\ read \in Nat
      /\ Len(rxfifo) \in Nat /\ rx_in \in Index /\ rx_out \in Index /\ rx_out \in Nat
      /\ d <= BufLen - 1 /\ typed <= Keys
  <2>1. rx_in \in Index /\ rx_out \in Index
    BY <1>1, Numbers
  <2>2. rx_out \in Nat
    BY <2>1, JtagAssumption DEF Index
  <2> QED
    BY <1>1, <2>1, <2>2, Numbers, DistRange
<1>4. Gone = copied /\ Gone' = copied + 1
  BY <1>1 DEF Gone
<1>5. typed = read - copied + d + Len(rxfifo) /\ read >= copied
  BY <1>1, <1>4 DEF RxHeld
<1> HIDE DEF d
<1>6. i \in Index /\ Dist(rx_out, i) = copied
  <2>1. copied \in Index /\ Wrap(i) = i
    BY <1>2, <1>3, JtagAssumption DEF Index, Wrap
  <2> QED
    BY <1>3, <2>1, WrapRange
<1>7. read' = read + 1
  <2>1. rx_buf[i] = read - copied + Dist(rx_out, i) + 1
    BY <1>1, <1>2, <1>3, <1>4, <1>6 DEF RxHeld, d
  <2> QED
    BY <1>1, <1>3, <1>6, <2>1
<1>8. read' \in 0..Keys
  BY <1>2, <1>3, <1>5, <1>7, JtagAssumption
<1>9. AlarmInv' /\ JtagTypeOK' /\ TxHeld' /\ TxNotStuck'
  <2>1. pc \notin Writing /\ pc' \notin Writing
    BY <1>1 DEF Writing
  <2>2. /\ any' \in BOOLEAN /\ RE' \in BOOLEAN /\ rx_out' \in Index
        /\ pc' \in {"idle", "rlook", "rcopy", "radvance", "renable", "rwait"}
        /\ count' \in Nat /\ seen' \in Index /\ n' \in 0..(BufLen - 1) /\ copied' \in 0..n'
    BY <1>1, <1>2, <1>3 DEF JtagTypeOK
  <2> QED
    BY <1>1, <1>8, <2>1, <2>2, ReadSide
<1>10. Dist(rx_out, rx_in)' = d
  BY <1>1 DEF Dist, d
<1>11. CallInv'
  BY <1>1, <1>2, <1>3, <1>10 DEF CallInv, Writing, Reading
<1>12. RxHeld'
  <2>1. read + 1 - (copied + 1) = read - copied
    BY <1>3
  <2>2. (\A j \in Index : Dist(rx_out, j) < Dist(rx_out, rx_in) =>
           rx_buf[j] = read - Gone + Dist(rx_out, j) + 1)'
    <3>1. read' - Gone' = read - Gone
      BY <1>3, <1>4, <1>7
    <3> QED
      BY <1>1, <3>1 DEF RxHeld, Dist
  <2>3. read' >= Gone'
    BY <1>3, <1>4, <1>5, <1>7
  <2>4. \A k \in 1..Len(rxfifo) : rxfifo[k] = typed - Len(rxfifo) + k
    BY <1>1 DEF RxHeld
  <2>5. typed' = read' - Gone' + Dist(rx_out, rx_in)' + Len(rxfifo')
    <3>1. read' - Gone' = read - copied
      BY <1>3, <1>4, <1>7
    <3> QED
      BY <1>1, <1>5, <1>10, <3>1
  <2> QED
    BY <1>1, <2>2, <2>3, <2>4, <2>5 DEF RxHeld
<1>13. RxNotDeaf'
  BY <1>1 DEF RxNotDeaf
<1> QED
  BY <1>9, <1>11, <1>12, <1>13 DEF JtagInv

LEMMA ReadAdvanceKeeps == JtagInv /\ ReadAdvance => JtagInv'
<1> SUFFICES ASSUME JtagInv, ReadAdvance PROVE JtagInv'
  OBVIOUS
<1>1. /\ JtagTypeOK /\ CallInv /\ RxHeld /\ pc = "radvance"
      /\ rx_out' = Wrap(rx_out + n) /\ count' = count - n /\ any' = TRUE
      /\ pc' = IF count - n = 0 THEN "renable" ELSE "rlook"
      /\ seen' = 0 /\ n' = 0 /\ copied' = 0
      /\ UNCHANGED <<RE, read>>
      /\ UNCHANGED untouchedByRead /\ UNCHANGED <<rx_buf, rx_in, rxfifo, typed, put>>
  BY DEF JtagInv, ReadAdvance, untouchedByRead
<1> DEFINE d == Dist(rx_out, rx_in)
<1>2. copied = n /\ n <= count /\ n <= d
  BY <1>1 DEF CallInv
<1>3. /\ d \in Nat /\ n \in Nat /\ count \in Nat /\ typed \in Nat /\ read \in Nat
      /\ Len(rxfifo) \in Nat /\ rx_in \in Index /\ rx_out \in Index
      /\ d <= BufLen - 1 /\ n <= BufLen - 1
  BY <1>1, Numbers, DistRange
<1>4. Gone = n /\ Gone' = 0
  BY <1>1, <1>2 DEF Gone
<1>5. typed = read - n + d + Len(rxfifo) /\ read >= n
  BY <1>1, <1>4 DEF RxHeld
<1> HIDE DEF d
<1>6. /\ rx_out' \in Index /\ Dist(rx_out', rx_in) = d - n
      /\ Dist(rx_out, rx_out') = n
  <2>1. n \in Index
    BY <1>3, JtagAssumption DEF Index
  <2> QED
    BY <1>1, <1>2, <1>3, <2>1, DistFrom, WrapRange DEF d
<1>7. AlarmInv' /\ JtagTypeOK' /\ TxHeld' /\ TxNotStuck'
  <2>1. pc \notin Writing /\ pc' \notin Writing
    BY <1>1 DEF Writing
  <2>2. /\ any' \in BOOLEAN /\ RE' \in BOOLEAN /\ read' \in 0..Keys
        /\ pc' \in {"idle", "rlook", "rcopy", "radvance", "renable", "rwait"}
    BY <1>1 DEF JtagTypeOK
  <2>3. /\ count' \in Nat /\ seen' \in Index /\ n' \in 0..(BufLen - 1) /\ copied' \in 0..n'
    BY <1>1, <1>2, <1>3, JtagAssumption DEF Index
  <2> QED
    BY <1>1, <1>6, <2>1, <2>2, <2>3, ReadSide
<1>8. CallInv'
  BY <1>1, <1>2, <1>3 DEF CallInv, Writing, Reading
<1>9. RxHeld'
  <2>1. Dist(rx_out, rx_in)' = d - n
    BY <1>1, <1>6 DEF Dist
  <2>2. typed = read - 0 + (d - n) + Len(rxfifo)
    BY <1>3, <1>5
  <2>3. ASSUME NEW j \in Index, Dist(rx_out', j) < d - n
        PROVE  rx_buf[j] = read - 0 + Dist(rx_out', j) + 1
    <3>1. /\ Dist(rx_out, j) \in Nat /\ Dist(rx_out, j) <= BufLen - 1
          /\ Dist(rx_out', j) \in Nat
          /\ Dist(rx_out', j) = IF Dist(rx_out, j) >= n THEN Dist(rx_out, j) - n
                                ELSE Dist(rx_out, j) - n + BufLen
      BY <1>3, <1>6, DistRange, DistVia
    <3>2. Dist(rx_out, j) >= n /\ Dist(rx_out, j) < d
      BY <1>2, <1>3, <2>3, <3>1, JtagAssumption
    <3>3. rx_buf[j] = read - n + Dist(rx_out, j) + 1
      BY <1>1, <1>4, <3>2 DEF RxHeld, d
    <3> QED
      BY <1>3, <3>1, <3>2, <3>3
  <2>4. \A j \in Index : Dist(rx_out, j)' = Dist(rx_out', j)
    BY DEF Dist
  <2>5. \A k \in 1..Len(rxfifo) : rxfifo[k] = typed - Len(rxfifo) + k
    BY <1>1 DEF RxHeld
  <2>6. read' >= Gone'
    BY <1>1, <1>3, <1>4
  <2> QED
    BY <1>1, <1>4, <2>1, <2>2, <2>3, <2>4, <2>5, <2>6 DEF RxHeld
<1>10. RxNotDeaf'
  BY <1>1 DEF RxNotDeaf
<1> QED
  BY <1>7, <1>8, <1>9, <1>10 DEF JtagInv

LEMMA ReadEnableKeeps == JtagInv /\ ReadEnable => JtagInv'
<1> SUFFICES ASSUME JtagInv, ReadEnable PROVE JtagInv'
  OBVIOUS
<1>1. /\ pc = "renable" /\ RE' = TRUE
      /\ pc' = "idle" /\ count' = 0 /\ seen' = 0 /\ n' = 0 /\ copied' = 0 /\ any' = FALSE
      /\ UNCHANGED <<rx_out, read>> /\ UNCHANGED untouchedByRead
  BY DEF ReadEnable, ReadOn, Goto
<1>2. CallInv'
  BY <1>1 DEF CallInv, Writing, Reading
<1>3. RxNotDeaf'
  BY <1>1 DEF RxNotDeaf
<1>4. count' \in Nat /\ seen' \in Index /\ n' \in 0..(BufLen - 1)
  BY <1>1, JtagAssumption DEF Index
<1>5. RE' \in BOOLEAN
  BY <1>1
<1>6. any' \in BOOLEAN
  BY <1>1
<1> QED
  BY <1>1, <1>2, <1>3, <1>4, <1>5, <1>6, ReadIdles

LEMMA ReadWaitKeeps == JtagInv /\ ReadWait => JtagInv'
<1> SUFFICES ASSUME JtagInv, ReadWait PROVE JtagInv'
  OBVIOUS
<1>1. /\ JtagTypeOK /\ CallInv /\ RxNotDeaf /\ pc = "rwait"
      /\ Goto(IF seen = rx_in THEN "idle" ELSE "rlook")
      /\ UNCHANGED <<RE, rx_out, read>> /\ UNCHANGED untouchedByRead /\ UNCHANGED rx_in
  BY DEF JtagInv, ReadWait, untouchedByRead
<1>2. n = 0 /\ copied = 0 /\ count > 0
  BY <1>1, Numbers DEF CallInv
<1>3. /\ pc' \in {"idle", "rlook"} /\ n' = 0 /\ copied' = 0 /\ count' \in Nat /\ seen' \in Index
      /\ pc' = "rlook" => count' = count
  BY <1>1, <1>2, JtagAssumption DEF Goto, callVars, JtagTypeOK, Index
<1>4. any' \in BOOLEAN /\ (pc' = "idle" => ~any')
  <2>1. CASE seen = rx_in
    BY <1>1, <2>1 DEF Goto
  <2>2. CASE seen # rx_in
    BY <1>1, <2>2 DEF Goto, callVars, JtagTypeOK
  <2> QED
    BY <2>1, <2>2
<1>5. CallInv'
  BY <1>2, <1>3, <1>4 DEF CallInv, Writing, Reading
<1>6. RxNotDeaf'
  BY <1>1 DEF RxNotDeaf
<1>7. RE' \in BOOLEAN /\ n' \in 0..(BufLen - 1)
  BY <1>1, <1>3, JtagAssumption DEF JtagTypeOK
<1> QED
  BY <1>1, <1>3, <1>4, <1>5, <1>6, <1>7, ReadIdles

-----------------------------------------------------------------------------
LEMMA JtagInvNext == JtagInv /\ [JtagNext]_uartVars => JtagInv'
<1> SUFFICES ASSUME JtagInv, [JtagNext]_uartVars PROVE JtagInv'
  OBVIOUS
<1>1. CASE HostTake \/ HostType \/ HostLeaves
  BY <1>1, HostTakeKeeps, HostTypeKeeps, HostLeavesKeeps
<1>2. CASE Isr \/ Tick
  BY <1>2, IsrKeeps, TickKeeps
<1>3. CASE Write \/ Close \/ CloseWait
  BY <1>3, WriteKeeps, CloseKeeps
<1>4. CASE WriteLook \/ WriteCopy \/ WriteAdvance \/ WriteEnable \/ WriteWait
  BY <1>4, WriteLookKeeps, WriteCopyKeeps, WriteAdvanceKeeps, WriteEnableKeeps, WriteWaitKeeps
<1>5. CASE Read \/ ReadLook \/ ReadCopy \/ ReadAdvance \/ ReadEnable \/ ReadWait
  BY <1>5, ReadKeeps, ReadLookKeeps, ReadCopyKeeps, ReadAdvanceKeeps, ReadEnableKeeps, ReadWaitKeeps
<1>6. CASE UNCHANGED uartVars
  <2>1. UNCHANGED <<alt_nticks, time, rollover, due, WE, RE, AC, txfifo, rxfifo, gone,
                    tx_buf, tx_in, tx_out, rx_buf, rx_in, rx_out, host_inactive, pc,
                    count, seen, n, copied, any, put, taken, typed, read>>
    BY <1>6 DEF uartVars, alarmVars, txVars, rxVars, callVars
  <2>2. (AlarmInv /\ JtagTypeOK)'
    BY <2>1 DEF JtagInv, AlarmInv, AlarmTypeOK, JtagTypeOK
  <2>3. (CallInv /\ TxHeld /\ RxHeld)'
    BY <2>1 DEF JtagInv, CallInv, TxHeld, RxHeld, Added, Gone, Dist
  <2>4. (TxNotStuck /\ RxNotDeaf)'
    BY <2>1 DEF JtagInv, TxNotStuck, RxNotDeaf
  <2> QED
    BY <2>2, <2>3, <2>4 DEF JtagInv
<1> QED
  BY <1>1, <1>2, <1>3, <1>4, <1>5, <1>6 DEF JtagNext, Call

(* The clock, the rings, the FIFOs and the calls stay consistent: what is  *)
(* between the indices is what has been written or typed and not yet moved *)
(* on, whichever step of a call the interrupt comes between.               *)
THEOREM JtagInvAlways == JtagSpec => []JtagInv
<1>1. JtagSpec => JtagInit /\ [][JtagNext]_uartVars
  BY DEF JtagSpec
<1> QED
  BY JtagInvInit, JtagInvNext, <1>1, PTL

(* Every variable of the driver and its clock keeps its type.              *)
THEOREM JtagTypeCorrect == JtagSpec => []JtagTypeOK
<1>1. JtagInv => JtagTypeOK
  BY DEF JtagInv
<1> QED
  BY JtagInvAlways, <1>1, PTL

(* The alarm goes off every second, on the tick, across every rollover of  *)
(* alt_nticks, for every size of the word and every second that fits it.   *)
THEOREM AlarmOnTimeAlways == JtagSpec => []AlarmOnTime
<1>1. JtagInv => AlarmOnTime
  BY AlarmOnTimeInv DEF JtagInv
<1> QED
  BY JtagInvAlways, <1>1, PTL

(* No character waits in the ring with the interrupt off and no call that  *)
(* will turn it on.                                                        *)
THEOREM TxNotStuckAlways == JtagSpec => []TxNotStuck
<1>1. JtagInv => TxNotStuck
  BY DEF JtagInv
<1> QED
  BY JtagInvAlways, <1>1, PTL

(* Reading is off only while a read will find something to turn it on for. *)
THEOREM RxNotDeafAlways == JtagSpec => []RxNotDeaf
<1>1. JtagInv => RxNotDeaf
  BY DEF JtagInv
<1> QED
  BY JtagInvAlways, <1>1, PTL

-----------------------------------------------------------------------------
(* The rings and FIFOs implement a channel each.                           *)

LEMMA ChannelsStart == JtagInit => Written!ChannelInit /\ Typed!ChannelInit
  BY DEF JtagInit, Written!ChannelInit, Typed!ChannelInit

LEMMA WrittenStep ==
  JtagInv /\ [JtagNext]_uartVars => [Written!Put \/ Written!Take]_<<put, taken>>
<1> SUFFICES ASSUME JtagInv, [JtagNext]_uartVars
             PROVE  [Written!Put \/ Written!Take]_<<put, taken>>
  OBVIOUS
<1>1. CASE HostTake
  <2>1. JtagTypeOK /\ TxHeld
    BY DEF JtagInv
  <2>2. txfifo # <<>> /\ taken' = Head(txfifo) /\ UNCHANGED put
    BY <1>1 DEF HostTake
  <2>3. Len(txfifo) \in Nat \ {0} /\ Head(txfifo) = txfifo[1]
    BY <2>1, <2>2, EmptySeq DEF JtagTypeOK
  <2>4. taken' = taken + 1
    BY <2>1, <2>2, <2>3 DEF TxHeld
  <2>5. taken < put
    <3>1. /\ taken \in Nat /\ put \in Nat /\ Added \in Nat /\ Dist(tx_out, tx_in) \in Nat
      BY <2>1, Numbers, DistRange
    <3>2. put = taken + Len(txfifo) + Dist(tx_out, tx_in) + Added
      BY <2>1 DEF TxHeld
    <3> QED
      BY <2>3, <3>1, <3>2
  <2> QED
    BY <2>2, <2>4, <2>5 DEF Written!Take
<1>2. CASE WriteCopy
  BY <1>2 DEF WriteCopy, untouchedByWrite, Written!Put
<1>3. CASE HostType \/ HostLeaves \/ Isr \/ Tick
  BY <1>3 DEF HostType, HostLeaves, Isr, Tick
<1>4. CASE Write \/ Close \/ CloseWait \/ WriteLook \/ WriteAdvance \/ WriteEnable \/ WriteWait
  BY <1>4 DEF Write, Close, CloseWait, WriteLook, WriteAdvance, WriteEnable, WriteWait,
              untouchedByWrite
<1>5. CASE Read \/ ReadLook \/ ReadCopy \/ ReadAdvance \/ ReadEnable \/ ReadWait
  BY <1>5 DEF Read, ReadLook, ReadCopy, ReadAdvance, ReadEnable, ReadWait, untouchedByRead
<1>6. CASE UNCHANGED uartVars
  BY <1>6 DEF uartVars
<1> QED
  BY <1>1, <1>2, <1>3, <1>4, <1>5, <1>6 DEF JtagNext, Call

LEMMA TypedStep ==
  JtagInv /\ [JtagNext]_uartVars => [Typed!Put \/ Typed!Take]_<<typed, read>>
<1> SUFFICES ASSUME JtagInv, [JtagNext]_uartVars
             PROVE  [Typed!Put \/ Typed!Take]_<<typed, read>>
  OBVIOUS
<1>1. CASE HostType
  BY <1>1 DEF HostType, Typed!Put
<1>2. CASE ReadCopy
  <2>1. /\ JtagTypeOK /\ CallInv /\ RxHeld /\ pc = "rcopy"
        /\ read' = rx_buf[rx_out + copied] /\ UNCHANGED typed
    BY <1>2 DEF JtagInv, ReadCopy, untouchedByRead
  <2> DEFINE d == Dist(rx_out, rx_in)
             i == rx_out + copied
  <2>2. copied < n /\ rx_out + n <= BufLen /\ n <= d
    BY <2>1 DEF CallInv
  <2>3. /\ d \in Nat /\ copied \in Nat /\ n \in Nat /\ typed \in Nat /\ read \in Nat
        /\ Len(rxfifo) \in Nat /\ rx_out \in Index /\ rx_out \in Nat /\ d <= BufLen - 1
    <3>1. rx_in \in Index /\ rx_out \in Index
      BY <2>1, Numbers
    <3>2. rx_out \in Nat
      BY <3>1, JtagAssumption DEF Index
    <3> QED
      BY <2>1, <3>1, <3>2, Numbers, DistRange
  <2>4. Gone = copied
    BY <2>1 DEF Gone
  <2>5. typed = read - copied + d + Len(rxfifo) /\ read >= copied
    BY <2>1, <2>4 DEF RxHeld
  <2> HIDE DEF d
  <2>6. i \in Index /\ Dist(rx_out, i) = copied
    <3>1. copied \in Index /\ Wrap(i) = i
      BY <2>2, <2>3, JtagAssumption DEF Index, Wrap
    <3> QED
      BY <2>3, <3>1, WrapRange
  <2>7. read' = read + 1
    <3>1. rx_buf[i] = read - copied + Dist(rx_out, i) + 1
      BY <2>1, <2>2, <2>3, <2>4, <2>6 DEF RxHeld, d
    <3> QED
      BY <2>1, <2>3, <2>6, <3>1
  <2>8. read < typed
    BY <2>2, <2>3, <2>5
  <2> QED
    BY <2>1, <2>7, <2>8 DEF Typed!Take
<1>3. CASE HostTake \/ HostLeaves \/ Isr \/ Tick
  BY <1>3 DEF HostTake, HostLeaves, Isr, Tick
<1>4. CASE Write \/ Close \/ CloseWait \/ WriteLook \/ WriteCopy \/ WriteAdvance \/ WriteEnable
           \/ WriteWait
  BY <1>4 DEF Write, Close, CloseWait, WriteLook, WriteCopy, WriteAdvance, WriteEnable, WriteWait,
              untouchedByWrite
<1>5. CASE Read \/ ReadLook \/ ReadAdvance \/ ReadEnable \/ ReadWait
  BY <1>5 DEF Read, ReadLook, ReadAdvance, ReadEnable, ReadWait, untouchedByRead
<1>6. CASE UNCHANGED uartVars
  BY <1>6 DEF uartVars
<1> QED
  BY <1>1, <1>2, <1>3, <1>4, <1>5, <1>6 DEF JtagNext, Call

(* What the program writes reaches the host in order, whole and once: the  *)
(* ring and the FIFO implement a channel, for every length of theirs.      *)
THEOREM TxInOrderAlways == JtagSpec => TxInOrder
<1>1. JtagSpec => JtagInit /\ [][JtagNext]_uartVars
  BY DEF JtagSpec
<1> QED
  BY <1>1, ChannelsStart, WrittenStep, JtagInvAlways, PTL DEF TxInOrder, Written!ChannelSafe

(* And what the host types reaches the program in the same way.            *)
THEOREM RxInOrderAlways == JtagSpec => RxInOrder
<1>1. JtagSpec => JtagInit /\ [][JtagNext]_uartVars
  BY DEF JtagSpec
<1> QED
  BY <1>1, ChannelsStart, TypedStep, JtagInvAlways, PTL DEF RxInOrder, Typed!ChannelSafe

-----------------------------------------------------------------------------
(* A call that waits for a host that is gone gives it up.  What that still *)
(* takes: the seconds without a sign of the host, counted from the one     *)
(* that clears its last sign, and the ticks of this second.                *)
Waiting == pc \in {"wwait", "close"}
Misses  == IF AC THEN Timeout + 1
           ELSE IF host_inactive < Timeout THEN Timeout - host_inactive ELSE 0

Deserted(l, t) == gone /\ Waiting /\ Misses = l /\ due = t

Sooner(l, t) ==
  \E l1, t1 \in Nat : Deserted(l1, t1) /\ (l1 < l \/ (l1 = l /\ t1 < t))

(* The clock ticks, and a call goes on while it does not wait: what        *)
(* WF_uartVars(Tick) and WF_uartVars(Call) come to.                        *)
ClockTicks == []<><<Tick>>_uartVars
Blocked ==
  \/ pc = "idle"
  \/ pc = "wwait" /\ Waits(tx_out)
  \/ pc = "rwait" /\ Waits(rx_in)
  \/ pc = "close" /\ tx_out # tx_in /\ host_inactive < Timeout
CallsGoOn == []<>Blocked \/ []<><<Call>>_uartVars

LEMMA TickSooner ==
  ASSUME JtagInv, Tick, NEW l, NEW t, Deserted(l, t)
  PROVE  IF l = 0 THEN Deserted(0, due)' ELSE Sooner(l, t)'
<1> USE AlarmAssumption, JtagAssumption
<1>1. /\ due \in 1..(Second + 1) /\ AC \in BOOLEAN /\ host_inactive \in 0..(IntMax - 2)
      /\ Misses \in Nat /\ (GoesOff(alt_nticks') <=> due = 1)
  BY AlarmOnTimeInv DEF JtagInv, JtagTypeOK, AlarmTypeOK, AlarmInv, Misses, Tick, alt_tick, AlarmOnTime
<1>2. due' = (IF due = 1 THEN Second ELSE due - 1) /\ due' \in Nat /\ gone' /\ Waiting'
  BY <1>1 DEF Tick, alt_tick, Deserted, Waiting
<1>3. CASE due = 1
  <2>1. ~AC' /\ host_inactive' = IF AC THEN 0 ELSE IF host_inactive < IntMax - 2
                                   THEN host_inactive + 1 ELSE host_inactive
    BY <1>1, <1>3 DEF Tick, CheckHost
  <2>2. Misses' \in Nat /\ (IF Misses = 0 THEN Misses' = 0 ELSE Misses' < Misses)
    BY <1>1, <2>1 DEF Misses
  <2> QED
    BY <1>2, <2>2 DEF Deserted, Sooner
<1>4. CASE due # 1
  <2>1. Misses' = Misses
    BY <1>1, <1>4 DEF Tick, Misses
  <2> QED
    BY <1>1, <1>2, <1>4, <2>1 DEF Deserted, Sooner
<1> QED
  BY <1>3, <1>4

(* Nothing else delays it.                                                 *)
LEMMA DesertedStays ==
  ASSUME JtagInv, [JtagNext]_uartVars, ~Tick, NEW l, NEW t, Deserted(l, t)
  PROVE  /\ Deserted(l, t)' \/ ~Waiting'
         /\ l = 0 => Deserted(0, due)' \/ pc' = "idle"
<1> USE JtagAssumption DEF Deserted, Waiting
<1>1. CASE HostTake \/ HostType \/ HostLeaves
  BY <1>1 DEF HostTake, HostType, HostLeaves
<1>2. CASE Isr
  BY <1>2 DEF Isr, Misses, alarmVars
<1>3. CASE Write \/ Close \/ Read
  BY <1>3 DEF Write, Close, Read
<1>4. CASE Call
  <2>1. CASE WriteWait
    BY <2>1 DEF WriteWait, Goto, Misses
  <2>2. CASE CloseWait
    BY <2>2 DEF CloseWait, Goto
  <2> QED
    BY <1>4, <2>1, <2>2 DEF Call, WriteLook, WriteCopy, WriteAdvance, WriteEnable,
       ReadLook, ReadCopy, ReadAdvance, ReadEnable, ReadWait
<1>5. CASE UNCHANGED uartVars
  BY <1>5 DEF uartVars, alarmVars, Misses
<1> QED
  BY <1>1, <1>2, <1>3, <1>4, <1>5 DEF JtagNext

LEMMA CallGivesUp ==
  ASSUME JtagInv, Call, NEW t, Deserted(0, t)
  PROVE  pc' = "idle"
<1>1. host_inactive # 0
  BY JtagAssumption DEF Deserted, Misses, JtagInv, JtagTypeOK
<1> QED
  BY <1>1 DEF Call, Deserted, Waiting, WriteLook, WriteCopy, WriteAdvance, WriteEnable,
     WriteWait, CloseWait, ReadLook, ReadCopy, ReadAdvance, ReadEnable, ReadWait, Goto

(* WriteReturns for a host that is gone, tick by tick: from wherever a     *)
(* call waits it stops waiting, or gets to where less is left.  (That this *)
(* ends is an induction over what is left, which stays with TLC.)          *)
THEOREM WaitsLess ==
  ASSUME NEW l, NEW t
  PROVE  JtagSpec /\ ClockTicks => (Deserted(l, t) /\ l # 0 ~> ~Waiting \/ Sooner(l, t))
<1>1. JtagInv /\ [JtagNext]_uartVars /\ Deserted(l, t) /\ l # 0
        => (Deserted(l, t) /\ l # 0)' \/ ~Waiting' \/ Sooner(l, t)'
  BY TickSooner, DesertedStays
<1>2. JtagInv /\ <<Tick>>_uartVars /\ Deserted(l, t) /\ l # 0 => Sooner(l, t)'
  BY TickSooner
<1> QED
  BY <1>1, <1>2, JtagInvAlways, PTL DEF JtagSpec, ClockTicks

(* And when nothing is left the call returns (the test of host_inactive in *)
(* alt_write and in close).                                                *)
THEOREM GivesUp ==
  JtagSpec /\ CallsGoOn => ((\E t \in Nat : Deserted(0, t)) ~> pc = "idle")
<1> DEFINE Lost == gone /\ Waiting /\ Misses = 0
<1>1. JtagInv /\ [JtagNext]_uartVars /\ Lost => Lost' \/ (pc = "idle")'
  BY TickSooner, DesertedStays DEF Deserted
<1>2. JtagInv /\ <<Call>>_uartVars /\ Lost => (pc = "idle")'
  BY CallGivesUp DEF Deserted
<1>3. JtagInv /\ Lost => ~Blocked
  BY JtagAssumption DEF Misses, Waiting, Blocked, Waits, JtagInv, JtagTypeOK
<1>4. (\E t \in Nat : Deserted(0, t)) => Lost
  BY DEF Deserted
<1> QED
  BY <1>1, <1>2, <1>3, <1>4, JtagInvAlways, PTL DEF JtagSpec, CallsGoOn

-----------------------------------------------------------------------------
(* A character that is written reaches a host that stays.  It is in the    *)
(* FIFO, or in the ring with the interrupt on, or the call that wrote it   *)
(* has yet to turn that on: three stages, the last with some way to go.    *)
Owed(k) == taken = k /\ k < put /\ ~gone

Sent(k)  == Owed(k) /\ txfifo # <<>>
Asked(k) == Owed(k) /\ txfifo = <<>> /\ WE /\ tx_in # tx_out
InHand(k) == Owed(k) /\ txfifo = <<>> /\ ~(WE /\ tx_in # tx_out)

StepsLeft ==
  CASE pc = "wlook" -> 3 [] pc = "wcopy" -> 2 [] pc = "wadvance" -> 1 [] OTHER -> 0

ToDo(k, c, s, m) == InHand(k) /\ count = c /\ StepsLeft = s /\ n - copied = m

Nearer(k, c, s, m) ==
  \E c1, s1, m1 \in Nat :
    /\ ToDo(k, c1, s1, m1)
    /\ \/ c1 < c
       \/ c1 = c /\ s1 < s
       \/ c1 = c /\ s1 = s /\ m1 < m

Arrived(k) == taken = k + 1 \/ gone

(* Interrupts are served, and a host that is there takes what is in the    *)
(* FIFO: what WF_uartVars(Isr) and WF_uartVars(HostTake) come to.          *)
InterruptsServed == []<>(~RI /\ ~WI) \/ []<><<Isr>>_uartVars
HostListens == []<>(gone \/ txfifo = <<>>) \/ []<><<HostTake>>_uartVars

LEMMA InHandWhere ==
  ASSUME JtagInv, NEW k, InHand(k)
  PROVE  pc \in {"wlook", "wcopy", "wadvance", "wenable"} /\ (pc = "wenable" => tx_in # tx_out)
<1>1. /\ put = taken + Dist(tx_out, tx_in) + Added /\ put > taken
      /\ put \in Nat /\ taken \in Nat /\ Added \in Nat
  <2>1. Len(txfifo) = 0
    BY DEF InHand
  <2> QED
    BY <2>1, Numbers DEF InHand, Owed, JtagInv, TxHeld
<1>2. tx_in = tx_out => Dist(tx_out, tx_in) = 0
  BY Numbers, JtagAssumption DEF JtagInv, Dist, Index
<1>3. CASE tx_in # tx_out
  BY <1>3 DEF InHand, JtagInv, TxNotStuck
<1>4. CASE tx_in = tx_out
  BY <1>1, <1>2, <1>4 DEF Added
<1> QED
  BY <1>3, <1>4

(* What is owed stays so until the host has it.                            *)
LEMMA OwedStays ==
  ASSUME JtagInv, [JtagNext]_uartVars, NEW k, Owed(k)
  PROVE  IF HostTake THEN Arrived(k)' ELSE Owed(k)' \/ gone'
<1> USE DEF Owed, Arrived
<1>1. put \in Nat /\ taken \in Nat /\ k = taken
  BY Numbers DEF JtagInv
<1>2. [Written!Put \/ Written!Take]_<<put, taken>>
  BY WrittenStep
<1>3. CASE HostTake
  <2>1. taken' # taken
    <3>1. txfifo # <<>> /\ taken' = Head(txfifo) /\ txfifo \in Seq(1..Chars)
      BY <1>3 DEF HostTake, JtagInv, JtagTypeOK
    <3>2. Head(txfifo) = txfifo[1] /\ Len(txfifo) \in Nat \ {0}
      BY <3>1, EmptySeq
    <3> QED
      BY <1>1, <3>1, <3>2 DEF JtagInv, TxHeld
  <2> QED
    BY <1>1, <1>2, <1>3, <2>1 DEF Written!Put, Written!Take
<1>4. CASE ~HostTake
  <2>1. taken' = taken
    BY <1>4 DEF JtagNext, Call, HostType, HostLeaves, Isr, Tick, Write, Close, Read, WriteLook,
       WriteCopy, WriteAdvance, WriteEnable, WriteWait, CloseWait, ReadLook, ReadCopy,
       ReadAdvance, ReadEnable, ReadWait, untouchedByWrite, untouchedByRead, uartVars
  <2> QED
    BY <1>1, <1>2, <1>4, <2>1 DEF Written!Put, Written!Take
<1> QED
  BY <1>3, <1>4

LEMMA SentStays ==
  ASSUME JtagInv, JtagInv', [JtagNext]_uartVars, NEW k, Sent(k)
  PROVE  Sent(k)' \/ Arrived(k)'
<1>1. IF HostTake THEN Arrived(k)' ELSE Owed(k)' \/ gone'
  BY OwedStays DEF Sent
<1>2. CASE Isr
  <2>1. Transmit /\ UNCHANGED <<tx_buf, tx_in, pc, callVars, put, taken>> /\ Added' = Added
    BY <1>2 DEF Isr, Added, callVars
  <2>2. Dist(tx_out, tx_in)' <= Dist(tx_out, tx_in)
    BY <2>1, TransmitKeeps DEF Dist
  <2>3. /\ Len(txfifo) \in Nat \ {0} /\ Len(txfifo') \in Nat
        /\ put \in Nat /\ taken \in Nat /\ Added \in Nat
        /\ Dist(tx_out, tx_in) \in Nat /\ Dist(tx_out, tx_in)' \in Nat
    BY Numbers, DistRange, EmptySeq, LenProperties, <2>1, TransmitKeeps
       DEF JtagInv, JtagTypeOK, Sent, Dist
  <2>4. Len(txfifo') # 0
    BY <2>1, <2>2, <2>3 DEF JtagInv, TxHeld
  <2> QED
    BY <1>1, <1>2, <2>4 DEF Sent, Arrived, Isr, HostTake
<1>3. CASE ~Isr /\ ~HostTake
  <2>1. txfifo' = txfifo
    BY <1>3 DEF JtagNext, Call, HostType, HostLeaves, Tick, Write, Close, Read, WriteLook,
       WriteCopy, WriteAdvance, WriteEnable, WriteWait, CloseWait, ReadLook, ReadCopy,
       ReadAdvance, ReadEnable, ReadWait, untouchedByWrite, untouchedByRead, uartVars
  <2> QED
    BY <1>1, <1>3, <2>1 DEF Sent, Arrived
<1> QED
  BY <1>1, <1>2, <1>3

(* Asked for characters the interrupt routine finds some.                  *)
LEMMA AskedServed ==
  ASSUME JtagInv, JtagInv', Isr, NEW k, Asked(k)
  PROVE  Sent(k)'
<1>1. /\ WI /\ Len(txfifo) = 0
      /\ Transmit /\ UNCHANGED <<tx_buf, tx_in, pc, callVars, put, taken, gone>> /\ Added' = Added
  BY JtagAssumption DEF Asked, WI, Isr, Added, callVars
<1> DEFINE d == Dist(tx_out, tx_in)
           m == Least(Depth, d)
<1>2. d \in Nat \ {0} /\ tx_in \in Index /\ tx_out \in Index
  BY Numbers, DistRange, DistZero DEF JtagInv, Asked
<1>3. m \in Nat \ {0} /\ m <= d
  BY <1>2, JtagAssumption DEF Least
<1>4. tx_out' = Wrap(tx_out + m)
  BY <1>1, JtagAssumption DEF Transmit
<1>5. Dist(tx_out, tx_in)' = d - m
  BY <1>1, <1>2, <1>3, <1>4, DistFrom DEF Dist
<1>6. Len(txfifo') # 0
  BY <1>1, <1>2, <1>3, <1>5, Numbers DEF JtagInv, TxHeld
<1> QED
  BY <1>1, <1>6 DEF Sent, Asked, Owed

LEMMA AskedStays ==
  ASSUME JtagInv, JtagInv', [JtagNext]_uartVars, NEW k, Asked(k)
  PROVE  Asked(k)' \/ Sent(k)' \/ Arrived(k)'
<1>1. IF HostTake THEN Arrived(k)' ELSE Owed(k)' \/ gone'
  BY OwedStays DEF Asked
<1>2. CASE Isr
  BY <1>2, AskedServed
<1>3. CASE WriteAdvance
  <2>1. tx_in' = Wrap(tx_in + n) /\ UNCHANGED <<txfifo, WE, tx_out>>
    BY <1>3 DEF WriteAdvance, untouchedByWrite
  <2>2. Dist(tx_out, tx_in') = Dist(tx_out, tx_in) + n
    BY <1>3, <2>1, DistTo, Numbers DEF WriteAdvance, JtagInv, CallInv
  <2>3. Dist(tx_out, tx_in) \in Nat \ {0} /\ n \in Nat
    BY DistZero, DistRange, Numbers DEF Asked, JtagInv
  <2>4. Dist(tx_out, tx_out) = 0
    BY Numbers, JtagAssumption DEF JtagInv, Dist, Index
  <2>5. tx_in' # tx_out
    BY <2>2, <2>3, <2>4
  <2> QED
    BY <1>1, <1>3, <2>1, <2>5 DEF Asked, Arrived, HostTake, WriteAdvance
<1>4. CASE ~Isr /\ ~HostTake /\ ~WriteAdvance
  <2>1. UNCHANGED <<txfifo, tx_in, tx_out>> /\ (WE => WE')
    BY <1>4 DEF JtagNext, Call, HostType, HostLeaves, Tick, Write, Close, Read, WriteLook,
       WriteCopy, WriteEnable, Kick, WriteWait, CloseWait, ReadLook, ReadCopy, ReadAdvance,
       ReadEnable, ReadWait, untouchedByWrite, untouchedByRead, uartVars, txVars
  <2> QED
    BY <1>1, <1>4, <2>1 DEF Asked, Arrived
<1> QED
  BY <1>1, <1>2, <1>3, <1>4

(* In the call's hand it is nearer with every step of the call.            *)
LEMMA InHandStays ==
  ASSUME JtagInv, [JtagNext]_uartVars, ~Call, NEW k, NEW c, NEW s, NEW m, ToDo(k, c, s, m)
  PROVE  ToDo(k, c, s, m)' \/ Asked(k)' \/ Sent(k)' \/ Arrived(k)'
<1>1. IF HostTake THEN Arrived(k)' ELSE Owed(k)' \/ gone'
  BY OwedStays DEF ToDo, InHand
<1>2. pc # "idle"
  BY InHandWhere DEF ToDo
<1>3. UNCHANGED <<pc, count, n, copied>>
  BY <1>2 DEF JtagNext, HostTake, HostType, HostLeaves, Isr, Tick, Write, Close, Read, callVars,
     uartVars
<1> QED
  BY <1>1, <1>3 DEF ToDo, InHand, Asked, Sent, Arrived, StepsLeft

LEMMA InHandNearer ==
  ASSUME JtagInv, Call, NEW k, NEW c, NEW s, NEW m, ToDo(k, c, s, m)
  PROVE  Nearer(k, c, s, m)' \/ Asked(k)' \/ Sent(k)' \/ Arrived(k)'
<1> DEFINE Elsewhere == Asked(k)' \/ Sent(k)' \/ Arrived(k)'
<1>1. Owed(k)' \/ Arrived(k)'
  BY OwedStays DEF ToDo, InHand, JtagNext, Arrived
<1>2. InHand(k)' \/ Elsewhere
  BY <1>1 DEF InHand, Asked, Sent
<1>3. count \in Nat /\ n \in Nat /\ copied \in Nat /\ copied <= n /\ CallInv
  BY Numbers DEF JtagInv
<1>4. CASE WriteLook
  <2>1. count' = count /\ copied' = 0 /\ n' \in Nat /\ StepsLeft = 3 /\ StepsLeft' \in {0, 2}
    BY <1>3, <1>4, SpaceFits, Numbers DEF WriteLook, StepsLeft, CallInv, JtagInv, Least
  <2>2. count' = c /\ c \in Nat /\ s = 3
    BY <1>3, <2>1 DEF ToDo
  <2>3. StepsLeft' \in Nat /\ StepsLeft' < 3
    BY <2>1
  <2>4. n' - copied' \in Nat
    <3>1. copied' = 0 /\ n' \in Nat
      BY <2>1
    <3>2. copied' \in Nat /\ copied' <= n'
      BY <3>1
    <3>3. \A a, b \in Nat : b <= a => a - b \in Nat
      OBVIOUS
    <3> QED
      BY <3>1, <3>2, <3>3
  <2> QED
    <3>1. ASSUME InHand(k)' PROVE Nearer(k, c, s, m)'
      <4> DEFINE m1 == n' - copied'
                 s1 == StepsLeft'
      <4>1. c \in Nat /\ s1 \in Nat /\ m1 \in Nat /\ s1 < s
        BY <2>2, <2>3, <2>4
      <4>2. InHand(k)' /\ count' = c /\ StepsLeft' = s1 /\ n' - copied' = m1
        BY <3>1, <2>2
      <4> HIDE DEF m1, s1
      <4> QED
        BY <4>1, <4>2 DEF ToDo, Nearer
    <3> QED
      BY <3>1, <1>2
<1>5. CASE WriteCopy
  <2>1. /\ count' = count /\ n' = n /\ copied' = copied + 1 /\ copied < n /\ StepsLeft = 2
        /\ StepsLeft' \in {1, 2}
    BY <1>3, <1>5 DEF WriteCopy, StepsLeft, CallInv
  <2> QED
    BY <1>2, <1>3, <2>1 DEF ToDo, Nearer
<1>6. CASE WriteAdvance
  <2>1. count' = count - n /\ n > 0 /\ n <= count /\ n' = 0 /\ copied' = 0 /\ StepsLeft' \in {0, 3}
    BY <1>3, <1>6 DEF WriteAdvance, StepsLeft, CallInv
  <2> QED
    BY <1>2, <1>3, <2>1 DEF ToDo, Nearer
<1>7. CASE WriteEnable
  <2>1. WE' /\ UNCHANGED <<tx_in, tx_out>> /\ tx_in # tx_out
    BY <1>7, InHandWhere DEF WriteEnable, Kick, untouchedByWrite, ToDo
  <2> QED
    BY <1>2, <2>1 DEF InHand
<1>8. pc \in {"wlook", "wcopy", "wadvance", "wenable"}
  BY InHandWhere DEF ToDo
<1> QED
  BY <1>4, <1>5, <1>6, <1>7, <1>8 DEF Call, WriteWait, CloseWait, ReadLook, ReadCopy,
     ReadAdvance, ReadEnable, ReadWait

(* CharsArrive, in two parts.  What the call has in hand gets nearer to    *)
(* the ring and the interrupt with every step ...  (That this ends is an   *)
(* induction over what is left to do, which stays with TLC.)               *)
THEOREM CharNearer ==
  ASSUME NEW k, NEW c, NEW s, NEW m
  PROVE  JtagSpec /\ CallsGoOn =>
           (ToDo(k, c, s, m) ~> Nearer(k, c, s, m) \/ Asked(k) \/ Sent(k) \/ Arrived(k))
<1>1. JtagInv /\ [JtagNext]_uartVars /\ ToDo(k, c, s, m)
        => \/ ToDo(k, c, s, m)' \/ Nearer(k, c, s, m)'
           \/ Asked(k)' \/ Sent(k)' \/ Arrived(k)'
  BY InHandStays, InHandNearer
<1>2. JtagInv /\ <<Call>>_uartVars /\ ToDo(k, c, s, m)
        => Nearer(k, c, s, m)' \/ Asked(k)' \/ Sent(k)' \/ Arrived(k)'
  BY InHandNearer
<1>3. JtagInv /\ ToDo(k, c, s, m) => ~Blocked
  BY InHandWhere DEF ToDo, Blocked
<1> QED
  BY <1>1, <1>2, <1>3, JtagInvAlways, PTL DEF JtagSpec, CallsGoOn

(* ... and from there it reaches the host without another call.            *)
THEOREM CharTaken ==
  ASSUME NEW k
  PROVE  JtagSpec /\ InterruptsServed /\ HostListens => (Asked(k) \/ Sent(k) ~> Arrived(k))
<1>1. JtagInv /\ JtagInv' /\ [JtagNext]_uartVars /\ Asked(k) => Asked(k)' \/ Sent(k)' \/ Arrived(k)'
  BY AskedStays
<1>2. JtagInv /\ JtagInv' /\ [JtagNext]_uartVars /\ Sent(k) => Sent(k)' \/ Arrived(k)'
  BY SentStays
<1>3. JtagInv /\ JtagInv' /\ <<Isr>>_uartVars /\ Asked(k) => Sent(k)'
  BY AskedServed
<1>4. JtagInv /\ <<HostTake>>_uartVars /\ Sent(k) => Arrived(k)'
  BY OwedStays DEF Sent, JtagNext
<1>5. Asked(k) => WI
  BY JtagAssumption DEF Asked, WI
<1>6. Sent(k) => ~(gone \/ txfifo = <<>>)
  BY DEF Sent, Owed
<1> QED
  BY <1>1, <1>2, <1>3, <1>4, <1>5, <1>6, JtagInvAlways, PTL
     DEF JtagSpec, InterruptsServed, HostListens
=============================================================================
