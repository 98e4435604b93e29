--------------------------- MODULE TransferProofs ---------------------------
(***************************************************************************)
(* Proofs about UsbTransfer, for every limit of the tries, every number of *)
(* packets and every number of reports.                                    *)
(***************************************************************************)
EXTENDS UsbTransfer, TLAPS

USE DEF hrSUCCESS, hrNAK, hrSTALL, hrTOGERR, hrTIMEOUT, Late, Flip

-----------------------------------------------------------------------------
(* The two ends of the reports: main has the ones the device knows to have *)
(* arrived, and their toggles agree; or one more, and they differ.         *)
Reported ==
  /\ polls = buf
  /\ \/ buf = acked /\ togout = rcvToggle[1]
     \/ buf = acked + 1 /\ acked < made /\ togout # rcvToggle[1]
  /\ acked <= made
  /\ pc = "in" /\ ep = 1 => hctl = rcvToggle[1]

(* The two ends of a data stage, likewise; and what each stage of a        *)
(* transfer starts from.                                                   *)
FirstOnes(n) == [i \in 1..n |-> i]

DataStage ==
  /\ got = FirstOnes(Len(got)) /\ Len(got) < Packets
  /\ stage = "data" /\ Len(got) \in {sent, sent + 1}
  /\ hctl = (Len(got) + 1) % 2

Transfer ==
  /\ pc \in {"setup", "status"} => ep = 0
  /\ pc # "idle" => (request = "none" <=> ep = 1)
  /\ pc = "in" /\ ep = 0 => request = "data" /\ DataStage
  /\ pc = "status" /\ request = "data" => got = FirstOnes(Packets)
  /\ pc = "idle" /\ request = "data" /\ rcode = hrSUCCESS => got = FirstOnes(Packets)

TransferInv == TransferTypeOK /\ Reported /\ Transfer

-----------------------------------------------------------------------------
LEMMA OneMore ==
  ASSUME NEW n \in Nat PROVE Append(FirstOnes(n), n + 1) = FirstOnes(n + 1)
<1>1. FirstOnes(n) \in Seq(Nat) /\ Len(FirstOnes(n)) = n
  BY DEF FirstOnes
<1>2. Append(FirstOnes(n), n + 1) \in Seq(Nat) /\ FirstOnes(n + 1) \in Seq(Nat)
      /\ Len(Append(FirstOnes(n), n + 1)) = n + 1 /\ Len(FirstOnes(n + 1)) = n + 1
  BY <1>1 DEF FirstOnes
<1>3. ASSUME NEW i \in 1..(n + 1) PROVE Append(FirstOnes(n), n + 1)[i] = FirstOnes(n + 1)[i]
  BY <1>1 DEF FirstOnes
<1> QED
  BY <1>2, <1>3

LEMMA Parity == \A n \in Nat : n % 2 \in 0..1 /\ (n + 1) % 2 = 1 - (n % 2)
  OBVIOUS

(* A packet that fails is tried again or ends its transfer, and no more.   *)
LEMMA FailedInv ==
  ASSUME TransferInv, pc # "idle", NEW r \in {hrNAK, hrSTALL, hrTOGERR, hrTIMEOUT},
         Failed(r), made' = made, acked' = acked, togout' = togout
  PROVE  /\ Reported'
         /\ pc' \in {pc, "idle"}
         /\ pc' = "idle" => Transfer'
         /\ nak_count' \in 0..(USB_NAK_LIMIT - 1)
         /\ retry_count' \in 0..(USB_RETRY_LIMIT - 1)
         /\ rcode' \in {rcode, r}
         /\ UNCHANGED <<ep, request, rcvToggle, hctl, got, polls, buf>>
<1> USE TransferAssumption DEF TransferInv, TransferTypeOK, Failed, Return, Launch, Count, Retried
<1>1. UNCHANGED <<ep, request, rcvToggle, hctl, got, polls, buf>>
  OBVIOUS
<1>2. /\ pc' \in {pc, "idle"}
      /\ pc' = "idle" => rcode' = r
      /\ rcode' \in {rcode, r}
  OBVIOUS
<1>3. Reported'
  BY <1>1, <1>2 DEF Reported
<1>4. pc' = "idle" => Transfer'
  BY <1>1, <1>2 DEF Transfer
<1>5. /\ nak_count' \in 0..(USB_NAK_LIMIT - 1)
      /\ retry_count' \in 0..(USB_RETRY_LIMIT - 1)
  OBVIOUS
<1> QED
  BY <1>1, <1>2, <1>3, <1>4, <1>5
(* The same when the device has not moved.                                 *)
LEMMA FailedSame ==
  ASSUME TransferInv, pc # "idle", NEW r \in {hrNAK, hrSTALL, hrTOGERR, hrTIMEOUT},
         Failed(r), UNCHANGED deviceVars
  PROVE  TransferInv'
<1>1. UNCHANGED <<made, acked, togout, stage, sent>>
  BY DEF deviceVars
<1>2. UNCHANGED <<ep, request, rcvToggle, hctl, got, polls, buf>> /\ Reported'
  BY <1>1, FailedInv
<1>3. TransferTypeOK'
  BY <1>1, <1>2, FailedInv DEF TransferInv, TransferTypeOK
<1>4. CASE pc' = "idle"
  BY <1>2, <1>3, <1>4, <1>1, FailedInv DEF TransferInv
<1>5. CASE pc' = pc
  <2>1. Transfer'
    BY <1>1, <1>2, <1>5 DEF TransferInv, Transfer, DataStage
  <2> QED
    BY <1>2, <1>3, <2>1 DEF TransferInv
<1> QED
  BY <1>1, <1>4, <1>5, FailedInv

(* A packet with the right toggle is the next one, for a poll as for a     *)
(* data stage.                                                             *)
LEMMA RightToggle ==
  ASSUME TransferInv, pc = "in", HasData, Toggle = hctl
  PROVE  /\ ep = 1 => acked < made /\ buf = acked /\ Packet = acked + 1
         /\ ep = 0 => sent = Len(got) /\ Packet = sent + 1
<1> USE TransferAssumption DEF TransferInv, TransferTypeOK, HasData, Toggle, Packet
<1>1. CASE ep = 1
  BY <1>1 DEF Reported
<1>2. CASE ep = 0
  <2>1. Len(got) \in Nat
    OBVIOUS
  <2>2. Len(got) \in {sent, sent + 1} /\ (sent + 1) % 2 = (Len(got) + 1) % 2
    BY <1>2 DEF Transfer, DataStage
  <2>3. (sent + 1) % 2 # (sent + 1 + 1) % 2
    BY Parity, sent + 1 \in Nat
  <2> QED
    BY <1>2, <2>1, <2>2, <2>3
<1> QED
  BY <1>1, <1>2

LEMMA ReceivedInv ==
  ASSUME TransferInv, pc = "in", HasData, Toggle = hctl, Received,
         Acked \/ UNCHANGED deviceVars
  PROVE  TransferInv'
<1> USE TransferAssumption DEF TransferInv
<1>1. CASE ep = 1
  <2>1. buf = acked /\ acked < made /\ Packet = acked + 1 /\ togout = hctl
    BY <1>1, RightToggle DEF Toggle
  <2>2. /\ rcvToggle' = [rcvToggle EXCEPT ![1] = 1 - hctl] /\ hctl' = 1 - hctl
        /\ pc' = "idle" /\ nak_count' = 0 /\ retry_count' = 0 /\ rcode' = 0
        /\ buf' = acked + 1 /\ polls' = polls + 1 /\ UNCHANGED <<ep, request>>
    BY <1>1, <2>1 DEF Received, Complete, SavedToggle, Return, Launch
  <2>3. /\ UNCHANGED <<made, stage, sent>>
        /\ \/ acked' = acked + 1 /\ togout' = 1 - togout
           \/ UNCHANGED <<acked, togout>>
    BY <1>1 DEF Acked, deviceVars
  <2>4. got' \in Seq(Nat)
    BY <2>1 DEF Received, TransferTypeOK
  <2>5. TransferTypeOK'
    BY <2>1, <2>2, <2>3, <2>4 DEF TransferTypeOK, Reported
  <2>6. Reported'
    BY <2>1, <2>2, <2>3 DEF TransferTypeOK, Reported
  <2>7. Transfer'
    BY <1>1, <2>2 DEF Transfer
  <2> QED
    BY <2>5, <2>6, <2>7
<1>2. CASE ep = 0
  <2> DEFINE n == Len(got)
  <2>1. n \in Nat /\ n < Packets /\ sent = n /\ Packet = n + 1 /\ got = FirstOnes(n)
        /\ hctl = (n + 1) % 2 /\ stage = "data" /\ request = "data"
    BY <1>2, RightToggle DEF TransferTypeOK, Transfer, DataStage
  <2>2. got' = FirstOnes(n + 1) /\ Len(got') = n + 1 /\ got' \in Seq(Nat)
    BY <2>1, OneMore DEF Received, FirstOnes, TransferTypeOK
  <2>3. hctl' = (n + 1 + 1) % 2 /\ hctl' \in 0..1
    BY <2>1, Parity, n + 1 \in Nat DEF Received
  <2>4. /\ UNCHANGED <<made, acked, togout>>
        /\ sent' \in {n, n + 1}
        /\ n + 1 # Packets => stage' = "data"
        /\ stage' \in {"data", "status"}
    BY <1>2, <2>1 DEF Acked, deviceVars
  <2>5. /\ UNCHANGED <<ep, request, polls, buf, rcode>> /\ rcvToggle'[1] = rcvToggle[1]
        /\ rcvToggle' \in [0..1 -> 0..1] /\ nak_count' = 0 /\ retry_count' = 0
    BY <1>2, <2>3 DEF Received, Launch, TransferTypeOK, SavedToggle
  <2>6. IF n + 1 = Packets THEN pc' = "status" ELSE pc' = "in"
    BY <1>2, <2>1 DEF Received, Complete, Launch
  <2>7. TransferTypeOK'
    BY <2>1, <2>2, <2>3, <2>4, <2>5, <2>6 DEF TransferTypeOK
  <2>8. Reported'
    BY <1>2, <2>4, <2>5 DEF Reported, TransferTypeOK
  <2>9. Transfer'
    <3>1. CASE n + 1 = Packets
      BY <1>2, <2>1, <2>2, <2>5, <2>6, <3>1 DEF Transfer
    <3>2. CASE n + 1 # Packets
      <4>1. n + 1 < Packets
        BY <2>1, <3>2
      <4>2. DataStage'
        BY <2>1, <2>2, <2>3, <2>4, <3>2, <4>1 DEF DataStage
      <4> QED
        BY <1>2, <2>1, <2>5, <2>6, <3>2, <4>2 DEF Transfer
    <3> QED
      BY <3>1, <3>2
  <2> QED
    BY <2>7, <2>8, <2>9
<1> QED
  BY <1>1, <1>2 DEF TransferTypeOK

(* A packet with the wrong toggle is one that is there already.            *)
LEMMA WrongToggle ==
  ASSUME TransferInv, pc = "in", HasData, Toggle # hctl
  PROVE  /\ ep = 1 => buf = acked + 1 /\ acked < made /\ togout # rcvToggle[1]
         /\ ep = 0 => Len(got) = sent + 1
<1>1. CASE ep = 1
  BY <1>1 DEF TransferInv, TransferTypeOK, Reported, HasData, Toggle
<1>2. CASE ep = 0
  BY <1>2 DEF TransferInv, TransferTypeOK, Transfer, DataStage, Toggle
<1> QED
  BY <1>1, <1>2

LEMMA DroppedInv ==
  ASSUME TransferInv, pc = "in", HasData, Toggle # hctl, Failed(hrTOGERR), Acked
  PROVE  TransferInv'
<1> USE TransferAssumption DEF TransferInv
<1>1. /\ pc' = "idle" /\ rcode' = hrTOGERR /\ nak_count' = 0 /\ retry_count' = 0
      /\ UNCHANGED <<ep, request, rcvToggle, hctl, got, polls, buf>>
  BY DEF Failed, Retried, Return, Launch
<1>2. CASE ep = 1
  <2>1. /\ buf = acked + 1 /\ acked < made /\ togout # rcvToggle[1]
        /\ acked' = acked + 1 /\ togout' = 1 - togout /\ UNCHANGED <<made, stage, sent>>
    BY <1>2, WrongToggle DEF Acked
  <2>2. Reported'
    BY <1>1, <2>1 DEF Reported, TransferTypeOK
  <2>3. TransferTypeOK'
    BY <1>1, <2>1 DEF TransferTypeOK
  <2> QED
    BY <1>1, <2>2, <2>3 DEF Transfer
<1>3. CASE ep = 0
  <2>1. /\ sent' = sent + 1 /\ sent < Packets /\ stage' \in {"data", "status"}
        /\ UNCHANGED <<made, acked, togout>>
    BY <1>3, WrongToggle DEF Acked, Transfer, DataStage, TransferTypeOK
  <2>2. Reported'
    BY <1>1, <2>1 DEF Reported, TransferTypeOK
  <2>3. TransferTypeOK'
    BY <1>1, <2>1 DEF TransferTypeOK
  <2> QED
    BY <1>1, <2>2, <2>3 DEF Transfer
<1> QED
  BY <1>2, <1>3 DEF TransferTypeOK

-----------------------------------------------------------------------------
LEMMA TransferInvInit == TransferInit => TransferInv
  BY TransferAssumption DEF TransferInit, TransferInv, TransferTypeOK, Reported, Transfer

LEMMA TransferInvNext == TransferInv /\ [TransferNext]_transferVars => TransferInv'
<1> SUFFICES ASSUME TransferInv, [TransferNext]_transferVars PROVE TransferInv'
  OBVIOUS
<1> USE TransferAssumption
<1>1. CASE MakeReport
  BY <1>1 DEF MakeReport, TransferInv, TransferTypeOK, Reported, Transfer, DataStage, countVars
<1>2. CASE Poll
  <2>1. rcvToggle[1] \in 0..1
    BY DEF TransferInv, TransferTypeOK
  <2>2. TransferTypeOK' /\ Reported'
    BY <1>2, <2>1 DEF Poll, InTransfer, Launch, TransferInv, TransferTypeOK, Reported, deviceVars
  <2>3. Transfer'
    BY <1>2 DEF Poll, InTransfer, Launch, Transfer
  <2> QED
    BY <2>2, <2>3 DEF TransferInv
<1>3. ASSUME NEW r \in {"data", "nodata"}, XferCtrlReq(r) PROVE TransferInv'
  <2>1. TransferTypeOK' /\ Reported'
    BY <1>3 DEF XferCtrlReq, Launch, TransferInv, TransferTypeOK, Reported, deviceVars
  <2>2. Transfer'
    BY <1>3 DEF XferCtrlReq, Launch, Transfer
  <2> QED
    BY <2>1, <2>2 DEF TransferInv
<1>4. CASE Setup
  <2>1. /\ stage' = IF request = "data" THEN "data" ELSE "status"
        /\ sent' = 0 /\ UNCHANGED <<made, acked, togout>>
        /\ pc = "setup" /\ ep = 0 /\ request # "none"
    BY <1>4 DEF Setup, DeviceSetup, TransferInv, Transfer, TransferTypeOK
  <2>2. CASE Failed(hrTIMEOUT)
    <3>1. /\ UNCHANGED <<ep, request, rcvToggle, hctl, got, polls, buf>> /\ Reported'
          /\ pc' \in {"setup", "idle"} /\ (pc' = "idle" => Transfer')
          /\ nak_count' \in 0..(USB_NAK_LIMIT - 1)
          /\ retry_count' \in 0..(USB_RETRY_LIMIT - 1)
          /\ rcode' \in {rcode, hrTIMEOUT}
      BY <2>1, <2>2, FailedInv
    <3>2. TransferTypeOK'
      BY <2>1, <3>1 DEF TransferInv, TransferTypeOK
    <3>3. pc' = "setup" => Transfer'
      BY <2>1, <3>1 DEF Transfer
    <3> QED
      BY <3>1, <3>2, <3>3 DEF TransferInv
  <2>3. CASE SetupDone /\ request = "data"
    <3>1. /\ hctl' = 1 /\ got' = <<>> /\ pc' = "in" /\ nak_count' = 0 /\ retry_count' = 0
          /\ rcvToggle' = [rcvToggle EXCEPT ![0] = 1]
          /\ UNCHANGED <<ep, request, rcode, polls, buf>>
      BY <2>3 DEF SetupDone, InTransfer, Launch, FirstToggle
    <3>2. TransferTypeOK' /\ Reported'
      BY <2>1, <2>3, <3>1 DEF TransferInv, TransferTypeOK, Reported
    <3>3. Transfer'
      BY <2>1, <2>3, <3>1 DEF Transfer, DataStage, FirstOnes
    <3> QED
      BY <3>2, <3>3 DEF TransferInv
  <2>4. CASE SetupDone /\ request # "data"
    <3>1. /\ pc' = "status" /\ nak_count' = 0 /\ retry_count' = 0
          /\ UNCHANGED <<hctl, got, rcvToggle, ep, request, rcode, polls, buf>>
      BY <2>4 DEF SetupDone, Launch
    <3>2. TransferTypeOK' /\ Reported'
      BY <2>1, <2>4, <3>1 DEF TransferInv, TransferTypeOK, Reported
    <3>3. Transfer'
      BY <2>1, <2>4, <3>1 DEF Transfer
    <3> QED
      BY <3>2, <3>3 DEF TransferInv
  <2> QED
    BY <1>4, <2>2, <2>3, <2>4 DEF Setup
<1>5. CASE DataAcked
  BY <1>5, ReceivedInv, DroppedInv DEF DataAcked, Data
<1>6. CASE DataUnheard
  BY <1>6, ReceivedInv, FailedSame DEF DataUnheard, Data
<1>7. CASE Status
  <2>1. /\ pc = "status" /\ ep = 0 /\ UNCHANGED <<made, acked, togout, sent>>
        /\ stage' \in {"idle", stage}
    BY <1>7 DEF Status, TransferInv, Transfer
  <2>2. CASE StatusDone
    <3>1. /\ pc' = "idle" /\ nak_count' = 0 /\ retry_count' = 0 /\ rcode' = hrSUCCESS
          /\ UNCHANGED <<ep, request, rcvToggle, hctl, got, polls, buf>>
      BY <2>2 DEF StatusDone, Return, Launch
    <3>2. TransferTypeOK' /\ Reported' /\ Transfer'
      BY <2>1, <3>1 DEF TransferInv, TransferTypeOK, Reported, Transfer
    <3> QED
      BY <3>2 DEF TransferInv
  <2>3. CASE Failed(hrTIMEOUT)
    <3>1. /\ UNCHANGED <<ep, request, rcvToggle, hctl, got, polls, buf>> /\ Reported'
          /\ pc' \in {"status", "idle"} /\ (pc' = "idle" => Transfer')
          /\ nak_count' \in 0..(USB_NAK_LIMIT - 1)
          /\ retry_count' \in 0..(USB_RETRY_LIMIT - 1)
          /\ rcode' \in {rcode, hrTIMEOUT}
      BY <2>1, <2>3, FailedInv
    <3>2. TransferTypeOK'
      BY <2>1, <3>1 DEF TransferInv, TransferTypeOK
    <3>3. pc' = "status" => Transfer'
      BY <2>1, <3>1 DEF TransferInv, Transfer
    <3> QED
      BY <3>1, <3>2, <3>3 DEF TransferInv
  <2> QED
    BY <1>7, <2>2, <2>3 DEF Status
<1>8. CASE StatusAgain
  BY <1>8 DEF StatusAgain, StatusDone, Return, Launch, deviceVars, TransferInv,
              TransferTypeOK, Reported, Transfer
<1>9. CASE Silence
  BY <1>9, FailedSame DEF Silence
<1>10. CASE Refused
  BY <1>10, FailedSame DEF Refused
<1>11. CASE Stalled
  BY <1>11, FailedSame DEF Stalled
<1>12. CASE Deadline
  BY <1>12 DEF Deadline, Return, Launch, deviceVars, TransferInv, TransferTypeOK,
               Reported, Transfer
<1>13. CASE UNCHANGED transferVars
  BY <1>13 DEF transferVars, deviceVars, countVars, TransferInv, TransferTypeOK,
               Reported, Transfer, DataStage
<1> QED
  BY <1>1, <1>2, <1>3, <1>4, <1>5, <1>6, <1>7, <1>8, <1>9, <1>10, <1>11, <1>12, <1>13
  DEF TransferNext

(* Whatever the bus loses, repeats or delays, the two ends stay in step.   *)
THEOREM TransferInvAlways == TransferSpec => []TransferInv
<1>1. TransferSpec => TransferInit /\ [][TransferNext]_transferVars
  BY DEF TransferSpec
<1> QED
  BY TransferInvInit, TransferInvNext, <1>1, PTL

(* Every variable of a transfer keeps its type, the counters of tries      *)
(* below their limits.                                                     *)
THEOREM TransferTypeCorrect == TransferSpec => []TransferTypeOK
<1>1. TransferInv => TransferTypeOK
  BY DEF TransferInv
<1> QED
  BY TransferInvAlways, <1>1, PTL

(* No report is lost or taken twice by the polls.                          *)
THEOREM ReportOnceAlways == TransferSpec => []ReportOnce
<1>1. TransferInv => ReportOnce
  BY DEF TransferInv, TransferTypeOK, Reported, ReportOnce
<1> QED
  BY TransferInvAlways, <1>1, PTL

(* A request that returns 0 has every packet of its data stage once.       *)
THEOREM RequestWholeAlways == TransferSpec => []RequestWhole
<1>1. TransferInv => RequestWhole
  BY DEF TransferInv, Transfer, FirstOnes, RequestWhole
<1> QED
  BY TransferInvAlways, <1>1, PTL

(* What the toggle makes the chip drop is a copy.                          *)
THEOREM DropsOnlyCopiesAlways == TransferSpec => []DropsOnlyCopies
<1>1. TransferInv => DropsOnlyCopies
  <2> SUFFICES ASSUME TransferInv, pc = "in", HasData, Toggle # hctl
               PROVE  IF ep = 1 THEN Packet = buf ELSE got # <<>> /\ Packet = got[Len(got)]
    BY DEF DropsOnlyCopies
  <2>1. CASE ep = 1
    BY <2>1, WrongToggle DEF Packet
  <2>2. CASE ep = 0
    <3>1. Len(got) = sent + 1 /\ sent \in Nat /\ got = FirstOnes(sent + 1)
      BY <2>2, WrongToggle DEF TransferInv, TransferTypeOK, Transfer, DataStage
    <3>2. got[Len(got)] = sent + 1 /\ got # <<>>
      BY <3>1 DEF FirstOnes
    <3> QED
      BY <2>2, <3>2 DEF Packet
  <2> QED
    BY <2>1, <2>2 DEF TransferInv, TransferTypeOK
<1> QED
  BY TransferInvAlways, <1>1, PTL

(* A step of the polls puts one report in, takes the next one out, or      *)
(* leaves both ends alone.                                                 *)
LEMMA ChannelStep ==
  ASSUME TransferInv, [TransferNext]_transferVars
  PROVE  [Channel!Put \/ Channel!Take]_<<made, buf>>
<1>1. CASE MakeReport
  BY <1>1 DEF MakeReport, Channel!Put
<1>2. ASSUME Data, Acked \/ UNCHANGED deviceVars
      PROVE  [Channel!Put \/ Channel!Take]_<<made, buf>>
  <2>1. made' = made
    BY <1>2 DEF Acked, deviceVars
  <2>2. CASE buf' = buf
    BY <2>1, <2>2
  <2>3. CASE Received /\ ep = 1 /\ Toggle = hctl
    <3>1. buf = acked /\ acked < made /\ buf' = acked + 1
      BY <1>2, <2>3, RightToggle DEF Data, Received, Complete, Return
    <3> QED
      BY <2>1, <3>1 DEF Channel!Take
  <2> QED
    BY <1>2, <2>2, <2>3 DEF Data, Received, Failed, Return
<1>3. CASE Setup
  BY <1>3 DEF Setup, DeviceSetup, SetupDone, Failed
<1>4. CASE Status \/ StatusAgain
  BY <1>4 DEF Status, StatusAgain, StatusDone, Failed, deviceVars
<1>5. CASE Poll \/ (\E r \in {"data", "nodata"} : XferCtrlReq(r))
  BY <1>5 DEF Poll, XferCtrlReq, deviceVars
<1>6. CASE Silence \/ Refused \/ Stalled \/ Deadline
  BY <1>6 DEF Silence, Refused, Stalled, Deadline, Failed, deviceVars
<1>7. CASE UNCHANGED transferVars
  BY <1>7 DEF transferVars, deviceVars
<1> QED
  BY <1>1, <1>2, <1>3, <1>4, <1>5, <1>6, <1>7 DEF TransferNext, DataAcked, DataUnheard

(* The polls implement a channel for the reports: one report at a time, in *)
(* order.  (That each arrives in the end: ReportsGetThrough.)              *)
THEOREM ReportsInOrder == TransferSpec => Channel!ChannelSafe
<1>1. TransferInit => Channel!ChannelInit
  BY DEF TransferInit, Channel!ChannelInit
<1>2. TransferSpec => TransferInit /\ [][TransferNext]_transferVars
  BY DEF TransferSpec
<1> QED
  BY <1>1, <1>2, ChannelStep, TransferInvAlways, PTL DEF Channel!ChannelSafe

-----------------------------------------------------------------------------
(* Each report arrives, if the program polls again and again and the bus   *)
(* and the chip do not keep a packet from its acknowledgement for ever:    *)
(* what the fairness of FairTransfer comes to.                             *)

(* A poll asks for the packet after the first j, and there is one.         *)
AsksFor(j) == pc = "in" /\ ep = 1 /\ acked = j /\ acked < made

PollsGoOn == []<><<Poll>>_transferVars
NotForever(j) == <>[]~AsksFor(j)

(* A report main has not had is one the device still has to send, or the   *)
(* one before it is what the device sends again.                           *)
Missing(k) == buf = k /\ k < made

LEMMA MissingAsked ==
  ASSUME TransferInv, NEW k \in Nat, Missing(k)
  PROVE  acked < made /\ acked \in {k - 1, k}
BY DEF TransferInv, TransferTypeOK, Reported, Missing

(* It stays missing until main takes it, and then main has it.             *)
LEMMA MissingStays ==
  ASSUME TransferInv, [TransferNext]_transferVars, NEW k \in Nat, Missing(k)
  PROVE  Missing(k)' \/ (buf = k + 1)'
BY ChannelStep DEF Missing, Channel!Put, Channel!Take, TransferInv, TransferTypeOK

(* Every report reaches main, and before the one after it, although        *)
(* packets and handshakes are lost, polls are given up and copies come in  *)
(* between (XferInTransfer): the liveness of ReportsArrive.                *)
THEOREM ReportsGetThrough ==
  ASSUME NEW k \in Nat
  PROVE  TransferSpec /\ PollsGoOn /\ NotForever(k - 1) /\ NotForever(k)
           => (Missing(k) ~> buf = k + 1)
<1>1. TransferInv /\ [TransferNext]_transferVars /\ Missing(k) => Missing(k)' \/ (buf = k + 1)'
  BY MissingStays
<1>2. TransferInv /\ <<Poll>>_transferVars /\ Missing(k) => AsksFor(k - 1)' \/ AsksFor(k)'
  <2> SUFFICES ASSUME TransferInv, Poll, Missing(k) PROVE AsksFor(k - 1)' \/ AsksFor(k)'
    OBVIOUS
  <2>1. pc' = "in" /\ ep' = 1 /\ acked' = acked /\ made' = made
    BY DEF Poll, InTransfer, Launch, deviceVars
  <2> QED
    BY <2>1, MissingAsked DEF AsksFor
<1> QED
  BY <1>1, <1>2, TransferInvAlways, PTL DEF TransferSpec, PollsGoOn, NotForever
=============================================================================
