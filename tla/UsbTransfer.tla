---------------------------- MODULE UsbTransfer -----------------------------
(***************************************************************************)
(* The transfers of transfer.c and the polls of HID.c, packet by packet,   *)
(* between the program with its MAX3421E and one device on a bus that may  *)
(* lose what either of them sends.                                         *)
(*                                                                         *)
(* Endpoint 0 answers requests, with a data stage of several packets or    *)
(* with none; endpoint 1 has the reports, each of which ends its transfer: *)
(* it is shorter than a packet may be, or it has the eight bytes asked     *)
(* for.  The program waits while a packet is on the bus, so a packet and   *)
(* what the program does with its result are one step.                     *)
(***************************************************************************)
EXTENDS Naturals, Sequences

CONSTANTS
  USB_NAK_LIMIT,    \* refusals before a packet is given up: 200
  USB_RETRY_LIMIT,  \* unanswered tries before it is: 3
  Packets,          \* packets of a data stage
  Reports           \* reports the device has: a bound for TLC

ASSUME TransferAssumption ==
  /\ USB_NAK_LIMIT \in Nat \ {0} /\ USB_RETRY_LIMIT \in Nat \ {0}
  /\ Packets \in Nat \ {0} /\ Reports \in Nat

(* Results of a packet, HRSLT, and the one of the program's own deadline.  *)
hrSUCCESS == 0
hrNAK     == 4
hrSTALL   == 5
hrTOGERR  == 6
hrTIMEOUT == 14
Late      == 255

VARIABLES
  made, acked, togout, \* the device: reports it has had, reports it knows to
                       \* have arrived, the toggle of its next report
  stage, sent,         \* its endpoint 0: the stage, packets known to be there
  pc, ep, request,     \* the packet the program has in hand, for which
                       \* endpoint and which request
  nak_count, retry_count,
  rcvToggle,           \* saved for every endpoint, and
  hctl,                \* the one the chip uses
  got,                 \* the packets of this transfer
  rcode,               \* what the transfer returned
  polls, buf           \* polls that returned 0, the report they left

deviceVars == <<made, acked, togout, stage, sent>>
countVars  == <<nak_count, retry_count>>
transferVars ==
  <<deviceVars, pc, ep, request, countVars, rcvToggle, hctl, got, rcode, polls, buf>>

TransferInit ==
  /\ made = 0 /\ acked = 0 /\ togout = 0
  /\ stage = "idle" /\ sent = 0
  /\ pc = "idle" /\ ep = 0 /\ request = "none"
  /\ nak_count = 0 /\ retry_count = 0
  /\ rcvToggle = [e \in 0..1 |-> 0] /\ hctl = 0
  /\ got = <<>> /\ rcode = hrSUCCESS
  /\ polls = 0 /\ buf = 0

Flip(toggle) == 1 - toggle

(* The user presses or lets go of a key.                                   *)
MakeReport ==
  /\ made < Reports
  /\ made' = made + 1
  /\ UNCHANGED <<acked, togout, stage, sent, pc, ep, request, countVars,
                 rcvToggle, hctl, got, rcode, polls, buf>>

-----------------------------------------------------------------------------
(* XferDispatchPkt, after a packet that has not succeeded: refusals and    *)
(* silence are tried again, up to a limit each.                            *)

(* Variant: once more than the limits.                                     *)
Retried_Past(r) ==
  \/ r = hrNAK /\ nak_count # USB_NAK_LIMIT
  \/ r = hrTIMEOUT /\ retry_count # USB_RETRY_LIMIT
Retried(r) ==
  \/ r = hrNAK /\ nak_count + 1 # USB_NAK_LIMIT
  \/ r = hrTIMEOUT /\ retry_count + 1 # USB_RETRY_LIMIT

Count(r) ==
  /\ nak_count' = nak_count + (IF r = hrNAK THEN 1 ELSE 0)
  /\ retry_count' = retry_count + (IF r = hrTIMEOUT THEN 1 ELSE 0)

Launch(p) == pc' = p /\ nak_count' = 0 /\ retry_count' = 0
Return(r) == rcode' = r /\ Launch("idle")

Failed(r) ==
  /\ IF Retried(r) THEN Count(r) /\ UNCHANGED <<pc, rcode>> ELSE Return(r)
  /\ UNCHANGED <<ep, request, rcvToggle, hctl, got, polls, buf>>

-----------------------------------------------------------------------------
(* kbdPoll and mousePoll, and XferCtrlReq: the first packet.               *)

(* XferInTransfer, up to its loop.                                         *)
(* Variant: the chip goes on with the toggle it has.                       *)
InTransfer_Kept(toggle) == UNCHANGED hctl /\ got' = <<>> /\ Launch("in")
InTransfer(toggle) == hctl' = toggle /\ got' = <<>> /\ Launch("in")

Poll ==
  /\ pc = "idle"
  /\ ep' = 1 /\ request' = "none"
  /\ InTransfer(rcvToggle[1])
  /\ UNCHANGED <<deviceVars, rcvToggle, rcode, polls, buf>>

XferCtrlReq(r) ==
  /\ pc = "idle"
  /\ ep' = 0 /\ request' = r
  /\ got' = <<>> /\ Launch("setup")
  /\ UNCHANGED <<deviceVars, rcvToggle, hctl, rcode, polls, buf>>

(* The device is ready for the request, a new one or the same again, as    *)
(* soon as it has the packet.                                              *)
DeviceSetup ==
  /\ stage' = IF request = "data" THEN "data" ELSE "status"
  /\ sent' = 0
  /\ UNCHANGED <<made, acked, togout>>

(* Variant: the toggle is left as the last transfer has saved it.          *)
FirstToggle_Saved == rcvToggle[0]
FirstToggle == 1

(* The packet after SETUP: XferCtrlData sets the toggle, XferCtrlND goes   *)
(* to the status stage.                                                    *)
SetupDone ==
  /\ IF request = "data"
     THEN InTransfer(FirstToggle) /\ rcvToggle' = [rcvToggle EXCEPT ![0] = FirstToggle]
     ELSE Launch("status") /\ UNCHANGED <<hctl, got, rcvToggle>>
  /\ UNCHANGED <<ep, request, rcode, polls, buf>>

Setup ==
  /\ pc = "setup"
  /\ DeviceSetup
  /\ SetupDone \/ Failed(hrTIMEOUT)

-----------------------------------------------------------------------------
(* An IN packet with data: what the device sends, and what it learns of    *)
(* the handshake.                                                          *)

HasData == IF ep = 1 THEN acked < made ELSE stage = "data"
Packet  == IF ep = 1 THEN acked + 1 ELSE sent + 1
Toggle  == IF ep = 1 THEN togout ELSE (sent + 1) % 2

Acked ==
  IF ep = 1
  THEN acked' = acked + 1 /\ togout' = Flip(togout) /\ UNCHANGED <<made, stage, sent>>
  ELSE /\ sent' = sent + 1
       /\ stage' = IF sent + 1 = Packets THEN "status" ELSE "data"
       /\ UNCHANGED <<made, acked, togout>>

(* The transfer is complete with a short packet or with nbytes.            *)
(* Variant: a packet too soon.                                             *)
Complete_Early(packets) == ep = 1 \/ packets + 1 >= Packets
Complete(packets) == ep = 1 \/ packets = Packets

(* Variant: the toggle the transfer started with.                          *)
SavedToggle_Old == rcvToggle[ep]
SavedToggle == Flip(hctl)

(* XferInTransfer after a packet with the right toggle.  The last one of a *)
(* poll leaves its report with main.                                       *)
Received ==
  /\ got' = Append(got, Packet)
  /\ hctl' = Flip(hctl)
  /\ IF Complete(Len(got) + 1)
     THEN /\ rcvToggle' = [rcvToggle EXCEPT ![ep] = SavedToggle]
          /\ IF ep = 1
             THEN Return(hrSUCCESS) /\ buf' = Packet /\ polls' = polls + 1
             ELSE Launch("status") /\ UNCHANGED <<rcode, polls, buf>>
     ELSE Launch("in") /\ UNCHANGED <<rcvToggle, rcode, polls, buf>>
  /\ UNCHANGED <<ep, request>>

(* The chip answers a packet with the wrong toggle, too, and drops it.     *)
Data ==
  /\ pc = "in" /\ HasData
  /\ IF Toggle = hctl THEN Received ELSE Failed(hrTOGERR)

DataAcked  == Data /\ Acked
DataUnheard == Data /\ UNCHANGED deviceVars

-----------------------------------------------------------------------------
(* The status stage, and what may go wrong with any packet.                *)

StatusDone ==
  /\ Return(hrSUCCESS)
  /\ UNCHANGED <<ep, request, rcvToggle, hctl, got, polls, buf>>

(* With a data stage the status goes out, and the device's handshake may   *)
(* be lost; without one the device sends it, and may not hear ours.        *)
Status ==
  /\ pc = "status" /\ stage # "idle"
  /\ \/ stage' = "idle" /\ StatusDone
     \/ stage' = "idle" /\ request = "data" /\ Failed(hrTIMEOUT)
     \/ stage' = stage /\ request # "data" /\ StatusDone
  /\ UNCHANGED <<made, acked, togout, sent>>

(* The handshake of a status the device has already had is repeated.       *)
StatusAgain ==
  /\ pc = "status" /\ stage = "idle"
  /\ StatusDone
  /\ UNCHANGED deviceVars

(* The packet, or the answer to it, is lost.                               *)
Silence ==
  /\ pc # "idle"
  /\ Failed(hrTIMEOUT)
  /\ UNCHANGED deviceVars

(* The device is not ready.                                                *)
Refused ==
  /\ pc \in {"in", "status"}
  /\ Failed(hrNAK)
  /\ UNCHANGED deviceVars

(* The device does not know the request.                                   *)
Stalled ==
  /\ pc \in {"in", "status"} /\ ep = 0
  /\ Failed(hrSTALL)
  /\ UNCHANGED deviceVars

(* The chip does not come back before the deadline, nor after it.          *)
Deadline ==
  /\ pc # "idle"
  /\ Return(Late)
  /\ UNCHANGED <<deviceVars, ep, request, rcvToggle, hctl, got, polls, buf>>

TransferNext ==
  \/ MakeReport
  \/ Poll \/ (\E r \in {"data", "nodata"} : XferCtrlReq(r))
  \/ Setup \/ DataAcked \/ DataUnheard \/ Status \/ StatusAgain
  \/ Silence \/ Refused \/ Stalled \/ Deadline

TransferSpec == TransferInit /\ [][TransferNext]_transferVars

(* The program goes on and polls, and a packet of the reports gets through *)
(* again and again.                                                        *)
FairTransfer ==
  /\ TransferSpec
  /\ WF_transferVars(pc # "idle" /\ TransferNext)
  /\ SF_transferVars(Poll) /\ SF_transferVars(ep = 1 /\ DataAcked)

-----------------------------------------------------------------------------
TransferTypeOK ==
  /\ made \in 0..Reports /\ acked \in 0..Reports /\ togout \in 0..1
  /\ stage \in {"idle", "data", "status"} /\ sent \in 0..Packets
  /\ pc \in {"idle", "setup", "in", "status"} /\ ep \in 0..1
  /\ request \in {"none", "data", "nodata"}
  /\ nak_count \in 0..(USB_NAK_LIMIT - 1) /\ retry_count \in 0..(USB_RETRY_LIMIT - 1)
  /\ rcvToggle \in [0..1 -> 0..1] /\ hctl \in 0..1
  /\ got \in Seq(Nat)
  /\ rcode \in {hrSUCCESS, hrNAK, hrSTALL, hrTOGERR, hrTIMEOUT, Late}
  /\ polls \in 0..Reports /\ buf \in 0..Reports

(* A poll that returns 0 leaves main a report it has not had, and the      *)
(* device drops none that main has not had, although handshakes are lost,  *)
(* polls are given up in the middle, and requests to endpoint 0 come       *)
(* between (the saved toggles of XferInTransfer).                          *)
ReportOnce == buf = polls /\ buf \in {acked, acked + 1}

(* A request that has returned 0 after a data stage has all its packets in *)
(* order, none twice, also when SETUP was sent again or a packet came      *)
(* again (XferCtrlReq, XferCtrlData, XferInTransfer).                      *)
RequestWhole ==
  pc = "idle" /\ request = "data" /\ rcode = hrSUCCESS =>
    got = [i \in 1..Packets |-> i]

(* The polls are a channel for the reports: each reaches main in the end,  *)
(* in order and once.                                                      *)
Channel == INSTANCE Channel WITH put <- made, taken <- buf
ReportsArrive == Channel!ChannelSpec

(* A packet the chip drops for its toggle is one the transfer has had, or  *)
(* the poll before: the toggle a transfer begins with is the device's,     *)
(* whatever the last one has left behind.                                  *)
DropsOnlyCopies ==
  pc = "in" /\ HasData /\ Toggle # hctl =>
    IF ep = 1 THEN Packet = buf ELSE got # <<>> /\ Packet = got[Len(got)]
=============================================================================
