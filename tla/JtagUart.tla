----------------------------- MODULE JtagUart -------------------------------
(***************************************************************************)
(* The driver of the JTAG UART behind stdin and stdout, with the alarm     *)
(* that tells it whether there is a host: altera_avalon_jtag_uart_init.c,  *)
(* _write.c and _read.c.                                                   *)
(*                                                                         *)
(* A character the program writes goes through a ring of the driver and a  *)
(* FIFO of the UART to the host; one the host types comes the other way.   *)
(* The program reads and writes the rings in steps, and between any two of *)
(* them an interrupt may move characters or the clock may tick.  A pass of *)
(* the interrupt routine is one step: it sees no difference between a      *)
(* character the host moves meanwhile and one it moves before or after.    *)
(* Characters are known by their numbers.                                  *)
(***************************************************************************)
EXTENDS Alarm, Sequences

CONSTANTS
  BufLen,     \* ALTERA_AVALON_JTAG_UART_BUF_LEN: 2048
  Depth,      \* characters a FIFO holds: 64
  Threshold,  \* characters left in it when the UART asks for more: 8
  Timeout,    \* seconds without a host until it is given up: 10
  IntMax,     \* INT_MAX
  Chars, Keys \* characters the program and the host have to send: bounds for TLC

ASSUME JtagAssumption ==
  /\ BufLen \in Nat /\ BufLen >= 2
  /\ Depth \in Nat /\ Threshold \in Nat /\ Threshold < Depth
  /\ Timeout \in Nat \ {0} /\ IntMax \in Nat /\ Timeout <= IntMax - 2
  /\ Chars \in Nat /\ Keys \in Nat

VARIABLES
  WE, RE,          \* irq_enable
  AC,              \* the UART: the host has done something
  txfifo, rxfifo,
  gone,            \* the host has been unplugged
  tx_buf, tx_in, tx_out,
  rx_buf, rx_in, rx_out,
  host_inactive,
  pc,              \* the step the program is at
  count,           \* characters the call has still to move
  seen,            \* the index of the interrupt routine, as the call read it
  n, copied,       \* a memcpy under way
  any,             \* the call has moved some
  put, taken,      \* characters written to the ring, the last the host has
  typed, read      \* characters the host has typed, the last the program has

txVars   == <<tx_buf, tx_in, tx_out>>
rxVars   == <<rx_buf, rx_in, rx_out>>
callVars == <<count, seen, n, copied, any>>
uartVars ==
  <<alarmVars, WE, RE, AC, txfifo, rxfifo, gone, txVars, rxVars, host_inactive,
    pc, callVars, put, taken, typed, read>>

(* The variables of a call go with it.                                     *)
Goto(step) ==
  /\ pc' = step
  /\ IF step = "idle"
     THEN count' = 0 /\ seen' = 0 /\ n' = 0 /\ copied' = 0 /\ any' = FALSE
     ELSE UNCHANGED callVars

Index == 0..(BufLen - 1)

(* An index past the end of the ring, % BUF_LEN.                           *)
(* Variant: it is not brought back.                                        *)
Wrap_Not(i) == i
Wrap(i) == IF i >= BufLen THEN i - BufLen ELSE i

(* Characters from one index up to another.                                *)
Dist(from, to) == IF to >= from THEN to - from ELSE to - from + BufLen

Least(a, b) == IF a <= b THEN a ELSE b

JtagInit ==
  /\ AlarmStart
  /\ WE = FALSE /\ RE = TRUE /\ AC = FALSE
  /\ txfifo = <<>> /\ rxfifo = <<>> /\ gone = FALSE
  /\ tx_buf = [j \in Index |-> 0] /\ tx_in = 0 /\ tx_out = 0
  /\ rx_buf = [j \in Index |-> 0] /\ rx_in = 0 /\ rx_out = 0
  /\ host_inactive = 0
  /\ pc = "idle" /\ any = FALSE
  /\ count = 0 /\ seen = 0 /\ n = 0 /\ copied = 0
  /\ put = 0 /\ taken = 0 /\ typed = 0 /\ read = 0

-----------------------------------------------------------------------------
(* The host.                                                               *)

HostTake ==
  /\ ~gone /\ txfifo # <<>>
  /\ taken' = Head(txfifo) /\ txfifo' = Tail(txfifo)
  /\ AC' = TRUE
  /\ UNCHANGED <<alarmVars, WE, RE, rxfifo, gone, txVars, rxVars, host_inactive,
                 pc, callVars, put, typed, read>>

HostType ==
  /\ ~gone /\ typed < Keys /\ Len(rxfifo) < Depth
  /\ typed' = typed + 1 /\ rxfifo' = Append(rxfifo, typed + 1)
  /\ AC' = TRUE
  /\ UNCHANGED <<alarmVars, WE, RE, txfifo, gone, txVars, rxVars, host_inactive,
                 pc, callVars, put, taken, read>>

HostLeaves ==
  /\ ~gone
  /\ gone' = TRUE
  /\ UNCHANGED <<alarmVars, WE, RE, AC, txfifo, rxfifo, txVars, rxVars,
                 host_inactive, pc, callVars, put, taken, typed, read>>

-----------------------------------------------------------------------------
(* altera_avalon_jtag_uart_irq: one pass of its loop.                      *)

RI == RE /\ rxfifo # <<>>
WI == WE /\ Len(txfifo) <= Threshold

(* Variant: the ring is filled up to the last slot.                        *)
Room_All(in, out) == BufLen - Dist(out, in)
Room(in, out) == BufLen - 1 - Dist(out, in)

(* A read interrupt moves what the ring has room for; if the FIFO still    *)
(* has some, the ring is full, and reading is turned off.                  *)
Receive ==
  LET m == Least(Len(rxfifo), Room(rx_in, rx_out)) IN
  IF RI
  THEN /\ rx_buf' = [j \in Index |->
                       IF Dist(rx_in, j) < m THEN rxfifo[Dist(rx_in, j) + 1] ELSE rx_buf[j]]
       /\ rx_in' = Wrap(rx_in + m)
       /\ rxfifo' = SubSeq(rxfifo, m + 1, Len(rxfifo))
       /\ RE' = (m = Len(rxfifo))
  ELSE UNCHANGED <<rx_buf, rx_in, rxfifo, RE>>

(* A write interrupt fills the FIFO from the ring; if there is room left   *)
(* the ring is empty, and writing is turned off.                           *)
(* Variant: it is turned off in any case.                                  *)
WriteOn_Never(m) == FALSE
WriteOn(m) == m = Depth - Len(txfifo)

Transmit ==
  LET m == Least(Depth - Len(txfifo), Dist(tx_out, tx_in)) IN
  IF WI
  THEN /\ txfifo' = txfifo \o [k \in 1..m |-> tx_buf[Wrap(tx_out + k - 1)]]
       /\ tx_out' = Wrap(tx_out + m)
       /\ WE' = WriteOn(m)
  ELSE UNCHANGED <<txfifo, tx_out, WE>>

Isr ==
  /\ RI \/ WI
  /\ Receive /\ Transmit
  /\ UNCHANGED <<alarmVars, AC, gone, tx_buf, tx_in, rx_out, host_inactive, pc,
                 callVars, put, taken, typed, read>>

(* The interrupt of the clock, and altera_avalon_jtag_uart_timeout when    *)
(* the alarm goes off.                                                     *)
CheckHost ==
  IF AC THEN AC' = FALSE /\ host_inactive' = 0
  ELSE /\ host_inactive' = IF host_inactive < IntMax - 2 THEN host_inactive + 1
                           ELSE host_inactive
       /\ AC' = AC

Tick ==
  /\ alt_tick
  /\ IF GoesOff(alt_nticks') THEN CheckHost ELSE UNCHANGED <<AC, host_inactive>>
  /\ UNCHANGED <<WE, RE, txfifo, rxfifo, gone, txVars, rxVars, pc, callVars,
                 put, taken, typed, read>>

-----------------------------------------------------------------------------
(* altera_avalon_jtag_uart_write.                                          *)

untouchedByWrite ==
  <<alarmVars, AC, txfifo, rxfifo, RE, gone, rxVars, tx_out, host_inactive,
    taken, typed, read>>

Write ==
  /\ pc = "idle" /\ put < Chars
  /\ count' \in 1..(Chars - put)
  /\ pc' = "wlook"
  /\ UNCHANGED <<untouchedByWrite, WE, tx_buf, tx_in, seen, n, copied, any, put>>

(* The room in one piece, as far as the index read shows it.               *)
(* Variant: the slot kept free is used, too.                               *)
Space_All(in, out) == IF in < out THEN out - in ELSE BufLen - in
Space(in, out) ==
  IF in < out THEN out - 1 - in ELSE IF out > 0 THEN BufLen - in ELSE BufLen - 1 - in

WriteLook ==
  /\ pc = "wlook"
  /\ seen' = tx_out
  /\ n' = Least(Space(tx_in, tx_out), count)
  /\ pc' = IF Space(tx_in, tx_out) = 0 THEN "wenable" ELSE "wcopy"
  /\ UNCHANGED <<untouchedByWrite, WE, tx_buf, tx_in, count, copied, any, put>>

(* memcpy, a character at a time, and the index after the last.            *)
WriteCopy ==
  /\ pc = "wcopy"
  /\ tx_buf' = [tx_buf EXCEPT ![tx_in + copied] = put + 1]
  /\ put' = put + 1 /\ copied' = copied + 1
  /\ pc' = IF copied + 1 = n THEN "wadvance" ELSE "wcopy"
  /\ UNCHANGED <<untouchedByWrite, WE, tx_in, count, seen, n, any>>

WriteAdvance ==
  /\ pc = "wadvance"
  /\ tx_in' = Wrap(tx_in + n) /\ count' = count - n
  /\ pc' = IF count - n = 0 THEN "wenable" ELSE "wlook"
  /\ seen' = 0 /\ n' = 0 /\ copied' = 0
  /\ UNCHANGED <<untouchedByWrite, WE, tx_buf, any, put>>

(* The interrupt is asked for every time.  A call that has characters left *)
(* waits, unless it is told not to (O_NONBLOCK).                           *)
(* Variant: only if the call has to wait.                                  *)
Kick_Waiting == WE \/ count > 0
Kick == TRUE

WriteEnable ==
  /\ pc = "wenable"
  /\ WE' = Kick
  /\ \/ count > 0 /\ Goto("wwait")
     \/ Goto("idle")
  /\ UNCHANGED <<untouchedByWrite, tx_buf, tx_in, put>>

(* Variant: for room alone.                                                *)
Waits_Long(index) == index = seen
Waits(index) == index = seen /\ host_inactive < Timeout

(* With no room the call waits for some, or for the host to be given up;   *)
(* and once the host has missed a second, it gives up what is left.        *)
WriteWait ==
  /\ pc = "wwait" /\ ~Waits(tx_out)
  /\ Goto(IF host_inactive # 0 THEN "idle" ELSE "wlook")
  /\ UNCHANGED <<untouchedByWrite, WE, tx_buf, tx_in, put>>

(* altera_avalon_jtag_uart_close waits for the ring to be empty.           *)
Close ==
  /\ pc = "idle" /\ tx_in # tx_out
  /\ pc' = "close"
  /\ UNCHANGED <<untouchedByWrite, WE, tx_buf, tx_in, callVars, put>>

CloseWait ==
  /\ pc = "close"
  /\ tx_out = tx_in \/ host_inactive >= Timeout
  /\ Goto("idle")
  /\ UNCHANGED <<untouchedByWrite, WE, tx_buf, tx_in, put>>

-----------------------------------------------------------------------------
(* altera_avalon_jtag_uart_read.                                           *)

untouchedByRead ==
  <<alarmVars, AC, txfifo, rxfifo, WE, gone, txVars, rx_buf, rx_in,
    host_inactive, put, taken, typed>>

Read ==
  /\ pc = "idle"
  /\ count' \in 1..Keys
  /\ pc' = "rlook"
  /\ UNCHANGED <<untouchedByRead, RE, rx_out, seen, n, copied, any, read>>

(* The characters in one piece; with none the call waits, unless it is     *)
(* told not to.                                                            *)
Held(in, out) == IF in >= out THEN in - out ELSE BufLen - out

ReadLook ==
  /\ pc = "rlook"
  /\ \/ /\ seen' = rx_in
        /\ n' = Least(Held(rx_in, rx_out), count)
        /\ pc' = IF Held(rx_in, rx_out) > 0 THEN "rcopy"
                 ELSE IF any THEN "renable" ELSE "rwait"
        /\ UNCHANGED <<count, copied, any>>
     \/ Held(rx_in, rx_out) = 0 /\ ~any /\ Goto("idle")
  /\ UNCHANGED <<untouchedByRead, RE, rx_out, read>>

ReadCopy ==
  /\ pc = "rcopy"
  /\ read' = rx_buf[rx_out + copied]
  /\ copied' = copied + 1
  /\ pc' = IF copied + 1 = n THEN "radvance" ELSE "rcopy"
  /\ UNCHANGED <<untouchedByRead, RE, rx_out, count, seen, n, any>>

ReadAdvance ==
  /\ pc = "radvance"
  /\ rx_out' = Wrap(rx_out + n) /\ count' = count - n /\ any' = TRUE
  /\ pc' = IF count - n = 0 THEN "renable" ELSE "rlook"
  /\ seen' = 0 /\ n' = 0 /\ copied' = 0
  /\ UNCHANGED <<untouchedByRead, RE, read>>

(* There is room now, so reading is turned on.                             *)
(* Variant: the last call has not filled the caller's buffer.              *)
ReadOn_Short == RE \/ count > 0
ReadOn == TRUE

ReadEnable ==
  /\ pc = "renable"
  /\ RE' = ReadOn
  /\ Goto("idle")
  /\ UNCHANGED <<untouchedByRead, rx_out, read>>

ReadWait ==
  /\ pc = "rwait" /\ ~Waits(rx_in)
  /\ Goto(IF seen = rx_in THEN "idle" ELSE "rlook")
  /\ UNCHANGED <<untouchedByRead, RE, rx_out, read>>

Call ==
  \/ WriteLook \/ WriteCopy \/ WriteAdvance \/ WriteEnable \/ WriteWait \/ CloseWait
  \/ ReadLook \/ ReadCopy \/ ReadAdvance \/ ReadEnable \/ ReadWait

JtagNext ==
  \/ HostTake \/ HostType \/ HostLeaves
  \/ Isr \/ Tick
  \/ Write \/ Close \/ Read \/ Call

JtagSpec == JtagInit /\ [][JtagNext]_uartVars

(* A call goes on, interrupts are served, the clock ticks, and a host that *)
(* is there takes what the UART has for it.                                *)
FairJtag ==
  JtagSpec /\ WF_uartVars(Call) /\ WF_uartVars(Isr) /\ WF_uartVars(Tick) /\ WF_uartVars(HostTake)

-----------------------------------------------------------------------------
JtagTypeOK ==
  /\ AlarmTypeOK
  /\ WE \in BOOLEAN /\ RE \in BOOLEAN /\ AC \in BOOLEAN /\ gone \in BOOLEAN
  /\ txfifo \in Seq(1..Chars) /\ Len(txfifo) <= Depth
  /\ rxfifo \in Seq(1..Keys) /\ Len(rxfifo) <= Depth
  /\ tx_buf \in [Index -> 0..Chars] /\ tx_in \in Index /\ tx_out \in Index
  /\ rx_buf \in [Index -> 0..Keys] /\ rx_in \in Index /\ rx_out \in Index
  /\ host_inactive \in 0..(IntMax - 2)
  /\ pc \in {"idle", "wlook", "wcopy", "wadvance", "wenable", "wwait", "close",
             "rlook", "rcopy", "radvance", "renable", "rwait"}
  /\ any \in BOOLEAN /\ count \in Nat /\ seen \in Index /\ n \in 0..(BufLen - 1) /\ copied \in 0..n
  /\ put \in 0..Chars /\ taken \in 0..Chars
  /\ typed \in 0..Keys /\ read \in 0..Keys

(* Characters written reach the host in order, none lost in the ring and   *)
(* none sent twice, whichever index the interrupt moves while the call     *)
(* computes with what it read before.                                      *)
Written == INSTANCE Channel WITH put <- put, taken <- taken
TxInOrder == Written!ChannelSafe

(* The same for what the host types.                                       *)
Typed == INSTANCE Channel WITH put <- typed, taken <- read
RxInOrder == Typed!ChannelSafe

(* No character waits in the ring with the interrupt off, unless the call  *)
(* that put it there is about to turn it on: the interrupt routine turns   *)
(* it off only on an empty ring.                                           *)
TxNotStuck == tx_in # tx_out /\ ~WE => pc \in {"wlook", "wcopy", "wadvance", "wenable"}

(* Reading is off only while the ring has something a read will find, or a *)
(* read that has found some is about to turn it on.                        *)
RxNotDeaf ==
  ~RE => \/ rx_in # rx_out
         \/ any /\ pc \in {"rlook", "rcopy", "radvance", "renable"}

(* A call for output comes back, whether the host takes what it is sent or *)
(* has been unplugged.                                                     *)
WriteReturns == pc \in {"wwait", "close"} ~> pc = "idle"

(* What is written reaches a host that stays, without another write.       *)
CharsArrive == taken < put ~> taken = put \/ gone
=============================================================================
