------------------------------ MODULE UsbHost -------------------------------
(***************************************************************************)
(* The USB host of the keyboard: the loop of main.c, the interrupt handler *)
(* and the bus probe of MAX3421E.c, the state machine USB_Task and its     *)
(* device table in transfer.c and the two class probes of HID.c, over the  *)
(* MAX3421E chip and a bus with one socket.                                *)
(*                                                                         *)
(* The program is one thread, cut where the bus, the chip or the clock may *)
(* change something it has read: between reading the interrupt register    *)
(* and acknowledging it, and around each call of the loop.  A request to   *)
(* the device succeeds or fails as a whole; UsbTransfer shows its packets. *)
(* Prints, lights and the error codes nobody reads are left out.           *)
(***************************************************************************)
EXTENDS Integers

CONSTANTS
  USB_NUMDEVICES,  \* table entries beside entry 0: 8; addresses stop below it
  Settle,          \* time a device is left alone after it is attached: 200 ms
  MsWrap,          \* values the milliseconds take before they start again
  Kinds            \* the devices somebody may plug in

ASSUME UsbAssumption ==
  /\ USB_NUMDEVICES \in Nat /\ USB_NUMDEVICES >= 2
  /\ Settle \in Nat /\ MsWrap \in Nat \ {0}
  /\ Kinds \subseteq {"keyboard", "mouse", "storage"}

(* The states of USB.h.                                                    *)
DETACHED_INITIALIZE      == 1
DETACHED_WAIT_FOR_DEVICE == 3
DETACHED_ILLEGAL         == 4
ATTACHED                 == 16
SETTLE                   == 17
RESET_DEVICE             == 18
WAIT_RESET_COMPLETE      == 19
WAIT_SOF                 == 20
GET_DEVICE_DESCRIPTOR    == 21
ADDRESSING               == 32
CONFIGURING              == 48
RUNNING                  == 64
ERROR                    == 255
Detached(s) == s < 16

(* The classes of transfer.h.                                              *)
UNINIT == 0
HID_K  == 1
HID_M  == 2
Driver(kind) ==
  IF kind = "keyboard" THEN HID_K ELSE IF kind = "mouse" THEN HID_M ELSE UNINIT

VARIABLES
  dev,       \* the socket: the kind of device in it, if any, and the address
             \* it answers to, NoAddress before its bus reset
  condet, busevent, \* the chip: two bits of HIRQ,
  busrst,           \* a bus reset under way,
  mode,             \* MODE: frames are sent, and at low speed
  pc,        \* the step the program is at
  hirq,      \* BUSEVENTIRQ as the handler has read it
  usb_task_state, usb_delay, tmp_addr,
  epinfo, devclass, \* the device table
  hid_addr,  \* hid_device.addr
  runningdebugflag, device, \* main: it has seen RUNNING; the class it polls
  ms         \* alt_nticks() * 1000 / alt_ticks_per_second()

busVars  == <<dev, condet, busevent, busrst, mode>>
taskVars == <<usb_task_state, usb_delay, tmp_addr, epinfo, devclass, hid_addr>>
mainVars == <<runningdebugflag, device>>
usbVars  == <<busVars, pc, hirq, taskVars, mainVars, ms>>

Entry   == 0..USB_NUMDEVICES
Address == 1..(USB_NUMDEVICES - 1)
NoAddress == -1
NoDevice == [kind |-> "none", addr |-> NoAddress]
NULL == "null"

(* Variant: entry 0 is cleared with the others.                            *)
ClearTable_All == [e \in Entry |-> NULL]
ClearTable == [e \in Entry |-> IF e = 0 THEN "dev0" ELSE NULL]
NoClasses  == [e \in Entry |-> UNINIT]

UsbHostInit ==
  /\ dev \in {NoDevice} \cup [kind : Kinds, addr : {NoAddress}]
  /\ condet = FALSE /\ busevent = FALSE /\ busrst = FALSE
  /\ mode = [sof |-> FALSE, low |-> FALSE]
  /\ pc = "init" /\ hirq = FALSE
  /\ usb_task_state = DETACHED_INITIALIZE /\ usb_delay = 0 /\ tmp_addr = 0
  /\ epinfo = [e \in Entry |-> NULL] /\ devclass = NoClasses /\ hid_addr = 0
  /\ runningdebugflag = FALSE /\ device = UNINIT
  /\ ms = 0

-----------------------------------------------------------------------------
(* The bus and the chip.                                                   *)

Slow == dev.kind \in {"keyboard", "mouse"}

(* The lines as the chip samples them: a device holds the one that is J at *)
(* its own speed; while it is put in the sample may catch both.            *)
BusSample(m) ==
  IF dev = NoDevice THEN {"SE0"} ELSE {IF Slow = m.low THEN "J" ELSE "K", "SE1"}

Plug(kind) ==
  /\ dev = NoDevice
  /\ dev' = [kind |-> kind, addr |-> NoAddress]
  /\ condet' = TRUE
  /\ UNCHANGED <<busevent, busrst, mode, pc, hirq, taskVars, mainVars, ms>>

Unplug ==
  /\ dev # NoDevice
  /\ dev' = NoDevice
  /\ condet' = TRUE
  /\ UNCHANGED <<busevent, busrst, mode, pc, hirq, taskVars, mainVars, ms>>

(* The chip ends a bus reset: a device that is there answers to address 0  *)
(* from now on; the reset may look like a new connection.                  *)
ResetDone ==
  /\ busrst
  /\ busrst' = FALSE /\ busevent' = TRUE
  /\ IF dev = NoDevice THEN UNCHANGED <<dev, condet>>
     ELSE dev' = [dev EXCEPT !.addr = 0] /\ condet' \in {condet, TRUE}
  /\ UNCHANGED <<mode, pc, hirq, taskVars, mainVars, ms>>

(* A request to an address can succeed: a device with that address is      *)
(* there, frames are sent, and at its speed.                               *)
Answers(addr) == dev.addr = addr /\ mode.sof /\ mode.low = Slow /\ ~busrst

-----------------------------------------------------------------------------
(* MAX_busprobe, on a sample of the lines.                                 *)

(* Variant: a lost device is not looked at.                                *)
SeenGone_Keep(s) == s
SeenGone(s) == IF Detached(s) THEN DETACHED_WAIT_FOR_DEVICE ELSE DETACHED_INITIALIZE

(* A bus reset looks like a new connection.                                *)
(* Variant: anywhere in the attachment sequence.                           *)
ResetExpected_Attached(s) == s \in ATTACHED + 1..GET_DEVICE_DESCRIPTOR
ResetExpected(s) == s = WAIT_RESET_COMPLETE

Probed(s, sample) ==
  IF sample = "SE1" THEN DETACHED_ILLEGAL
  ELSE IF sample = "SE0" THEN SeenGone(s)
  ELSE IF ResetExpected(s) THEN s
  ELSE ATTACHED

LowSpeed(sample, m) == (sample = "J") = m.low

Host(low) == [sof |-> TRUE, low |-> low]

ProbedMode(s, sample, m) ==
  IF sample = "SE0" /\ Detached(s) THEN Host(FALSE)
  ELSE IF sample \in {"J", "K"} /\ ~ResetExpected(s) THEN Host(LowSpeed(sample, m))
  ELSE m

(* Only the connection interrupt drives the pin.                           *)
IntPin == condet

(* MAX3421E_Task and MaxIntHandler up to the probe.                        *)
Interrupt ==
  /\ pc = "int"
  /\ IF IntPin
     THEN /\ hirq' = busevent
          /\ pc' = "ack"
          /\ \E sample \in BusSample(mode) :
               /\ usb_task_state' = Probed(usb_task_state, sample)
               /\ mode' = ProbedMode(usb_task_state, sample, mode)
     ELSE pc' = "task" /\ UNCHANGED <<hirq, usb_task_state, mode>>
  /\ UNCHANGED <<dev, condet, busevent, busrst, usb_delay, tmp_addr, epinfo,
                 devclass, hid_addr, mainVars, ms>>

(* The rest of MaxIntHandler: the bus event advances the state machine,    *)
(* and what was read is acknowledged.                                      *)
Acknowledge ==
  /\ pc = "ack"
  /\ usb_task_state' = IF hirq THEN (usb_task_state + 1) % 256 ELSE usb_task_state
  /\ condet' = FALSE
  /\ busevent' = (busevent /\ ~hirq)
  /\ pc' = "task" /\ hirq' = FALSE
  /\ UNCHANGED <<dev, busrst, mode, usb_delay, tmp_addr, epinfo, devclass,
                 hid_addr, mainVars, ms>>

(* MAX3421E_init: the chip is reset and the bus probed.                    *)
AfterReset == [sof |-> FALSE, low |-> FALSE]

InitProbe ==
  /\ pc = "init"
  /\ busevent' = FALSE /\ busrst' = FALSE
  /\ \E sample \in BusSample(AfterReset) :
       /\ usb_task_state' = Probed(usb_task_state, sample)
       /\ mode' = ProbedMode(usb_task_state, sample, AfterReset)
  /\ pc' = "initack"
  /\ UNCHANGED <<dev, condet, hirq, usb_delay, tmp_addr, epinfo, devclass,
                 hid_addr, mainVars, ms>>

(* Its end, which clears the connection interrupt, and USB_init.           *)
InitEnd ==
  /\ pc = "initack"
  /\ condet' = FALSE
  /\ epinfo' = ClearTable /\ devclass' = NoClasses
  /\ pc' = "int"
  /\ UNCHANGED <<dev, busevent, busrst, mode, hirq, usb_task_state, usb_delay,
                 tmp_addr, hid_addr, mainVars, ms>>

-----------------------------------------------------------------------------
(* USB_Task: one case of its switch.                                       *)

Task(s) == pc = "task" /\ usb_task_state = s /\ pc' = "main"
Goto(s) == usb_task_state' = s
KeepTable == UNCHANGED <<tmp_addr, epinfo, devclass, hid_addr>>

TaskInitialize ==
  /\ Task(DETACHED_INITIALIZE)
  /\ epinfo' = ClearTable /\ devclass' = NoClasses
  /\ Goto(DETACHED_WAIT_FOR_DEVICE)
  /\ UNCHANGED <<busVars, hirq, usb_delay, tmp_addr, hid_addr, mainVars, ms>>

TaskAttached ==
  /\ Task(ATTACHED)
  /\ usb_delay' = ms + Settle
  /\ Goto(SETTLE)
  /\ KeepTable /\ UNCHANGED <<busVars, hirq, mainVars, ms>>

(* Variant: one unit more is waited.                                       *)
Settled_Late == ms > usb_delay + 1
Settled == ms > usb_delay

TaskSettle ==
  /\ Task(SETTLE)
  /\ Goto(IF Settled THEN RESET_DEVICE ELSE SETTLE)
  /\ KeepTable /\ UNCHANGED <<busVars, hirq, usb_delay, mainVars, ms>>

TaskReset ==
  /\ Task(RESET_DEVICE)
  /\ busevent' = FALSE
  /\ busrst' = TRUE
  /\ Goto(WAIT_RESET_COMPLETE)
  /\ KeepTable /\ UNCHANGED <<dev, condet, mode, hirq, usb_delay, mainVars, ms>>

(* Variant: the reset is not waited for.                                   *)
ResetOver_Always == TRUE
ResetOver == ~busrst

TaskWaitReset ==
  /\ Task(WAIT_RESET_COMPLETE)
  /\ IF ResetOver THEN mode' = [mode EXCEPT !.sof = TRUE] /\ Goto(WAIT_SOF)
     ELSE UNCHANGED <<mode, usb_task_state>>
  /\ KeepTable
  /\ UNCHANGED <<dev, condet, busevent, busrst, hirq, usb_delay, mainVars, ms>>

(* The test for the first frame is always true.                            *)
TaskWaitSof ==
  /\ Task(WAIT_SOF)
  /\ Goto(GET_DEVICE_DESCRIPTOR)
  /\ KeepTable /\ UNCHANGED <<busVars, hirq, usb_delay, mainVars, ms>>

(* The first of the requests for descriptors decides; the others may fail. *)
TaskGetDescriptor ==
  /\ Task(GET_DEVICE_DESCRIPTOR)
  /\ \/ Answers(0) /\ Goto(ADDRESSING)
     \/ Goto(ERROR)
  /\ KeepTable /\ UNCHANGED <<busVars, hirq, usb_delay, mainVars, ms>>

(* Variant: the last entry of the table is an address, too.                *)
FreeAddresses_Last == {a \in 1..USB_NUMDEVICES : epinfo[a] = NULL}
FreeAddresses == {a \in Address : epinfo[a] = NULL}

(* A failed request may have reached the device all the same.              *)
SetAddress(a) ==
  /\ epinfo' = [epinfo EXCEPT ![a] = epinfo[0]]
  /\ \/ /\ Answers(0)
        /\ dev' = [dev EXCEPT !.addr = a]
        /\ \/ tmp_addr' = a /\ Goto(CONFIGURING)
           \/ UNCHANGED tmp_addr /\ Goto(ERROR)
     \/ UNCHANGED <<dev, tmp_addr>> /\ Goto(ERROR)

TaskAddressing ==
  /\ Task(ADDRESSING)
  /\ \/ \E a \in FreeAddresses :
          /\ \A b \in FreeAddresses : a <= b
          /\ SetAddress(a)
     \/ FreeAddresses = {} /\ Goto(ERROR) /\ UNCHANGED <<dev, tmp_addr, epinfo>>
  /\ UNCHANGED <<condet, busevent, busrst, mode, hirq, usb_delay, devclass,
                 hid_addr, mainVars, ms>>

(* The probes: the one whose class the device has fills in the table and   *)
(* then sets the configuration and the protocol, which may fail; no other  *)
(* fits then.                                                              *)
Claim(a, class) ==
  /\ Answers(a) /\ Driver(dev.kind) = class
  /\ devclass' = [devclass EXCEPT ![a] = class]
  /\ epinfo' = [epinfo EXCEPT ![a] = "hid"]
  /\ hid_addr' = a
  /\ Goto(RUNNING) \/ Goto(ERROR)

HIDMProbe(a) == Claim(a, HID_M)
HIDKProbe(a) == Claim(a, HID_K)

TaskConfiguring ==
  /\ Task(CONFIGURING)
  /\ \/ HIDMProbe(tmp_addr)
     \/ HIDKProbe(tmp_addr)
     \/ Goto(ERROR) /\ UNCHANGED <<devclass, epinfo, hid_addr>>
  /\ UNCHANGED <<busVars, hirq, usb_delay, tmp_addr, mainVars, ms>>

(* The states that wait for the interrupt, the substates USB_Task does not *)
(* know among them.                                                        *)
TaskIdle ==
  /\ pc = "task" /\ pc' = "main"
  /\ \/ Detached(usb_task_state) /\ usb_task_state # DETACHED_INITIALIZE
     \/ usb_task_state \in {RUNNING, ERROR}
  /\ UNCHANGED <<busVars, hirq, taskVars, mainVars, ms>>

USB_Task ==
  \/ TaskInitialize \/ TaskAttached \/ TaskSettle \/ TaskReset \/ TaskWaitReset
  \/ TaskWaitSof \/ TaskGetDescriptor \/ TaskAddressing \/ TaskConfiguring \/ TaskIdle

-----------------------------------------------------------------------------
(* main, after the two calls.                                              *)

(* GetDriverandReport: the class of the last entry in use.                 *)
(* Variant: of the first.                                                  *)
Report_First ==
  LET used == {a \in Address : epinfo[a] # NULL} IN
  IF used = {} THEN 255
  ELSE devclass[CHOOSE a \in used : \A b \in used : a <= b]

Report ==
  LET used == {a \in Address : epinfo[a] # NULL} IN
  IF used = {} THEN 255
  ELSE devclass[CHOOSE a \in used : \A b \in used : b <= a]

(* A pass of the loop takes at most one unit of time.                      *)
Later == ms' \in {ms, (ms + 1) % MsWrap}

(* The first pass asks for the driver, the later ones poll it.             *)
MainRunning ==
  /\ pc = "main" /\ usb_task_state = RUNNING
  /\ runningdebugflag' = TRUE
  /\ device' = IF runningdebugflag THEN device ELSE Report
  /\ pc' = "int" /\ Later
  /\ UNCHANGED <<busVars, hirq, taskVars>>

MainError ==
  /\ pc = "main" /\ usb_task_state = ERROR
  /\ pc' = "int" /\ Later
  /\ UNCHANGED <<busVars, hirq, taskVars, mainVars>>

MainOther ==
  /\ pc = "main" /\ usb_task_state \notin {RUNNING, ERROR}
  /\ runningdebugflag' = FALSE
  /\ pc' = IF runningdebugflag THEN "init" ELSE "int"
  /\ Later
  /\ UNCHANGED <<busVars, hirq, taskVars, device>>

Loop ==
  \/ Interrupt \/ Acknowledge \/ InitProbe \/ InitEnd
  \/ USB_Task \/ MainRunning \/ MainError \/ MainOther

UsbHostNext ==
  \/ \E kind \in Kinds : Plug(kind)
  \/ Unplug \/ ResetDone
  \/ Loop

UsbHostSpec == UsbHostInit /\ [][UsbHostNext]_usbVars

(* The loop goes on, the chip ends a bus reset, and the clock runs.        *)
FairUsbHost ==
  /\ UsbHostSpec
  /\ WF_usbVars(Loop) /\ WF_usbVars(ResetDone) /\ SF_usbVars(Loop /\ ms' # ms)

-----------------------------------------------------------------------------
UsbTypeOK ==
  /\ dev \in {NoDevice} \cup [kind : Kinds, addr : {NoAddress, 0} \cup Address]
  /\ condet \in BOOLEAN /\ busevent \in BOOLEAN /\ busrst \in BOOLEAN
  /\ mode \in [sof : BOOLEAN, low : BOOLEAN]
  /\ pc \in {"init", "initack", "int", "ack", "task", "main"} /\ hirq \in BOOLEAN
  /\ usb_delay \in Nat /\ tmp_addr \in {0} \cup Address
  /\ epinfo \in [Entry -> {NULL, "dev0", "hid"}]
  /\ devclass \in [Entry -> {UNINIT, HID_K, HID_M}]
  /\ hid_addr \in {0} \cup Address
  /\ runningdebugflag \in BOOLEAN /\ device \in {UNINIT, HID_K, HID_M, 255}
  /\ ms \in 0..(MsWrap - 1)

Enumerating == {GET_DEVICE_DESCRIPTOR, ADDRESSING, CONFIGURING}

(* The bus event is counted onto whatever state the machine is in.  It     *)
(* still never takes it to a state past the detached ones that no case of  *)
(* USB_Task and no branch of main knows (MaxIntHandler's usb_task_state++): *)
(* the event is only looked at behind a connection change, which has just  *)
(* taken the machine back to the start.                                    *)
KnownStates ==
  1..5 \cup ATTACHED..GET_DEVICE_DESCRIPTOR \cup {ADDRESSING, CONFIGURING, RUNNING, ERROR}
StateKnown == usb_task_state \in KnownStates

(* No request and no poll reads the table through an entry that is not     *)
(* there, whatever is plugged in and out meanwhile, GetDriverandReport's   *)
(* to the hard-wired address 1 included; a poll finds the HID endpoints.   *)
DriverReady ==
  pc \in {"int", "task", "main"} =>
    /\ usb_task_state \in Enumerating \cup {RUNNING} => epinfo[0] # NULL
    /\ usb_task_state = CONFIGURING => epinfo[tmp_addr] # NULL
    /\ usb_task_state = RUNNING => epinfo[hid_addr] = "hid" /\ epinfo[1] # NULL

(* main polls the device that runs as what it is, a keyboard or a mouse,   *)
(* at the address it has, also after devices that failed have used up      *)
(* addresses, unless a change of the connection is waiting to be seen.     *)
PollsWhatItIs ==
  pc = "main" /\ usb_task_state = RUNNING /\ runningdebugflag =>
    /\ device = devclass[hid_addr]
    /\ ~condet => Driver(dev.kind) = device /\ dev.addr = hid_addr

(* A device is asked nothing before its bus reset is over and frames are   *)
(* sent, also when the bus event has taken the machine past the case that  *)
(* waits for the one and starts the other.                                 *)
AskedAfterReset ==
  usb_task_state \in Enumerating \cup {RUNNING} /\ pc \in {"task", "main"} =>
    ~busrst /\ mode.sof

(* An enumeration comes to an end, the wait for the settle timer and the   *)
(* one for the bus reset included, unless the settle time ends where the   *)
(* milliseconds start again: then no time is ever past it.                 *)
EnumerationEnds ==
  /\ usb_task_state \in SETTLE..CONFIGURING
  /\ usb_task_state = SETTLE => usb_delay < MsWrap - 1
  ~> usb_task_state \notin SETTLE..CONFIGURING

(* A device that is gone is not polled for ever.                           *)
UnplugNoticed == usb_task_state = RUNNING /\ dev = NoDevice ~> usb_task_state # RUNNING

(* What MAX3421E.c and transfer.c say of a lost device: its structures are *)
(* cleaned up.                                                             *)
DetachedIsClean ==
  pc = "main" /\ Detached(usb_task_state) /\ usb_task_state # DETACHED_ILLEGAL
  => \A a \in Address : epinfo[a] = NULL
=============================================================================
