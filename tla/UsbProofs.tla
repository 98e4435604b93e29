----------------------------- MODULE UsbProofs ------------------------------
(***************************************************************************)
(* Proofs about UsbHost, for every number of addresses, every settle time, *)
(* every clock and every set of devices that UsbAssumption allows.         *)
(***************************************************************************)
EXTENDS UsbHost, TLAPS

USE DEF DETACHED_INITIALIZE, DETACHED_WAIT_FOR_DEVICE, DETACHED_ILLEGAL, ATTACHED,
        SETTLE, RESET_DEVICE, WAIT_RESET_COMPLETE, WAIT_SOF, GET_DEVICE_DESCRIPTOR,
        ADDRESSING, CONFIGURING, RUNNING, ERROR, Detached, UNINIT, HID_K, HID_M,
        Entry, Address, NoAddress, NULL

(* What a probe leaves the machine in.                                     *)
ProbeStates == {DETACHED_INITIALIZE, DETACHED_WAIT_FOR_DEVICE, DETACHED_ILLEGAL,
                ATTACHED, WAIT_RESET_COMPLETE}
Fresh       == ProbeStates \ {WAIT_RESET_COMPLETE}

(* Where the machine can be by the step of the loop; once main has seen it *)
(* run, only one pass away from RUNNING or from the probe that ended it.   *)
Stages ==
  /\ StateKnown
  /\ hirq => pc = "ack"
  /\ pc = "ack" => usb_task_state \in ProbeStates
  /\ pc = "init" => usb_task_state \in 1..5 \cup {SETTLE, RESET_DEVICE}
  /\ pc = "initack" => usb_task_state \in Fresh
  /\ runningdebugflag =>
       /\ pc \notin {"init", "initack"}
       /\ \/ usb_task_state = RUNNING
          \/ pc = "ack"  /\ usb_task_state \in Fresh
          \/ pc = "task" /\ usb_task_state \in 1..5 \cup {ATTACHED, SETTLE}
          \/ pc = "main" /\ usb_task_state \in 1..5 \cup {SETTLE, RESET_DEVICE}

(* Frames are sent from the probe that finds a device on; no bus reset is  *)
(* under way once the machine is past the one it waits for, and its event  *)
(* means that it is over.                                                  *)
Chip ==
  /\ usb_task_state \in ATTACHED..RUNNING => mode.sof
  /\ usb_task_state \in {WAIT_SOF, RUNNING} \cup Enumerating => ~busrst
  /\ usb_task_state = WAIT_RESET_COMPLETE /\ (busevent \/ hirq) => ~busrst

(* The entries in use are the first ones, and the device being configured  *)
(* or run has the last of them.                                            *)
Table ==
  /\ pc \notin {"init", "initack"} => epinfo[0] = "dev0"
  /\ \A a, b \in Address : a <= b /\ epinfo[b] # NULL => epinfo[a] # NULL
  /\ usb_task_state = CONFIGURING =>
       /\ tmp_addr \in Address /\ epinfo[tmp_addr] # NULL
       /\ \A b \in Address : epinfo[b] # NULL => b <= tmp_addr
  /\ usb_task_state = RUNNING =>
       /\ hid_addr \in Address /\ epinfo[hid_addr] = "hid"
       /\ \A b \in Address : epinfo[b] # NULL => b <= hid_addr
       /\ ~condet => Driver(dev.kind) = devclass[hid_addr] /\ dev.addr = hid_addr
       /\ runningdebugflag => device = devclass[hid_addr]

UsbInv == UsbTypeOK /\ Stages /\ Chip /\ Table

-----------------------------------------------------------------------------
(* What a probe does to the mode of the chip.                              *)
Mode == [sof : BOOLEAN, low : BOOLEAN]

LEMMA HostMode == \A low \in BOOLEAN : Host(low) \in Mode
  BY DEF Host, Mode

LEMMA ProbedModeType ==
  ASSUME NEW s, NEW sample, NEW m \in Mode PROVE ProbedMode(s, sample, m) \in Mode
<1>1. LowSpeed(sample, m) \in BOOLEAN
  BY DEF LowSpeed
<1>2. Host(LowSpeed(sample, m)) \in Mode /\ Host(FALSE) \in Mode
  BY <1>1, HostMode
<1> QED
  BY <1>2 DEF ProbedMode

(* The last entry in use is the one of the device that runs: main asks for *)
(* its class and no other's.                                               *)
LEMMA ReportsLast ==
  ASSUME UsbTypeOK, Table, usb_task_state = RUNNING PROVE Report = devclass[hid_addr]
<1> DEFINE used == {a \in Address : epinfo[a] # NULL}
<1>1. hid_addr \in used /\ \A b \in used : b <= hid_addr
  BY DEF Table
<1>2. \A a \in used : a \in Int
  BY UsbAssumption
<1>3. (CHOOSE a \in used : \A b \in used : b <= a) = hid_addr
  <2>1. \A a \in used : (\A b \in used : b <= a) <=> a = hid_addr
    BY <1>1, <1>2
  <2> QED
    BY <1>1, <2>1
<1> QED
  BY <1>1, <1>3 DEF Report

(* No step breaks a type: the poll's answer is a class of the table, since  *)
(* the last entry in use belongs to a driver when main asks.               *)
LEMMA TypeNext == UsbTypeOK /\ Table /\ [UsbHostNext]_usbVars => UsbTypeOK'
<1> SUFFICES ASSUME UsbTypeOK, Table, [UsbHostNext]_usbVars PROVE UsbTypeOK'
  OBVIOUS
<1> USE UsbAssumption DEF UsbTypeOK, NoDevice, Table
<1>1. ASSUME NEW kind \in Kinds, Plug(kind) PROVE UsbTypeOK'
  BY <1>1 DEF Plug, busVars, taskVars, mainVars
<1>2. CASE Unplug
  BY <1>2 DEF Unplug, busVars, taskVars, mainVars
<1>3. CASE ResetDone
  <2>1. condet' \in BOOLEAN /\ busevent' \in BOOLEAN /\ busrst' \in BOOLEAN
    BY <1>3 DEF ResetDone
  <2>2. dev' \in {NoDevice} \cup [kind : Kinds, addr : {NoAddress, 0} \cup Address]
    <3>1. CASE dev' = dev
      BY <3>1
    <3>2. CASE dev # NoDevice /\ dev' = [dev EXCEPT !.addr = 0]
      <4>1. dev \in [kind : Kinds, addr : {NoAddress, 0} \cup Address]
        BY <3>2
      <4> QED
        BY <3>2, <4>1
    <3> QED
      BY <1>3, <3>1, <3>2, Zenon DEF ResetDone
  <2> QED
    BY <1>3, <2>1, <2>2 DEF ResetDone, busVars, taskVars, mainVars
<1>4. CASE Interrupt
  <2>1. mode' \in [sof : BOOLEAN, low : BOOLEAN]
    BY <1>4, ProbedModeType DEF Interrupt, Mode
  <2>2. hirq' \in BOOLEAN
    BY <1>4 DEF Interrupt
  <2> QED
    BY <1>4, <2>1, <2>2 DEF Interrupt, taskVars, mainVars
<1>5. CASE Acknowledge
  <2>1. condet' \in BOOLEAN /\ busevent' \in BOOLEAN /\ hirq' \in BOOLEAN
    BY <1>5 DEF Acknowledge
  <2> QED
    BY <1>5, <2>1 DEF Acknowledge, mainVars
<1>6. CASE InitProbe
  <2>1. mode' \in [sof : BOOLEAN, low : BOOLEAN]
    BY <1>6 DEF InitProbe, ProbedMode, Host, LowSpeed, AfterReset
  <2>2. busevent' \in BOOLEAN /\ busrst' \in BOOLEAN
    BY <1>6 DEF InitProbe
  <2> QED
    BY <1>6, <2>1, <2>2 DEF InitProbe, mainVars
<1>7. CASE InitEnd
  <2>1. epinfo' \in [Entry -> {NULL, "dev0", "hid"}]
    BY <1>7 DEF InitEnd, ClearTable
  <2>2. devclass' \in [Entry -> {UNINIT, HID_K, HID_M}]
    BY <1>7 DEF InitEnd, NoClasses
  <2>3. condet' \in BOOLEAN
    BY <1>7 DEF InitEnd
  <2> QED
    BY <1>7, <2>1, <2>2, <2>3 DEF InitEnd, mainVars
<1>8. CASE TaskInitialize
  BY <1>8 DEF TaskInitialize, busVars, taskVars, mainVars, Task, Goto, KeepTable, ClearTable, NoClasses
<1>9. CASE TaskAttached
  BY <1>9 DEF TaskAttached, busVars, taskVars, mainVars, Task, Goto, KeepTable
<1>10. CASE TaskSettle
  BY <1>10 DEF TaskSettle, busVars, taskVars, mainVars, Task, Goto, KeepTable, Settled
<1>11. CASE TaskReset
  <2>1. busevent' \in BOOLEAN /\ busrst' \in BOOLEAN
    BY <1>11 DEF TaskReset
  <2> QED
    BY <1>11, <2>1 DEF TaskReset, busVars, taskVars, mainVars, Task, Goto, KeepTable
<1>12. CASE TaskWaitReset
  <2>1. mode' \in [sof : BOOLEAN, low : BOOLEAN]
    <3>1. [mode EXCEPT !.sof = TRUE] \in [sof : BOOLEAN, low : BOOLEAN]
      OBVIOUS
    <3> QED
      BY <1>12, <3>1 DEF TaskWaitReset
  <2> QED
    BY <1>12, <2>1 DEF TaskWaitReset, busVars, taskVars, mainVars, Task, Goto, KeepTable
<1>13. CASE TaskWaitSof
  BY <1>13 DEF TaskWaitSof, busVars, taskVars, mainVars, Task, Goto, KeepTable
<1>14. CASE TaskGetDescriptor
  BY <1>14 DEF TaskGetDescriptor, busVars, taskVars, mainVars, Task, Goto, KeepTable
<1>15. CASE TaskAddressing
  <2>1. epinfo' \in [Entry -> {NULL, "dev0", "hid"}]
    <3>1. 0 \in Entry /\ epinfo[0] \in {NULL, "dev0", "hid"}
      BY Z3
    <3>2. \A a \in Address : [epinfo EXCEPT ![a] = epinfo[0]] \in [Entry -> {NULL, "dev0", "hid"}]
      BY <3>1
    <3>3. CASE FreeAddresses = {} /\ UNCHANGED epinfo
      BY <3>3
    <3>4. CASE \E a \in Address : epinfo' = [epinfo EXCEPT ![a] = epinfo[0]]
      BY <3>2, <3>4
    <3> QED
      BY <1>15, <3>3, <3>4 DEF TaskAddressing, SetAddress, FreeAddresses
  <2>2. dev' \in {NoDevice} \cup [kind : Kinds, addr : {NoAddress, 0} \cup Address]
    BY <1>15 DEF TaskAddressing, SetAddress, FreeAddresses, Answers
  <2> QED
    BY <1>15, <2>1, <2>2 DEF TaskAddressing, SetAddress, FreeAddresses, busVars, taskVars, mainVars, Task, Goto, KeepTable
<1>16. CASE TaskConfiguring
  BY <1>16 DEF TaskConfiguring, busVars, taskVars, mainVars, Task, Goto, KeepTable, HIDMProbe, HIDKProbe, Claim, Answers, Driver
<1>17. CASE TaskIdle
  BY <1>17 DEF TaskIdle, busVars, taskVars, mainVars, Task, Goto, KeepTable
<1>18. CASE MainRunning
  <2>1. Report = devclass[hid_addr]
    BY <1>18, ReportsLast DEF MainRunning
  <2>2. device' \in {UNINIT, HID_K, HID_M, 255}
    BY <1>18, <2>1 DEF MainRunning
  <2>3. ms' \in 0..(MsWrap - 1)
    BY <1>18 DEF MainRunning, Later
  <2> QED
    BY <1>18, <2>2, <2>3 DEF MainRunning, busVars, taskVars
<1>19. CASE MainError
  BY <1>19 DEF MainError, busVars, taskVars, mainVars, Later
<1>20. CASE MainOther
  <2>1. ms' \in 0..(MsWrap - 1)
    BY <1>20 DEF MainOther, Later
  <2>2. runningdebugflag' \in BOOLEAN
    BY <1>20 DEF MainOther
  <2> QED
    BY <1>20, <2>1, <2>2 DEF MainOther, busVars, taskVars
<1>21. CASE UNCHANGED usbVars
  BY <1>21 DEF usbVars, busVars, taskVars, mainVars
<1> QED
  BY <1>1, <1>2, <1>3, <1>4, <1>5, <1>6, <1>7, <1>8, <1>9, <1>10, <1>11, <1>12, <1>13, <1>14, <1>15, <1>16, <1>17, <1>18, <1>19, <1>20, <1>21
  DEF UsbHostNext, Loop, USB_Task

(* No step takes the machine out of its stages: the bus event, which is    *)
(* counted onto the state, always finds one that a probe has just left.    *)
LEMMA StagesNext == UsbTypeOK /\ Stages /\ [UsbHostNext]_usbVars => Stages'
<1> SUFFICES ASSUME UsbTypeOK, Stages, [UsbHostNext]_usbVars PROVE Stages'
  OBVIOUS
<1> USE UsbAssumption DEF UsbTypeOK, NoDevice, Stages, StateKnown, KnownStates, ProbeStates, Fresh
<1>1. ASSUME NEW kind \in Kinds, Plug(kind) PROVE Stages'
  BY <1>1 DEF Plug, busVars, taskVars, mainVars
<1>2. CASE Unplug
  BY <1>2 DEF Unplug, busVars, taskVars, mainVars
<1>3. CASE ResetDone
  BY <1>3 DEF ResetDone, busVars, taskVars, mainVars
<1>4. CASE Interrupt
  BY <1>4 DEF Interrupt, busVars, taskVars, mainVars, Probed, ProbedMode, SeenGone, ResetExpected, Host
<1>5. CASE Acknowledge
  BY <1>5 DEF Acknowledge, busVars, taskVars, mainVars
<1>6. CASE InitProbe
  BY <1>6 DEF InitProbe, busVars, taskVars, mainVars, Probed, ProbedMode, SeenGone, ResetExpected, Host, AfterReset
<1>7. CASE InitEnd
  BY <1>7 DEF InitEnd, busVars, taskVars, mainVars, ClearTable, NoClasses
<1>8. CASE TaskInitialize
  BY <1>8 DEF TaskInitialize, busVars, taskVars, mainVars, Task, Goto, KeepTable, ClearTable, NoClasses
<1>9. CASE TaskAttached
  BY <1>9 DEF TaskAttached, busVars, taskVars, mainVars, Task, Goto, KeepTable
<1>10. CASE TaskSettle
  BY <1>10 DEF TaskSettle, busVars, taskVars, mainVars, Task, Goto, KeepTable, Settled
<1>11. CASE TaskReset
  BY <1>11 DEF TaskReset, busVars, taskVars, mainVars, Task, Goto, KeepTable
<1>12. CASE TaskWaitReset
  BY <1>12 DEF TaskWaitReset, busVars, taskVars, mainVars, Task, Goto, KeepTable, ResetOver
<1>13. CASE TaskWaitSof
  BY <1>13 DEF TaskWaitSof, busVars, taskVars, mainVars, Task, Goto, KeepTable
<1>14. CASE TaskGetDescriptor
  BY <1>14 DEF TaskGetDescriptor, busVars, taskVars, mainVars, Task, Goto, KeepTable
<1>15. CASE TaskAddressing
  BY <1>15 DEF TaskAddressing, busVars, taskVars, mainVars, Task, Goto, KeepTable, SetAddress, FreeAddresses
<1>16. CASE TaskConfiguring
  BY <1>16 DEF TaskConfiguring, busVars, taskVars, mainVars, Task, Goto, KeepTable, HIDMProbe, HIDKProbe, Claim, Answers, Driver
<1>17. CASE TaskIdle
  BY <1>17 DEF TaskIdle, busVars, taskVars, mainVars, Task, Goto, KeepTable
<1>18. CASE MainRunning
  BY <1>18 DEF MainRunning, busVars, taskVars, mainVars, Report, Later
<1>19. CASE MainError
  BY <1>19 DEF MainError, busVars, taskVars, mainVars, Later
<1>20. CASE MainOther
  BY <1>20 DEF MainOther, busVars, taskVars, mainVars, Later
<1>21. CASE UNCHANGED usbVars
  BY <1>21 DEF usbVars, busVars, taskVars, mainVars
<1> QED
  BY <1>1, <1>2, <1>3, <1>4, <1>5, <1>6, <1>7, <1>8, <1>9, <1>10, <1>11, <1>12, <1>13, <1>14, <1>15, <1>16, <1>17, <1>18, <1>19, <1>20, <1>21
  DEF UsbHostNext, Loop, USB_Task

(* A probe that leaves the machine attached leaves frames on, unless it is *)
(* the one that expects a reset.                                           *)
LEMMA ProbedSof ==
  ASSUME NEW s \in Nat, NEW sample, NEW m,
         s = WAIT_RESET_COMPLETE => m.sof,
         Probed(s, sample) \in ATTACHED..RUNNING,
         sample \in {"SE0", "SE1", "J", "K"}
  PROVE  ProbedMode(s, sample, m).sof
<1>1. CASE s = WAIT_RESET_COMPLETE
  BY <1>1 DEF Probed, ProbedMode, SeenGone, ResetExpected, Host
<1>2. CASE s # WAIT_RESET_COMPLETE
  <2>1. sample \in {"J", "K"} /\ ~ResetExpected(s)
    BY <1>2 DEF Probed, SeenGone, ResetExpected
  <2> QED
    BY <2>1 DEF ProbedMode, Host
<1> QED
  BY <1>1, <1>2

LEMMA Samples == \A m : BusSample(m) \subseteq {"SE0", "SE1", "J", "K"}
  BY DEF BusSample

(* No step starts a frame or a request during a bus reset.                 *)
LEMMA ChipNext == UsbTypeOK /\ Stages /\ Chip /\ [UsbHostNext]_usbVars => Chip'
<1> SUFFICES ASSUME UsbTypeOK, Stages, Chip, [UsbHostNext]_usbVars PROVE Chip'
  OBVIOUS
<1> USE UsbAssumption DEF UsbTypeOK, NoDevice, Stages, StateKnown, KnownStates, ProbeStates, Fresh, Chip, Enumerating
<1>1. ASSUME NEW kind \in Kinds, Plug(kind) PROVE Chip'
  BY <1>1 DEF Plug, busVars, taskVars, mainVars
<1>2. CASE Unplug
  BY <1>2 DEF Unplug, busVars, taskVars, mainVars
<1>3. CASE ResetDone
  <2>1. ~busrst' /\ UNCHANGED <<usb_task_state, mode>>
    BY <1>3 DEF ResetDone, taskVars
  <2> QED
    BY <2>1
<1>4. CASE Interrupt
  <2> SUFFICES ASSUME IntPin, NEW sample \in {"SE0", "SE1", "J", "K"},
                      usb_task_state' = Probed(usb_task_state, sample),
                      mode' = ProbedMode(usb_task_state, sample, mode),
                      hirq' = busevent
               PROVE  Chip'
    <3>1. CASE ~IntPin
      <4>1. UNCHANGED <<usb_task_state, mode, busrst, busevent, hirq>>
        BY <1>4, <3>1 DEF Interrupt
      <4> QED
        BY <4>1
    <3>2. CASE IntPin
      <4>1. hirq' = busevent
        BY <1>4, <3>2 DEF Interrupt
      <4> QED
        BY <1>4, <3>2, <4>1, Samples DEF Interrupt
    <3> QED
      BY <3>1, <3>2
  <2>0. busrst' = busrst /\ busevent' = busevent
    BY <1>4 DEF Interrupt
  <2>1. usb_task_state' \in ATTACHED..RUNNING => mode'.sof
    BY ProbedSof
  <2>2. /\ usb_task_state' \notin {WAIT_SOF, RUNNING} \cup Enumerating
        /\ usb_task_state' = WAIT_RESET_COMPLETE => usb_task_state = WAIT_RESET_COMPLETE
    BY DEF Probed, SeenGone, ResetExpected
  <2> QED
    BY <2>0, <2>1, <2>2
<1>5. CASE Acknowledge
  BY <1>5 DEF Acknowledge, busVars, taskVars, mainVars
<1>6. CASE InitProbe
  <2> SUFFICES ASSUME NEW sample \in {"SE0", "SE1", "J", "K"},
                      usb_task_state' = Probed(usb_task_state, sample),
                      mode' = ProbedMode(usb_task_state, sample, AfterReset)
               PROVE  Chip'
    BY <1>6, Samples DEF InitProbe
  <2>1. usb_task_state # WAIT_RESET_COMPLETE
    BY <1>6 DEF InitProbe
  <2>2. usb_task_state' \in ATTACHED..RUNNING => mode'.sof
    BY <2>1, ProbedSof, usb_task_state \in Nat
  <2>3. usb_task_state' \notin {WAIT_SOF, WAIT_RESET_COMPLETE, RUNNING} \cup Enumerating
    BY <2>1 DEF Probed, SeenGone, ResetExpected
  <2> QED
    BY <2>2, <2>3
<1>7. CASE InitEnd
  BY <1>7 DEF InitEnd, busVars, taskVars, mainVars, ClearTable, NoClasses
<1>8. CASE TaskInitialize
  BY <1>8 DEF TaskInitialize, busVars, taskVars, mainVars, Task, Goto, KeepTable, ClearTable, NoClasses
<1>9. CASE TaskAttached
  BY <1>9 DEF TaskAttached, busVars, taskVars, mainVars, Task, Goto, KeepTable
<1>10. CASE TaskSettle
  BY <1>10 DEF TaskSettle, busVars, taskVars, mainVars, Task, Goto, KeepTable, Settled
<1>11. CASE TaskReset
  BY <1>11 DEF TaskReset, busVars, taskVars, mainVars, Task, Goto, KeepTable
<1>12. CASE TaskWaitReset
  BY <1>12 DEF TaskWaitReset, busVars, taskVars, mainVars, Task, Goto, KeepTable, ResetOver
<1>13. CASE TaskWaitSof
  BY <1>13 DEF TaskWaitSof, busVars, taskVars, mainVars, Task, Goto, KeepTable
<1>14. CASE TaskGetDescriptor
  BY <1>14 DEF TaskGetDescriptor, busVars, taskVars, mainVars, Task, Goto, KeepTable
<1>15. CASE TaskAddressing
  BY <1>15 DEF TaskAddressing, busVars, taskVars, mainVars, Task, Goto, KeepTable, SetAddress, FreeAddresses
<1>16. CASE TaskConfiguring
  BY <1>16 DEF TaskConfiguring, busVars, taskVars, mainVars, Task, Goto, KeepTable, HIDMProbe, HIDKProbe, Claim, Answers, Driver
<1>17. CASE TaskIdle
  BY <1>17 DEF TaskIdle, busVars, taskVars, mainVars, Task, Goto, KeepTable
<1>18. CASE MainRunning
  BY <1>18 DEF MainRunning, busVars, taskVars, mainVars, Report, Later
<1>19. CASE MainError
  BY <1>19 DEF MainError, busVars, taskVars, mainVars, Later
<1>20. CASE MainOther
  BY <1>20 DEF MainOther, busVars, taskVars, mainVars, Later
<1>21. CASE UNCHANGED usbVars
  BY <1>21 DEF usbVars, busVars, taskVars, mainVars
<1> QED
  BY <1>1, <1>2, <1>3, <1>4, <1>5, <1>6, <1>7, <1>8, <1>9, <1>10, <1>11, <1>12, <1>13, <1>14, <1>15, <1>16, <1>17, <1>18, <1>19, <1>20, <1>21
  DEF UsbHostNext, Loop, USB_Task

(* No step takes away an entry that is used; a new one goes behind them.   *)
LEMMA TableNext == UsbTypeOK /\ Stages /\ Chip /\ Table /\ [UsbHostNext]_usbVars => Table'
<1> SUFFICES ASSUME UsbTypeOK, Stages, Chip, Table, [UsbHostNext]_usbVars PROVE Table'
  OBVIOUS
<1> USE UsbAssumption DEF UsbTypeOK, NoDevice, Stages, StateKnown, KnownStates, ProbeStates, Fresh, Table, Enumerating
<1>1. ASSUME NEW kind \in Kinds, Plug(kind) PROVE Table'
  BY <1>1 DEF Plug, busVars, taskVars, mainVars
<1>2. CASE Unplug
  BY <1>2 DEF Unplug, busVars, taskVars, mainVars
<1>3. CASE ResetDone
  <2>1. usb_task_state # RUNNING
    BY <1>3 DEF ResetDone, Chip
  <2> QED
    BY <1>3, <2>1 DEF ResetDone, taskVars, mainVars
<1>4. CASE Interrupt
  BY <1>4 DEF Interrupt, busVars, taskVars, mainVars, Probed, ProbedMode, SeenGone, ResetExpected, Host
<1>5. CASE Acknowledge
  BY <1>5 DEF Acknowledge, busVars, taskVars, mainVars
<1>6. CASE InitProbe
  BY <1>6 DEF InitProbe, busVars, taskVars, mainVars, Probed, ProbedMode, SeenGone, ResetExpected, Host, AfterReset
<1>7. CASE InitEnd
  BY <1>7 DEF InitEnd, busVars, taskVars, mainVars, ClearTable, NoClasses
<1>8. CASE TaskInitialize
  BY <1>8 DEF TaskInitialize, busVars, taskVars, mainVars, Task, Goto, KeepTable, ClearTable, NoClasses
<1>9. CASE TaskAttached
  BY <1>9 DEF TaskAttached, busVars, taskVars, mainVars, Task, Goto, KeepTable
<1>10. CASE TaskSettle
  BY <1>10 DEF TaskSettle, busVars, taskVars, mainVars, Task, Goto, KeepTable, Settled
<1>11. CASE TaskReset
  BY <1>11 DEF TaskReset, busVars, taskVars, mainVars, Task, Goto, KeepTable
<1>12. CASE TaskWaitReset
  BY <1>12 DEF TaskWaitReset, busVars, taskVars, mainVars, Task, Goto, KeepTable, ResetOver
<1>13. CASE TaskWaitSof
  BY <1>13 DEF TaskWaitSof, busVars, taskVars, mainVars, Task, Goto, KeepTable
<1>14. CASE TaskGetDescriptor
  BY <1>14 DEF TaskGetDescriptor, busVars, taskVars, mainVars, Task, Goto, KeepTable
<1>15. CASE TaskAddressing
  <2>1. /\ usb_task_state' # RUNNING
        /\ pc' = "main" /\ pc = "task" /\ UNCHANGED <<hid_addr, device>>
    BY <1>15 DEF TaskAddressing, SetAddress, Task, Goto, mainVars
  <2>2. CASE FreeAddresses = {}
    BY <1>15, <2>1, <2>2 DEF TaskAddressing, Goto
  <2>3. ASSUME NEW a \in FreeAddresses, \A b \in FreeAddresses : a <= b, SetAddress(a)
        PROVE  Table'
    <3>1. /\ a \in Address /\ epinfo[a] = NULL /\ 0 \in Entry /\ Address \subseteq Entry
          /\ \A b \in Address : b < a => epinfo[b] # NULL
          /\ Address \subseteq Nat
      BY <2>3 DEF FreeAddresses
    <3>2. epinfo' = [epinfo EXCEPT ![a] = "dev0"]
      BY <2>1, <2>3 DEF SetAddress
    <3>4. usb_task_state' = CONFIGURING => tmp_addr' = a
      BY <2>3, CONFIGURING # ERROR DEF SetAddress, Goto
    <3>3. \A b \in Address : epinfo'[b] # NULL <=> b <= a
      BY <3>1, <3>2
    <3> QED
      BY <2>1, <3>1, <3>2, <3>3, <3>4
  <2> QED
    BY <1>15, <2>2, <2>3 DEF TaskAddressing
<1>16. CASE TaskConfiguring
  BY <1>16 DEF TaskConfiguring, busVars, taskVars, mainVars, Task, Goto, KeepTable, HIDMProbe, HIDKProbe, Claim, Answers, Driver
<1>17. CASE TaskIdle
  BY <1>17 DEF TaskIdle, busVars, taskVars, mainVars, Task, Goto, KeepTable
<1>18. CASE MainRunning
  <2>1. device' = IF runningdebugflag THEN device ELSE devclass[hid_addr]
    BY <1>18, ReportsLast DEF MainRunning
  <2> QED
    BY <1>18, <2>1 DEF MainRunning, busVars, taskVars
<1>19. CASE MainError
  BY <1>19 DEF MainError, busVars, taskVars, mainVars, Later
<1>20. CASE MainOther
  BY <1>20 DEF MainOther, busVars, taskVars, mainVars, Later
<1>21. CASE UNCHANGED usbVars
  BY <1>21 DEF usbVars, busVars, taskVars, mainVars
<1> QED
  BY <1>1, <1>2, <1>3, <1>4, <1>5, <1>6, <1>7, <1>8, <1>9, <1>10, <1>11, <1>12, <1>13, <1>14, <1>15, <1>16, <1>17, <1>18, <1>19, <1>20, <1>21
  DEF UsbHostNext, Loop, USB_Task
LEMMA UsbInvInit == UsbHostInit => UsbInv
<1> SUFFICES ASSUME UsbHostInit PROVE UsbInv
  OBVIOUS
<1> USE UsbAssumption DEF UsbHostInit
<1>1. UsbTypeOK
  <2>1. dev \in {NoDevice} \cup [kind : Kinds, addr : {NoAddress, 0} \cup Address]
    OBVIOUS
  <2>2. mode \in [sof : BOOLEAN, low : BOOLEAN]
    OBVIOUS
  <2>3. condet \in BOOLEAN /\ busevent \in BOOLEAN /\ busrst \in BOOLEAN
        /\ hirq \in BOOLEAN /\ runningdebugflag \in BOOLEAN
    OBVIOUS
  <2>4. /\ epinfo \in [Entry -> {NULL, "dev0", "hid"}]
        /\ devclass \in [Entry -> {UNINIT, HID_K, HID_M}]
    BY DEF NoClasses
  <2> QED
    BY <2>1, <2>2, <2>3, <2>4 DEF UsbTypeOK
<1>2. Stages
  BY DEF Stages, StateKnown, KnownStates
<1>3. Chip /\ Table
  BY DEF Chip, Table, Enumerating
<1> QED
  BY <1>1, <1>2, <1>3 DEF UsbInv

(* Whatever is plugged in and out, and however the bus events, the probes, *)
(* the requests and the loop of main fall together, UsbInv holds.          *)
THEOREM UsbInvAlways == UsbHostSpec => []UsbInv
<1>1. UsbHostSpec => UsbHostInit /\ [][UsbHostNext]_usbVars
  BY DEF UsbHostSpec
<1>2. UsbInv /\ [UsbHostNext]_usbVars => UsbInv'
  BY TypeNext, StagesNext, ChipNext, TableNext DEF UsbInv
<1> QED
  BY UsbInvInit, <1>1, <1>2, PTL

(* Every variable of the host keeps its type.                              *)
THEOREM UsbTypeCorrect == UsbHostSpec => []UsbTypeOK
<1>1. UsbInv => UsbTypeOK
  BY DEF UsbInv
<1> QED
  BY UsbInvAlways, <1>1, PTL

(* The bus event that MaxIntHandler counts onto the state never takes it   *)
(* to one that USB_Task and main do not know.                              *)
THEOREM StateKnownAlways == UsbHostSpec => []StateKnown
<1>1. UsbInv => StateKnown
  BY DEF UsbInv, Stages
<1> QED
  BY UsbInvAlways, <1>1, PTL

(* No request and no poll goes through an empty entry of the device table. *)
THEOREM DriverReadyAlways == UsbHostSpec => []DriverReady
<1>1. UsbInv => DriverReady
  <2> SUFFICES ASSUME UsbInv, pc \in {"int", "task", "main"}
               PROVE  DriverReady
    BY DEF DriverReady
  <2>1. epinfo[0] # NULL
    BY DEF UsbInv, Table
  <2>2. usb_task_state = CONFIGURING => epinfo[tmp_addr] # NULL
    BY DEF UsbInv, Table
  <2>3. usb_task_state = RUNNING => epinfo[hid_addr] = "hid" /\ epinfo[1] # NULL
    BY UsbAssumption DEF UsbInv, Table
  <2> QED
    BY <2>1, <2>2, <2>3 DEF DriverReady
<1> QED
  BY UsbInvAlways, <1>1, PTL

(* main polls a device that runs as what it is, at the address it has.     *)
THEOREM PollsWhatItIsAlways == UsbHostSpec => []PollsWhatItIs
<1>1. UsbInv => PollsWhatItIs
  BY DEF UsbInv, Table, PollsWhatItIs
<1> QED
  BY UsbInvAlways, <1>1, PTL

(* A device is asked nothing before its bus reset is over.                 *)
THEOREM AskedAfterResetAlways == UsbHostSpec => []AskedAfterReset
<1>1. UsbInv => AskedAfterReset
  BY DEF UsbInv, Chip, AskedAfterReset, Enumerating
<1> QED
  BY UsbInvAlways, <1>1, PTL

-----------------------------------------------------------------------------
(* A device that is gone.  Its connection interrupt waits for the handler, *)
(* and the machine stays RUNNING until that comes, at most a pass later.   *)

(* The loop never stops: what WF_usbVars(Loop) comes to, since every step  *)
(* of the program has a successor.                                         *)
LoopRuns == []<><<Loop>>_usbVars

GoneAt(step) == usb_task_state = RUNNING /\ condet /\ pc = step

(* From a running machine with its interrupt pending the only way on is    *)
(* the probe, and every probe takes it away from RUNNING.                  *)
LEMMA GoneLoop ==
  ASSUME UsbInv, Loop
  PROVE  /\ GoneAt("task") => GoneAt("main")'
         /\ GoneAt("main") => GoneAt("int")'
         /\ GoneAt("int")  => (usb_task_state # RUNNING)'
<1> USE DEF GoneAt
<1>1. CASE Interrupt
  BY <1>1 DEF Interrupt, IntPin, Probed, SeenGone, ResetExpected
<1>2. CASE USB_Task
  BY <1>2 DEF USB_Task, TaskInitialize, TaskAttached, TaskSettle, TaskReset,
     TaskWaitReset, TaskWaitSof, TaskGetDescriptor, TaskAddressing, TaskConfiguring,
     TaskIdle, Task, busVars, taskVars
<1>3. CASE MainRunning
  BY <1>3 DEF MainRunning, busVars, taskVars
<1>4. CASE MainError \/ MainOther \/ Acknowledge \/ InitProbe \/ InitEnd
  BY <1>4 DEF MainError, MainOther, Acknowledge, InitProbe, InitEnd
<1> QED
  BY <1>1, <1>2, <1>3, <1>4 DEF Loop

(* Neither a device put in meanwhile nor anything else gets in between.    *)
LEMMA GoneStep ==
  ASSUME UsbInv, [UsbHostNext]_usbVars
  PROVE  /\ GoneAt("task") => GoneAt("task")' \/ GoneAt("main")'
         /\ GoneAt("main") => GoneAt("main")' \/ GoneAt("int")'
         /\ GoneAt("int")  => GoneAt("int")' \/ (usb_task_state # RUNNING)'
<1> USE DEF GoneAt
<1>1. ASSUME NEW kind \in Kinds, Plug(kind)
      PROVE  condet' /\ UNCHANGED <<pc, usb_task_state>>
  BY <1>1 DEF Plug, taskVars
<1>2. ASSUME Unplug
      PROVE  condet' /\ UNCHANGED <<pc, usb_task_state>>
  BY <1>2 DEF Unplug, taskVars
<1>3. ASSUME ResetDone
      PROVE  (condet => condet') /\ UNCHANGED <<pc, usb_task_state>>
  BY <1>3 DEF ResetDone, taskVars
<1>4. CASE Loop
  BY <1>4, GoneLoop
<1>5. CASE UNCHANGED usbVars
  BY <1>5 DEF usbVars, busVars, taskVars
<1> QED
  BY <1>1, <1>2, <1>3, <1>4, <1>5 DEF UsbHostNext

(* UnplugNoticed, as long as the loop goes on: a device that is pulled out *)
(* is not polled for ever, whatever is put in and out after it             *)
(* (MaxIntHandler, MAX_busprobe).                                          *)
THEOREM UnplugSeen == UsbHostSpec /\ LoopRuns => UnplugNoticed
<1>1. UsbInv /\ usb_task_state = RUNNING /\ dev = NoDevice
        => GoneAt("task") \/ GoneAt("main") \/ GoneAt("int")
  <2> SUFFICES ASSUME UsbInv, usb_task_state = RUNNING, dev = NoDevice
               PROVE  condet /\ pc \in {"task", "main", "int"}
    BY DEF GoneAt
  <2>1. condet
    BY UsbAssumption DEF UsbInv, Table, NoDevice
  <2>2. pc \in {"task", "main", "int"}
    BY DEF UsbInv, UsbTypeOK, Stages, ProbeStates, Fresh
  <2> QED
    BY <2>1, <2>2
<1>2. UsbInv /\ [UsbHostNext]_usbVars
        => /\ GoneAt("task") => GoneAt("task")' \/ GoneAt("main")'
           /\ GoneAt("main") => GoneAt("main")' \/ GoneAt("int")'
           /\ GoneAt("int")  => GoneAt("int")' \/ (usb_task_state # RUNNING)'
  BY GoneStep
<1>3. UsbInv /\ <<Loop>>_usbVars
        => /\ GoneAt("task") => GoneAt("main")'
           /\ GoneAt("main") => GoneAt("int")'
           /\ GoneAt("int")  => (usb_task_state # RUNNING)'
  BY GoneLoop
<1>4. UsbHostSpec => [][UsbHostNext]_usbVars
  BY DEF UsbHostSpec
<1> QED
  BY <1>1, <1>2, <1>3, <1>4, UsbInvAlways, PTL DEF LoopRuns, UnplugNoticed

-----------------------------------------------------------------------------
(* An enumeration ends.  Its stages: the machine's state and the step of   *)
(* the loop, the state that waits for the reset also by whether the reset  *)
(* is over, the one that waits for the clock by whether the time has come. *)

(* What the rest of FairUsbHost comes to: WF of ResetDone, and SF of the   *)
(* steps of the clock, which keeps coming round and is then read.          *)
ResetsEnd == []<>(~busrst)
ClockRuns == []<>(pc = "task" /\ ms = MsWrap - 1)

Ended      == usb_task_state \notin SETTLE..CONFIGURING
In(s, p)   == usb_task_state = s /\ pc = p
Settling   == usb_task_state = SETTLE /\ usb_delay < MsWrap - 1
Due        == Settling /\ pc = "task" /\ ms = MsWrap - 1
Resetting  == usb_task_state = WAIT_RESET_COMPLETE
ResetIs(p) == Resetting /\ ~busrst /\ pc = p

(* What a step of the loop does to a device that is being enumerated,      *)
(* unless it ends that.                                                    *)
Moves ==
  \/ pc = "int" /\ usb_task_state' = usb_task_state
     /\ (pc' = "task" \/ (pc' = "ack" /\ Resetting))
  \/ pc = "ack" /\ pc' = "task" /\ Resetting
     /\ usb_task_state' \in {WAIT_RESET_COMPLETE, WAIT_SOF}
  \/ pc = "main" /\ usb_task_state' = usb_task_state
     /\ (pc' = "int" \/ (pc' = "init" /\ usb_task_state \in {SETTLE, RESET_DEVICE}))
  \/ pc = "task" /\ pc' = "main" /\
     \/ usb_task_state = SETTLE /\ usb_task_state' = (IF Settled THEN RESET_DEVICE ELSE SETTLE)
     \/ usb_task_state = RESET_DEVICE /\ usb_task_state' = WAIT_RESET_COMPLETE
     \/ Resetting /\ usb_task_state' = (IF busrst THEN WAIT_RESET_COMPLETE ELSE WAIT_SOF)
     \/ usb_task_state = WAIT_SOF /\ usb_task_state' = GET_DEVICE_DESCRIPTOR
     \/ usb_task_state = GET_DEVICE_DESCRIPTOR /\ usb_task_state' = ADDRESSING
     \/ usb_task_state = ADDRESSING /\ usb_task_state' = CONFIGURING

LEMMA LoopMoves ==
  ASSUME UsbInv, Loop, ~Ended
  PROVE  /\ Ended' \/ Moves
         /\ Resetting => busrst' = busrst
         /\ usb_task_state = SETTLE => usb_delay' = usb_delay
<1> USE DEF Ended, Moves, Resetting
<1>1. CASE Interrupt
  BY <1>1 DEF Interrupt, Probed, SeenGone, ResetExpected
<1>2. CASE Acknowledge
  BY <1>2 DEF Acknowledge, UsbInv, Stages, ProbeStates
<1>3. CASE InitProbe
  BY <1>3 DEF InitProbe, Probed, SeenGone, ResetExpected, UsbInv, Stages
<1>4. CASE InitEnd
  BY <1>4 DEF InitEnd, UsbInv, Stages, Fresh, ProbeStates
<1>5. CASE TaskSettle
  BY <1>5 DEF TaskSettle, Task, Goto, busVars
<1>6. CASE TaskReset
  BY <1>6 DEF TaskReset, Task, Goto
<1>7. CASE TaskWaitReset
  BY <1>7 DEF TaskWaitReset, Task, Goto, ResetOver, UsbInv, UsbTypeOK
<1>8. CASE TaskWaitSof \/ TaskGetDescriptor
  BY <1>8 DEF TaskWaitSof, TaskGetDescriptor, Task, Goto, busVars
<1>9. CASE TaskAddressing \/ TaskConfiguring
  BY <1>9 DEF TaskAddressing, TaskConfiguring, Task, Goto, SetAddress, HIDMProbe, HIDKProbe, Claim
<1>10. CASE TaskInitialize \/ TaskAttached \/ TaskIdle
  BY <1>10 DEF TaskInitialize, TaskAttached, TaskIdle, Task, Goto
<1>11. CASE MainRunning \/ MainError
  BY <1>11 DEF MainRunning, MainError
<1>12. CASE MainOther
  BY <1>12 DEF MainOther, busVars, taskVars, UsbInv, Stages
<1> QED
  BY <1>1, <1>2, <1>3, <1>4, <1>5, <1>6, <1>7, <1>8, <1>9, <1>10, <1>11, <1>12
     DEF Loop, USB_Task

(* The socket and the chip touch nothing of it but to end the reset.       *)
LEMMA BusKeeps ==
  ASSUME \/ \E kind \in Kinds : Plug(kind)
         \/ Unplug \/ ResetDone \/ UNCHANGED usbVars
  PROVE  /\ UNCHANGED <<usb_task_state, pc, usb_delay, ms>>
         /\ ~busrst => ~busrst'
<1>1. CASE \E kind \in Kinds : Plug(kind)
  BY <1>1 DEF Plug, taskVars
<1>2. CASE Unplug
  BY <1>2 DEF Unplug, taskVars
<1>3. CASE ResetDone
  <2>1. busrst /\ UNCHANGED <<mode, pc, hirq, taskVars, mainVars, ms>>
    BY <1>3 DEF ResetDone
  <2> QED
    BY <2>1 DEF taskVars
<1>4. CASE UNCHANGED usbVars
  BY <1>4 DEF usbVars, busVars, taskVars
<1> QED
  BY <1>1, <1>2, <1>3, <1>4

(* From each stage to the next.                                            *)
Through(s, next) ==
  /\ In(s, "main") => In(s, "int")' \/ Ended'
  /\ In(s, "int")  => In(s, "task")' \/ Ended'
  /\ In(s, "task") => In(next, "main")' \/ Ended'

Kept(s) ==
  /\ In(s, "main") => In(s, "main")'
  /\ In(s, "int")  => In(s, "int")'
  /\ In(s, "task") => In(s, "task")'

Onward ==
  /\ Due => In(RESET_DEVICE, "main")' \/ Ended'
  /\ In(RESET_DEVICE, "main") => In(RESET_DEVICE, "int")' \/ In(RESET_DEVICE, "init")' \/ Ended'
  /\ In(RESET_DEVICE, "init") => Ended'
  /\ In(RESET_DEVICE, "int")  => In(RESET_DEVICE, "task")' \/ Ended'
  /\ In(RESET_DEVICE, "task") => Resetting' \/ Ended'
  /\ ResetIs("main") => ResetIs("int")' \/ Ended'
  /\ ResetIs("int")  => ResetIs("ack")' \/ ResetIs("task")' \/ Ended'
  /\ ResetIs("ack")  => ResetIs("task")' \/ In(WAIT_SOF, "task")' \/ Ended'
  /\ ResetIs("task") => In(WAIT_SOF, "main")' \/ Ended'
  /\ Through(WAIT_SOF, GET_DEVICE_DESCRIPTOR)
  /\ Through(GET_DEVICE_DESCRIPTOR, ADDRESSING)
  /\ Through(ADDRESSING, CONFIGURING)
  /\ Through(CONFIGURING, RUNNING)

Stays ==
  /\ Due => Due'
  /\ Kept(RESET_DEVICE) /\ (In(RESET_DEVICE, "init") => In(RESET_DEVICE, "init")')
  /\ ResetIs("main") => ResetIs("main")'
  /\ ResetIs("int")  => ResetIs("int")'
  /\ ResetIs("ack")  => ResetIs("ack")'
  /\ ResetIs("task") => ResetIs("task")'
  /\ Kept(WAIT_SOF) /\ Kept(GET_DEVICE_DESCRIPTOR) /\ Kept(ADDRESSING) /\ Kept(CONFIGURING)

(* The two states that wait do so until what they wait for has come.       *)
Await ==
  /\ Settling  => Settling' \/ In(RESET_DEVICE, "main")' \/ Ended'
  /\ Resetting => Resetting' \/ In(WAIT_SOF, "task")' \/ In(WAIT_SOF, "main")' \/ Ended'

LEMMA LoopEnumerates ==
  ASSUME UsbInv, Loop
  PROVE  Onward /\ Await
<1> USE DEF In, Settling, Due, Resetting, ResetIs, Onward, Await, Through
<1>1. CASE Ended
  BY <1>1 DEF Ended
<1>2. CASE ~Ended /\ Ended'
  BY <1>2
<1>3. CASE ~Ended /\ ~Ended'
  <2>1. Moves /\ (Resetting => busrst' = busrst) /\ (usb_task_state = SETTLE => usb_delay' = usb_delay)
    BY <1>3, LoopMoves
  <2>2. usb_task_state = RESET_DEVICE => pc # "init" \/ Ended'
    BY <2>1 DEF Moves
  <2> QED
    BY <1>3, <2>1, <2>2 DEF Moves, Settled
<1> QED
  BY <1>1, <1>2, <1>3

LEMMA BusEnumerates ==
  ASSUME \/ \E kind \in Kinds : Plug(kind)
         \/ Unplug \/ ResetDone \/ UNCHANGED usbVars
  PROVE  Stays /\ Await
BY BusKeeps DEF Stays, Await, Kept, In, Settling, Due, Resetting, ResetIs

LEMMA EnumerationStages ==
  ASSUME UsbInv, ~Ended, usb_task_state = SETTLE => usb_delay < MsWrap - 1
  PROVE  \/ Settling \/ Resetting \/ In(RESET_DEVICE, "init")
         \/ \E s \in {RESET_DEVICE, WAIT_SOF, GET_DEVICE_DESCRIPTOR, ADDRESSING, CONFIGURING} :
              In(s, "main") \/ In(s, "int") \/ In(s, "task")
<1>1. usb_task_state \in {SETTLE, RESET_DEVICE, WAIT_RESET_COMPLETE, WAIT_SOF,
                          GET_DEVICE_DESCRIPTOR, ADDRESSING, CONFIGURING}
  BY DEF UsbInv, Stages, StateKnown, KnownStates, Ended
<1>2. CASE usb_task_state \in {SETTLE, WAIT_RESET_COMPLETE}
  BY <1>2 DEF Settling, Resetting
<1>3. CASE usb_task_state \notin {SETTLE, WAIT_RESET_COMPLETE}
  <2>1. pc \in {"main", "int", "task"} \/ (pc = "init" /\ usb_task_state = RESET_DEVICE)
    BY <1>1, <1>3 DEF UsbInv, UsbTypeOK, Stages, ProbeStates, Fresh
  <2> QED
    BY <1>1, <1>3, <2>1 DEF In
<1> QED
  BY <1>2, <1>3

(* An enumeration comes to an end, settle timer and bus reset included, if *)
(* the loop goes on, bus resets end and the clock keeps coming round.      *)
THEOREM EnumerationOver ==
  UsbHostSpec /\ LoopRuns /\ ResetsEnd /\ ClockRuns => EnumerationEnds
<1>1. UsbInv /\ ~Ended /\ (usb_task_state = SETTLE => usb_delay < MsWrap - 1)
      => \/ Settling \/ Resetting \/ In(RESET_DEVICE, "init")
         \/ In(RESET_DEVICE, "main") \/ In(RESET_DEVICE, "int") \/ In(RESET_DEVICE, "task")
         \/ In(WAIT_SOF, "main") \/ In(WAIT_SOF, "int") \/ In(WAIT_SOF, "task")
         \/ In(GET_DEVICE_DESCRIPTOR, "main") \/ In(GET_DEVICE_DESCRIPTOR, "int")
         \/ In(GET_DEVICE_DESCRIPTOR, "task")
         \/ In(ADDRESSING, "main") \/ In(ADDRESSING, "int") \/ In(ADDRESSING, "task")
         \/ In(CONFIGURING, "main") \/ In(CONFIGURING, "int") \/ In(CONFIGURING, "task")
  BY EnumerationStages
<1>2. UsbInv /\ [UsbHostNext]_usbVars => (Onward \/ Stays) /\ Await
  BY LoopEnumerates, BusEnumerates DEF UsbHostNext
<1>3. UsbInv /\ <<Loop>>_usbVars => Onward
  BY LoopEnumerates
<1>4. Settling /\ pc = "task" /\ ms = MsWrap - 1 => Due
  BY DEF Due
<1>5. UsbInv /\ Resetting /\ ~busrst
      => ResetIs("main") \/ ResetIs("int") \/ ResetIs("ack") \/ ResetIs("task")
  BY DEF UsbInv, UsbTypeOK, Stages, ProbeStates, Fresh, Resetting, ResetIs
<1>6. In(RUNNING, "main") => Ended
  BY DEF In, Ended
<1>7. (usb_task_state \in SETTLE..CONFIGURING) <=> ~Ended
  BY DEF Ended
<1>8. (usb_task_state \notin SETTLE..CONFIGURING) <=> Ended
  BY DEF Ended
<1> QED
  BY <1>1, <1>2, <1>3, <1>4, <1>5, <1>6, <1>7, <1>8, UsbInvAlways, PTL
     DEF UsbHostSpec, LoopRuns, ResetsEnd, ClockRuns, EnumerationEnds, Onward, Stays,
         Await, Through, Kept
=============================================================================
