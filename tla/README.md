# Mortol Kombot: a TLA+ verification project

Mortol Kombot is a fighting game for a DE10-Lite FPGA board. The fighters, the
collisions, the health and the picture are SystemVerilog clocked by the video
signal. A NIOS II processor on the same chip runs a USB host driver and a loop
that turns keyboard reports into register writes, over the drivers and the
clock of a board support package. This directory holds TLA+ models of the parts
that decide a match and of those that carry a key from the keyboard to it, the TLC runs that check them on small
instances, and proofs, checked by TLAPS, that hold for every value of the
constants.

Paths below are relative to the repository. `.sv code/` holds the hardware,
`software/usb_kb/usb_kb/` the USB driver, `software/usb_kb_bsp/` the board support
package (BSP). "The history" stands for
`.metadata/.plugins/org.eclipse.core.resources/.history/`, where the Eclipse
workspace keeps the versions of the software that was edited in it.

## 1. Inventory

| Part | Source | State | Operations | Talks to |
|---|---|---|---|---|
| Fighter body | `.sv code/box.sv` (twice) | position, motion, jump flags, stance, facing, width, `p2_hit`, `knockback` | one `always_ff` block per frame; asynchronous reset | the other body's registers, `lose`, the key decoder, `run_state` |
| Running animation | `.sv code/run.sv` | `State` (r0 and 44 poses), `run_state` | one step per frame while walking | `box.sv`: a body is wider in poses 3 and 4 |
| Key decoder | `.sv code/key_code.sv` | none | report and mode to one key | the key registers |
| Health | `.sv code/p_health.sv` | `State` h23..h0; the bar registers | one step down per frame under a blow; R revives from h0 | `lose` to the body and the picture |
| Top level | `.sv code/project.sv` | ROM address registers | wiring; the multiplexer of the AI byte | everything |
| Video timing | `.sv code/VGA_controller.sv` | `clkdiv`, `hc`, `vc`, `hs`, `vs` | pixel counter; sync pulses | `vs` is the clock of the game |
| Picture | `.sv code/box_color.sv`, `ROM_data/*.sv` | three clock dividers | colour of a pixel | positions, sprites, bars |
| AI register | `IP/player2.sv` | `LOCAL_REG[4]` | Avalon reads and writes with byte enables | AI byte and `game_mode` to the hardware |
| Game loop and AI | the history, `a5/307c…` (`main.c`), `81/5001…` (`ai.c`) | `kbdbuf`, `rcode` | poll, write the report, move the AI, change the mode | key registers, AI register, USB driver |
| USB host | `transfer.c`, `MAX3421E.c`, `HID.c`, `software/usb_kb/main.c` | `usb_task_state`, `devtable`, `hid_device`, chip registers, `runningdebugflag` | `MAX3421E_Task` (interrupt, bus probe), `USB_Task`, class probes | the MAX3421E chip over SPI; the loop of `main` |
| USB transfers | `transfer.c`, `HID.c` | `rcvToggle` of each endpoint, the toggle of the chip | `XferCtrlReq`, `XferInTransfer`, `XferDispatchPkt`, `kbdPoll` | the device, packet by packet |
| Console of the program | BSP `altera_avalon_jtag_uart_*.c` | two rings and their indices, `irq_enable`, `host_inactive` | write, read, close; interrupt routine; a timeout every second | stdin and stdout; the host behind the JTAG cable |
| Clock | BSP `alt_tick.c`, `alt_alarm_start.c`, `altera_avalon_timer_sc.c` | `_alt_nticks`, the alarm list | tick, start an alarm | calls the timeout; read by every deadline of the USB host |
| Interrupts and start-up | BSP `alt_irq.h`, `alt_legacy_irq.h`, `alt_irq_handler.c`, `alt_irq_entry.S`, `alt_exception_entry.S`, `alt_sys_init.c`, `alt_main.c` | `status`, `ienable`, `alt_irq_active`, the handler table | register a routine, disable and enable all, take an exception, dispatch | the UART's and the clock's routine; every critical section |
| Rest of the BSP | `software/usb_kb_bsp/` | file descriptors, heap | C library hooks | |

How they interact. The loop polls the keyboard, copies four bytes of the report
into four key registers by four separate writes, writes the AI's answer, and
last the game mode. The hardware samples all of these at each rising edge of
`VGA_VS`, which comes from the video timing and has no relation to the
processor's clock. At that edge both bodies, both running animations and both
health chains take their next values from the values before it: each body reads
the other's position, width and `lose`; a health chain reads the other
fighter's `p2_hit`. The button `KEY[0]` resets the hardware, not the processor
(`project.sv:125` ties the processor's reset high).

Below the loop, each pass calls `MAX3421E_Task`, which looks at the interrupt pin
of the chip and moves `usb_task_state` when a device came or went, then
`USB_Task`, which takes the enumeration one state further, and then polls. Both
write the same state, the interrupt handler by an increment. Requests and polls
go through the transfers, which wait for the chip under a deadline read from the
clock. Everything printed goes into the transmit ring of the JTAG UART and from
there, by interrupts, to the host; the clock interrupt finds out whether that
host is still there.

**Which main program.** `software/usb_kb/main.c` in the tree writes one 16-bit
value to one key register and never writes a game mode: with it the hardware
here stays on its title screen. The history holds the program that fits the
hardware (four key registers, the AI byte, the mode), and `Console` is
translated from that. The newest surviving `ai.c` takes one more argument than
`main.c` passes; the argument is unused.

What is hard, and what makes each part correct:

- *Body.* The frame block assigns several registers more than once and the last
  assignment wins; four flags and a motion encode the phase of a jump; landing
  is an equality test; both bodies move at once, each from the other's old
  position. Correct: a jump always comes down and cannot be restarted in the
  air, stances exclude each other, bodies do not pass through each other.
- *Health.* `p2_hit` is a latch that a frozen or beaten fighter keeps; both may
  fall in one frame. Correct: health goes down only under a blow being landed,
  a beaten fighter starts no blow, only R revives and only from h0.
- *Video timing.* The frame clock is a sync pulse. Correct: it rises between
  pictures, once in each, for ever.
- *Game loop.* A frame may fall between any two writes; polls bring nothing or
  fail; the keyboard is unplugged. Correct: a key that is held is obeyed in
  every frame, the mode follows the keys, the registers catch up.
- *USB host.* A bus event is counted onto the state; devices come and go between
  any two steps, also between the sampling of the bus and the acknowledgement;
  the device table outlives the devices; milliseconds overflow. Correct: only
  states that are handled; nothing asked before a reset is over; no empty table
  entry read; what is polled is what is plugged in; an enumeration ends.
- *USB transfers.* A packet or its handshake is lost, a transfer is given up in the
  middle, two endpoints share one toggle of the chip. Correct: every report once
  and in order, every request whole.
- *Console of the program.* Interrupts move the rings between any two steps of a
  call, and turn themselves off; the cable may be pulled. Correct: characters in
  order and once, no lost wake-up, calls return.
- *Clock.* The tick counter and the time of an alarm overflow at different ticks.
  Correct: the alarm goes off once a period.
- *Interrupts.* The drivers let their devices ask before they register their
  routines; disabled sections nest and end in three places; the handler looks for
  the lowest pending bit and loops. Correct: an interrupt finds its cause and a
  routine, routines and disabled sections exclude each other, interrupts are never
  left shut, whoever asks is served.
- *AI register.* Its reset clears one register a clock. Correct: each write
  changes the enabled bytes and no other. (Partly, as variables of `Console`.)

`PROJECT.json` lists the hazards with the line where each bites and the
properties that would catch it.

## 2. Modules

```
Keys <- Run  <-\
Keys <- Health <- Box <- Fight <- MCFight, FightProofs
                          Fight implements Match, and Jump twice
Keys <- Console <- MCConsole, ConsoleProofs
VgaTiming <- VgaProofs
UsbHost <- MCUsbHost, UsbProofs
Channel <- UsbTransfer <- TransferProofs     polls implement Channel
Alarm, Channel <- JtagUart <- JtagProofs      both directions implement Channel
Irq <- MCIrq, IrqProofs
```

| Module | Models | Correspondence |
|---|---|---|
| `Keys` | `key_code.sv`, the AI multiplexer of `project.sv` | `keycode(p, ks, mode)` is the key fighter `p` obeys when the registers show `ks`; `keycodes` is what its port carries |
| `Run` | `run.sv` | `run_State` is the pose counter, `run_state` the pose shown; `RunFrame` one edge |
| `Health` | the chain of `p_health.sv` | `health[p]` is the number of the state h*n*; the bar registers are left out |
| `Box` | `box.sv` | one variable per register, one operator `next_…` per register that resolves its several assignments (the last one tested first), `BoxFrame` for one edge of both bodies |
| `Fight` | the instances and wires of `project.sv` | `Frame(ks, ai, mode)` is one edge of `VGA_VS` with those inputs, `Reset` is `KEY[0]` |
| `Match` | abstract | health of two sides and whether each is landing a blow |
| `Jump` | abstract | the phase and the height of one jump |
| `Console` | the loop of `main.c`, `ai_mover` | one action per register write, `pc` and `slot` say which comes next; keyboard and USB driver are external: a poll brings a report, nothing, or an error |
| `VgaTiming` | `VGA_controller.sv` | `Pixel` is a rising edge of `clkdiv`, `HalfPixel` a falling one, `Press`/`Release` the button |
| `UsbHost` | `main`, `MAX3421E_Task`, `MaxIntHandler`, `MAX_busprobe`, `MAX3421E_init`, `USB_Task`, `USB_init`, the HID probes | `Interrupt` and `Acknowledge` are the two halves of the handler, one action per case of `USB_Task`, `Main…` the branches of the loop; socket and chip are external |
| `UsbTransfer` | `XferCtrlReq`, `XferCtrlData`, `XferCtrlND`, `XferDispatchPkt`, `XferInTransfer`, `kbdPoll`, `mousePoll` | one action per packet and outcome of it; the device and what the bus loses are external |
| `Alarm` | `alt_tick`, `alt_alarm_start` | `alt_tick` one tick; `due` counts what is left, as it should be |
| `JtagUart` | the fast driver: init, interrupt routine, timeout, write, read, close | `Isr` one pass of the routine's loop; `Look`, `Copy`, `Advance`, `Enable`, `Wait` the steps of a call, a character at a time in `Copy` |
| `Irq` | `alt_irq_init`, `alt_iic_isr_register`, `alt_irq_disable_all`, `alt_irq_enable_all`, the exception entry, `alt_irq_handler` | `cpu` says who has the processor and how far the exception has come, `pc` the program's step; one action per read or write of a register or of the table |
| `Channel` | abstract | items put in and taken out, by their numbers |

Abstractions worth knowing:

- `ks`, `ai` and `mode` are arbitrary in every frame of `Fight`: that covers
  every interleaving of the processor with the frame clock, including torn
  reports. `Console` then shows what torn reports there are.
- Motions are signed in `Box`; the registers hold them modulo 1024. Positions
  wrap at `Width`, as 10-bit registers do, and expressions with unsized
  literals do not, as in 32 bits.
- In `box.sv`, `tmp_reset` is never set, so the branch that would put a fighter
  back (line 89) is dead and is left out; `ground` and `disy` are never read.
- The hardware starts from its reset (`Init` is what `Reset` gives). Before the
  first press of `KEY[0]` the registers are what power-up leaves.
- A poll in `Console` is one step: the time a poll takes is time in which frames
  pass and registers keep what they show.
- `span` in `Console`, `first` and `ticks` in `VgaTiming` and `due` in `Alarm` are
  history variables: they record what a property speaks of and guard nothing.
- In `UsbHost` a request succeeds or fails as a whole (`UsbTransfer` has its
  packets), the pin falls for a connection change only (`rHIEN`), a bus probe
  while a device is being put in may sample both lines, a bus reset may or may
  not raise the connection interrupt again, and a failed request may have
  reached the device. Requests whose result nobody uses are left out.
- In `UsbTransfer` the program waits while a packet is on the bus, so the packet
  and what becomes of its result are one step. The chip answers a packet with
  the wrong toggle and drops it (hrTOGERR). Reports fit a packet.
- In `JtagUart` a pass of the interrupt routine is one step. The spin loops read
  `host_inactive`, which is not volatile; the makefiles build with `-O0`
  (`usb_kb/Makefile:168`, `usb_kb_bsp/Makefile:141`), so it is read every time.
  The program does not define `ALTERA_AVALON_JTAG_UART_IGNORE_FIFO_FULL_ERROR`
  nor the small driver. That a pass of the routine, a tick and the program's
  step that turns an interrupt on are each one step, is `Irq!Exclusive`.
- In `Irq` what an earlier start of the program left in `ienable` and in the
  devices is left open. A line stays raised until its own routine serves it; a
  pass of the UART's routine lowers its line, and the UART may raise it again
  before the next pass.
- In `Alarm` the tick at which the one alarm is started is any tick. The list of
  alarms has one element (`alt_alarm_start` has one caller).

## 3. Runs

| Run | Instance | Shows |
|---|---|---|
| `brawl` | two players, keys D, P, R against Left and ?, an arena six steps wide | `TypeOK`; `NoPassing`: two fighters on their feet away from the walls never walk or are pushed through each other, unless a knock kept from the air carries one through (`KnockedThrough`, section 6); `Settled`: a beaten fighter that was landing no blow harms nobody; `MatchSpec`: the fight implements `Match` |
| `jump` | two players, W and D against Up and Left, with fairness | `JumpInv`: phases and heights of a jump; `ClinchHolds`: two fighters on the same pixel can be separated by a jump only; the first fighter implements `Jump`; `ComesDown`: whoever is in the air lands, or is beaten there |
| `solo` | all three modes at any frame; the AI byte carries every move of the second fighter, player 1 has S and R | `StanceInv`: one thing at a time, also when a fighter is frozen and unfrozen in the middle of a walk, a turn, a jump or a blow |
| `fair` (violation) | both players may jump and punch in every frame | see section 6 |
| `restart` (violation) | as `brawl`, two steps of health | see section 6 |
| `console` | reports of 2 keys into 2 registers; keys W and D, player 2's Up, Enter, Space and R; with fairness | `HeldKeyObeyed`: a key that has reached the registers and is still held is obeyed in every frame, also between two writes; `ModeFollowsKeys`: the mode changes only when the registers already show the key that changed it; `CatchesUp`: news reach the registers unless a poll fails or the plug is pulled |
| `screen` | 16 by 13 pixels, 11 by 7 shown, with fairness | `SyncInBlank`; `TickInBlank`: the game moves between pictures; `OneTickPerPicture`; `TicksForever` |
| `usb_plug` | a keyboard, a mouse, a device without driver; two addresses; settle time 1, milliseconds modulo 3; with fairness | `StateKnown`: the increment never leads to a state nothing handles, but for the one of `usb_dirty`; `AskedAfterReset`; `DriverReady`: no empty table entry is read; `PollsWhatItIs`: class and address polled are those of the device in the socket; `EnumerationEnds`; `UnplugNoticed` |
| `usb_dirty` (violation) | the same | see section 6 |
| `usb_poll` | four reports, requests of three packets, limits of three tries, with fairness | `ReportOnce`, `RequestWhole`, `DropsOnlyCopies`: a packet is dropped for its toggle only when it is a copy; `ReportsArrive`: the polls implement `Channel`, its liveness included |
| `jtag_chat` | rings of three, FIFOs of one, four characters each way, a host given up after two seconds, ticks modulo 3, with fairness | `TxNotStuck`, `RxNotDeaf`: no wake-up is lost; `TxInOrder`, `RxInOrder`: both directions implement the safety part of `Channel`; `AlarmOnTime`; `WriteReturns`: no call for output hangs, with the cable pulled either; `CharsArrive` |
| `boot` | the two lines of `system.h`, the clock's driver first, with fairness | `IrqSafe`: an interrupt that is taken finds its cause (`CauseFound`) and a routine (`HandlerReady`), routines and disabled sections exclude each other (`Exclusive`), interrupts are not left shut (`NotShut`); `Served`: a device with a routine is served unless one before it is served for ever |

Every property of a passing run has a mutant in `PROJECT.json`: a variant of one
definition, written above it in its module, that a plausible slip in the code
would give and under which TLC finds the property violated.

**Bounds, and why they are enough.** The instances of `Fight` keep the steps of
the source (3 pixels walked, 5 jumped) and shrink the arena. Sizes and starting
points are multiples of 3, so that two fighters can meet on the same pixel; a
body (9) is wider than two steps, a blow (12) reaches further than a body and a
lying body (15) further still; `Width` (48) leaves wrapped positions far from
the walls, as 1024 does. `Ground` 25 and `Apex` 17 leave the jump of the source
its shape: it turns at the first height not above the apex and has two more
steps to climb. The real numbers satisfy the same order, which is what the
assumptions of `Box` state and the proofs use. One step of health reaches the
fall and the revival in one blow; more health only repeats the descent, and
`restart` needs two to have a fighter that is hurt and not beaten. One frame per
pose (instead of 10) reaches all poses. In `console` two registers are enough
for a frame between two writes, and a key that moves from the second entry to
the first when another is let go. Keys of a report that no register shows (two
of six) are not in this instance; the proof of `HeldKeyObeyed` has them: a key
never moves to a later entry, so it never leaves the registers for them. In
`screen` every order between the pulses and the visible part is as in the
source; the pixel count of the vertical pulse literal (9) also lies in the
visible part of a line, so that a pulse taken from the wrong counter shows.

In `usb_plug` two addresses are enough for one to be used up by a device that
failed and for the table to be full; a third value of the clock makes a deadline
that the clock never passes and one that it does (the source has 200 ms and,
because `alt_nticks() * 1000` is taken modulo 2^32 before it is divided,
milliseconds that start again after about 71.6 minutes). A pass of the loop takes
at most one unit: a pass that spends longer in a request is not one that waits
for the settle timer; one that is held up by what it prints may be, and then a
deadline close to the last millisecond can be missed, too. In `usb_poll` a data stage of three packets has
a first, a middle and a last one, both toggles and a repetition of either; limits
of three let a packet be tried again twice and be given up, for each reason. In
`jtag_chat` a ring of three holds two characters, so that four wrap it, fill it
and split a copy in two; with FIFOs of one the interrupt routine leaves
characters behind in every way it can. Ticks modulo 3 with a period of one make
the alarm's time overflow before, with and after the counter. `boot` is not scaled
down: two lines are all this program registers. The proofs cover all sizes.

**Deadlock** is checked in every run: none of these systems stops.

**Fairness.** `Fight!FairSpec` assumes that frames go on. `VgaTiming` shows it:
`TicksForever`, from the board's clock alone, as long as the button is not
pressed for ever (in `Fight` the button is an action that is always enabled and
never fair). Nobody is assumed to press or to let go of a key. `FairConsole`
assumes that the processor goes on with its loop, which is all it runs.
`FairUsbHost` assumes the same, that the chip ends a bus reset, and that passes
of the loop take time again and again (strong fairness of a step in which the
clock advances: the clock is an interrupt and runs whatever the loop does).
Nothing is assumed of the devices. `FairTransfer` assumes that a transfer goes
on, that the program polls again and again, and that of infinitely many packets
of the reports some get through both ways; without the last no protocol on a
lossy bus delivers anything. Requests to endpoint 0 may come in between without
end. `FairJtag` assumes that a call goes on, that a pending interrupt and the
clock are served, and that a host which stays takes what the UART has for it. It
assumes nothing of a host that leaves, and no further call. `FairIrq` assumes that
the processor goes on, whether in the program or in the handler, and nothing of the
devices: this is why `Served` lets a line of higher priority keep the handler busy.

## 4. Theorems

All are proved for arbitrary constants under the assumptions of their modules:
the order of sizes and walls (`HorizontalAssumption`), room for a jump below the
top of the screen (`VerticalAssumption`), a body wider than two steps and no narrower than the
strip beyond the left wall, and no wrap at the right one (`ArenaAssumption`), at least one pose frame and one step of
health, inputs of the right kind (`InputAssumption`); for the console any set of
keys, reports at least as long as the registers, one to four registers
(`ConsoleAssumption`); for the screen the order of pulses and visible part
(`VgaAssumption`); for the USB host any number of addresses from one on, any
settle time and clock (`UsbAssumption`); for the transfers any limits from one on
and any number of packets and reports (`TransferAssumption`); for the JTAG UART
rings of two slots or more, a threshold below the depth of the FIFOs, a period
shorter than the tick counter (`JtagAssumption`, `AlarmAssumption`); for interrupts
any set of lines and any order of drivers, one at least (`IrqAssumption`). TLC evaluates
each of them in a run.

| Theorem | Property | Argument |
|---|---|---|
| `TypeCorrect` | `TypeOK` | inductive as it stands |
| `JumpSafe` | `JumpInv` | inductive with `TypeOK`: `OnLattice` makes the landing equality exact, the four phases carry the heights at which each may be left |
| `StanceSafe` | `StanceInv` | inductive with `TypeOK`, register by register |
| `MatchSettled` | `Settled` | step property; a beaten body is frozen, its latch with it |
| `ClinchKept` | `ClinchHolds` | step property with `TypeOK`: on one pixel neither is to the left of the other, so no branch moves or hits |
| `NobodyPasses` | `NoPassing` | step property with `TypeOK` and `JumpInv`: two steps are less than a body, and each body clamps against where the other was |
| `ImplementsMatch` | `MatchSpec` | refinement: each frame maps to `Exchange` or `Restart` by the key in the low byte, the button to `NewMatch` |
| `ImplementsJump0`, `ImplementsJump1` | `JumpSpec0`; (`JumpSpec1`, proved only) | refinement through `JumpInv`: height is (Ground - curY) / 5 |
| `ConsoleTypeCorrect` | `ConsoleTypeOK` | inductive |
| `HeldKeysSafe` | `HeldKeyObeyed` | `KeyInv`, below |
| `ModesFollow` | `ModeFollowsKeys` | `KeyInv`: the mode chain runs when every register is written |
| `PulsesInBlank`, `FramesInBlank`, `OneFramePerPicture` | `SyncInBlank`, `TickInBlank`, `OneTickPerPicture` | `ScanInv`: each pulse register, and the count of rises, as a function of where the scan is |
| `VgaTypeCorrect` | `VgaTypeOK` | part of `ScanInv` |
| `UsbTypeCorrect`, `StateKnownAlways`, `DriverReadyAlways`, `PollsWhatItIsAlways`, `AskedAfterResetAlways` | `UsbTypeOK`, `StateKnown`, `DriverReady`, `PollsWhatItIs`, `AskedAfterReset` | `UsbInv`, below |
| `TransferTypeCorrect`, `ReportOnceAlways`, `RequestWholeAlways`, `DropsOnlyCopiesAlways` | `TransferTypeOK`, `ReportOnce`, `RequestWhole`, `DropsOnlyCopies` | `TransferInv`, below |
| `ReportsInOrder` | (`Channel!ChannelSafe`) | refinement through `TransferInv` |
| `JtagTypeCorrect`, `AlarmOnTimeAlways`, `TxNotStuckAlways`, `RxNotDeafAlways` | `JtagTypeOK`, `AlarmOnTime`, `TxNotStuck`, `RxNotDeaf` | `JtagInv`, below |
| `TxInOrderAlways`, `RxInOrderAlways` | `TxInOrder`, `RxInOrder` | refinement through `JtagInv` |
| `IrqTypeCorrect`, `IrqCorrect` | (`IrqTypeOK`), `IrqSafe` | `IrqInv`, below |
| `LinesMatchTable` | (`EnabledInv`) | inductive as it stands |
| `RegistersCatchUp` | `CatchesUp` | if `LoopRuns`; the registers still to be written, one stage each |
| `UnplugSeen`, `EnumerationOver` | `UnplugNoticed`, `EnumerationEnds` | if `LoopRuns` (and `ResetsEnd`, `ClockRuns`); `UsbInv` and the stages of a pass |
| `DevicesServed` | `Served` | if `ProcessorRuns`, for the clock behind one other line (`OneDevice`); the stages of the exception |
| `ReportsGetThrough` | (the liveness of `Channel` in `ReportsArrive`, report by report) | if `PollsGoOn` and `NotForever`; `TransferInv`: while a report is missing the device sends that one or a copy of the one before |
| `LowerAndLower`, `TickNearer`, `WaitsLess` and `GivesUp`, `CharNearer` and `CharTaken` | (the steps of `ComesDown`, `TicksForever`, `WriteReturns`, `CharsArrive`) | ranks, below |

`HeldKeyObeyed` is not inductive: it speaks of the registers, and whether a key
stays in them depends on the report being written. `KeyInv` adds the three
facts that carry it: a key held since the last report stands no later on the
keyboard than in that report (keys that are let go only move others to earlier
entries); the registers written so far show the report; and a key held since an
earlier report is in some register, with the report being written having it no
later. A write can then take a key out of a register only when an earlier
register, already written, shows it: the ascending order of the four writes in
`setKeycode` is what makes torn reports harmless for keys that are held. The
descending order is the mutant of that run, and it fails.

`UsbInv` ties the state of the machine to the step of the loop (`Stages`), to the
chip (`Chip`) and to the device table (`Table`). `StateKnown` rests on `Stages`: a
bus event is looked at behind a connection change only, and the probe has then
just left the machine in one of five states, whose successors are known. `Chip`
says that the event that carries the machine past the wait for the reset means
that the reset is over. `Table` says that the entries in use are the first ones
and that the device being configured or run has the last of them: this is why
`GetDriverandReport`, which takes the last, is right, and why its hard-wired
address 1 is never empty.

`TransferInv` is the argument of an alternating bit protocol with its two ends in
different programs: main has the reports the device knows to have arrived and
the toggles agree, or it has one more and they differ (`Reported`); the same for
the packets of a data stage (`Transfer`). The saved toggle of endpoint 1 changes
only with a report that arrived, so a poll may be given up anywhere.

`JtagInv` says what lies in each ring and FIFO, by number, from the last character
the other side has had to the last one put in (`TxHeld`, `RxHeld`), with the
characters a copy under way has added or taken (`CallInv`). The interrupt routine
only ever makes room for a writer and characters for a reader, so what a call
computed from an index it read earlier stays on the safe side. `AlarmInv`: the
time of the alarm, plus the length of the word if the flag is set, is the tick
counter plus what is left.

`IrqInv` has three parts beside the property. `TableInv`: every line that is let in
has a routine in the table, since `alt_irq_active` is written after the table.
`SavedInv`: what each of the four saved copies of `status` holds, by the step at
which it is going to be restored; sections end in the order in which they began,
so the outermost copy alone lets interrupts in. `PendingInv`: what the handler read
as pending is still raised and let in, because only the routine of a line lowers it
and the program does not run meanwhile.

**Liveness.** The prover has no ENABLED, so it cannot use WF and SF. The theorems
about liveness take instead, as a hypothesis, what a fairness condition comes to
once its ENABLED is written out, named after what it says of the world:
`LoopRuns` (the loop takes a step again and again, in `ConsoleProofs` or waits
without a keyboard), `ResetsEnd` and `ClockRuns` in `UsbProofs` (no bus reset lasts, and
the machine looks again and again at the last millisecond), `ProcessorRuns`,
`PollsGoOn` and `NotForever` in `TransferProofs` (polls go on, and none asks for the same
packet for ever), `PlayGoesOn`, `ClockRuns` in `VgaProofs`, `ClockTicks`, `CallsGoOn`,
`InterruptsServed`, `HostListens`. That the fairness of `FairSpec`, `FairConsole`,
`FairVga`, `FairUsbHost`, `FairTransfer`, `FairJtag` and `FairIrq` implies them was tried with TLC
on the instances of section 3 (that of `FairJtag` with two characters each way) and
is not proved. `ClockRuns` of the USB host is the strongest of them: it follows
from the strong fairness of the clock, by which every
millisecond comes round. Several of them say that something is over again and again or a
step is taken again and again; where a bound on what is written or typed (`Chars`, `Keys`) ends the
steps, the first half is what they come to.

Four properties end by an induction over what is left to do, which is out of
the prover's reach. For each of them a theorem shows its single step, for every
value of what is left: frames of a jump (`ToGo`), lines and pixels to the pulse,
seconds and ticks to the timeout, characters and steps of a call. Each step leads
to less in a well-founded order (a number, or pairs and triples of numbers in
lexical order), and that there is no endless descent stays with TLC.

**Only model-checked.** `ComesDown`, `TicksForever`, `WriteReturns` and `CharsArrive` as wholes;
that `WF` and `SF` give the hypotheses above; the step from `ReportsGetThrough` to
the `WF` in `ReportsArrive` (over all reports). `WaitsLess` and `GivesUp` are about a host that is
gone; that a call returns when the host stays and reads is checked only.

## 5. Not modelled

- The bar registers of `p_health.sv` (planned), colours and sprite addressing
  (combinational, or one register of an address), the hex display.
- The AI's random choice: every answer of `ai_mover` is possible in every call.
  With `x = rand() % 6` the last `else` of its last branch is unreachable.
- The mouse branch, the LEDs and the debug output of `main.c`.
- The Avalon bus of `player2.sv`, and its two registers that nothing uses.
- The keyboard's poll in `Console` is a result, not the transfer of `UsbTransfer`; an
  error in `Console` may lose a report, which is more than the transfers do.
- In the USB host: SPI accesses (one register access is one read or write of a
  variable), the walk through a configuration descriptor, strings, the requests
  whose result nobody uses, `MaxGpxHandler` (reads a register). In the transfers: a
  report longer than a packet, OUT data (not implemented in the code), and a
  completion after the program's own deadline of 5 s.
- In the JTAG UART driver `ioctl`, which nothing calls, and the non-blocking result
  codes; in the clock `alt_alarm_stop`, which nothing reaches, and lists of alarms.
- Of the interrupts: `alt_irq_interruptible`, taking a routine out of the table, and
  the internal interrupt controller's calls for one line, which nothing here uses; the
  saving of registers in the exception entry.
- The rest of the board support package. C start-up, caches and profiling are
  straight-line code or assembly. The file descriptor functions
  (`alt_open`, `alt_get_fd`, `alt_release_fd`, `alt_fd_lock`) run once, for stdin, stdout and
  stderr, before `main`. They make up most of the C files by number, and most of
  their lines are licences, macros and declarations with nothing to model.
- Generated and vendor files: the SoC, databases, simulation and output files.

## 6. What the code does otherwise than the documents say

- **`fair`**: `project.sv:199` binds player 1's `other_SizeY` to a misspelt wire,
  `p2_boysizex`, which nothing drives (`output_files/Mortol_Kombot.map.rpt:12329` and 10305 have the
  warnings). In the run both fighters have full health and act: player 2 has just
  jumped, player 1 punches from the ground within reach, and the blow misses where
  the same blow of player 2 would land (`BlowsAlike`). `README.md:7` says that
  support for several keys at once "allows the multiplayer mode to be fair to both
  players at any point during a match". That sentence is about the keys, and they do
  come through (`HeldKeyObeyed`); what it says of the mode fails on the wire.
- **`restart`**: `README.md:34` lists R for "restart/reset". R revives a beaten
  fighter and leaves the mode; a fighter that is hurt stays hurt, and both stay
  where they stand (`p_health.sv:78`, `box.sv:104`).

- **`usb_dirty`**: `MAX3421E.c:137` and `transfer.c:260` say that a lost device's
  structures are cleared. The bus reset of its enumeration leaves `BUSEVENTIRQ` set
  until the next connection interrupt, which is the one of its removal:
  `MaxIntHandler` takes the state to 0x01 and, further on, to 0x02
  (`MAX3421E.c:195`), which no case handles, and `USB_init` is not called. After a
  device that ran, `main` starts over and clears the table (`main.c:219`). After one
  that had got an address and failed then nobody does: its address stays taken, and after seven
  of them every device is refused (`transfer.c:354`).

Seen and not made a run:

- `p2_hit` is a latch that only an acting fighter clears (`box.sv:113`): a fighter that is
  beaten, or frozen, while it lands a blow goes on draining its opponent, and both may end
  beaten. `Match` allows it and `Settled` leaves it out; no document speaks of it.
- A poll that fails, or a keyboard that is unplugged, leaves keys in the registers that
  nobody holds. `CatchesUp` leaves both out; no document speaks of it.
- `transfer.c:298` waits for the first SOF with `|` where `&` was meant: the test is
  always true, and the first request is sent at once (`TaskWaitSof`).
- `USB.h:101` calls the error state non-recoverable; a connection change takes the
  machine out of it like out of any other.
- A device pulled out between the sampling of the bus (`MAX3421E.c:103`) and the
  acknowledgement (`MAX3421E.c:199`) is not noticed until the next change.
- A deadline of the settle timer that falls on the last millisecond before the
  overflow, or after it, is never passed: the device is reached only when it is plugged in
  again. `EnumerationEnds` excludes it by name.
- A report of several packets whose transfer breaks off after the first (a mouse
  with packets shorter than its reports) leaves the old toggle saved, and every
  packet after that is dropped as a copy; `transfer.c:205` asks for a treatment of
  toggle errors.
- `altera_avalon_jtag_uart_write` gives up as soon as the host has missed one second,
  also when room was found meanwhile, and can return -EIO, "Host not connected"
  (line 214), to a program whose host has just taken characters (`WriteWait`).
- The comment above `box.sv:268` says that a fighter that was not hit is not knocked
  back; the latch is kept through a jump and a restart and applied later. Then the
  direction is the one in which the fighter looks by now (`dir` follows the opponent a
  frame late, and not while the running animation is on, `box.sv:274`): a fighter that
  looks away from its opponent is knocked towards it, and the two can change places (`KnockedThrough`). `NoPassing` excludes just that.
- The comment at `VGA_controller.sv:98` puts the vertical pulse on lines 490-491; the
  code compares `vc + 1`, so the pulse lies on lines 489-490 (a pixel late). It is
  within the blanking interval either way, which is what `SyncInBlank` and
  `TickInBlank` show. After `KEY[0]` is let go the first frame comes with the first
  pixel, inside the picture; these properties say so.

## 7. Plan

1. *Done*: `Keys`, `Run`, `Health`, `Box`, `Fight` with `Match` and `Jump`; `Console`;
   `VgaTiming`; `UsbHost`; `Channel` with `UsbTransfer` and `JtagUart` over `Alarm`; `Irq`; their
   runs and theorems.
2. *Done*: proofs of `NoPassing` and `ClinchHolds`; liveness from written-out fairness;
   the single steps of the rank arguments.
3. `Game`: `Fight` reading the registers of `Console`, frames between its writes.
   Properties across the boundary: leaving a match with R while a blow is being
   landed keeps the latch, so the victim is drained on the title screen and the
   next match may begin with a beaten fighter.
4. `UsbTransfer` with reports of several packets; its polls in the place of the
   results in `Console`.
5. The health bars; how far a body can be pushed through the left wall
   (`box.sv:246`); the latch of `knockback`.
6. File descriptors: `alt_fd_lock` looks at descriptors below `alt_max_fd` only, so the
   last one opened does not stop an exclusive claim.
