-------------------------------- MODULE Irq ---------------------------------
(***************************************************************************)
(* Interrupts, from the start of alt_main on: the processor's registers    *)
(* status and ienable, the exception entry, alt_irq_handler, the drivers   *)
(* that register their routines one after the other, and the critical      *)
(* sections of the program that runs afterwards.                           *)
(*                                                                         *)
(* One processor: cpu says whether the program runs or how far the         *)
(* exception has come, and pc stays where the program is meanwhile.  A     *)
(* device asks for service at any time, by raising its line, and keeps it  *)
(* raised until its routine has served it.  The result of                  *)
(* alt_irq_disable_all is a local variable of whoever calls it.            *)
(***************************************************************************)
EXTENDS Integers, Sequences

CONSTANTS
  Irq,      \* lines in use; the lowest comes first
  Order,    \* the lines in the order alt_sys_init starts their drivers
  Timer     \* the line of the clock

ASSUME IrqAssumption ==
  /\ Irq \subseteq Nat /\ Timer \in Irq
  /\ Order \in Seq(Irq) /\ Len(Order) > 0

VARIABLES
  PIE,              \* status: interrupts are let in
  ienable,          \* the lines that are let in
  alt_irq_active,   \* a copy of it in memory
  alt_irq,          \* lines whose entry in the table has a handler
  armed, line,      \* devices told to ask for service; that ask for it
  pc, driver,       \* the step of the program, the driver it is starting
  status, status1,  \* saved by the program; by alt_irq_enable within it
  cpu,              \* who has the processor
  estatus,          \* saved by the exception entry
  active, i,        \* lines found pending, the one being served
  cpu_sr            \* saved by the routine of the clock

programVars == <<pc, driver, status, status1>>
handlerVars == <<cpu, estatus, active, i, cpu_sr>>
irqVars ==
  <<PIE, ienable, alt_irq_active, alt_irq, armed, line, programVars, handlerVars>>

-----------------------------------------------------------------------------
(* The processor.                                                          *)

ipending    == ienable \cap line
Interrupted == PIE /\ ipending # {}

(* Variant: the search starts at the top bit.                              *)
Foremost_Last(lines) == {j \in lines : \A k \in lines : k <= j}

(* Lowest number first.                                                    *)
Foremost(lines) == {j \in lines : \A k \in lines : j <= k}

(* Variant: the caller's state is not restored, interrupts are let in.     *)
alt_irq_enable_all_Always(context) == PIE' = TRUE

alt_irq_disable_all         == PIE' = FALSE
alt_irq_enable_all(context) == PIE' = context

(* A device asks for service.                                              *)
Raise ==
  \E j \in armed \ line :
    /\ line' = line \cup {j}
    /\ UNCHANGED <<PIE, ienable, alt_irq_active, alt_irq, armed, programVars, handlerVars>>

(* A reset shuts interrupts out.  What an earlier start of the program has *)
(* left in the devices and in ienable is left open.                        *)
IrqInit ==
  /\ PIE = FALSE
  /\ ienable \in SUBSET Irq /\ armed \in SUBSET Irq /\ line \in SUBSET armed
  /\ alt_irq_active = {} /\ alt_irq = {}
  /\ pc = "reset" /\ driver = 1 /\ status = FALSE /\ status1 = FALSE
  /\ cpu = "program" /\ estatus = FALSE
  /\ active = {} /\ i = 0 /\ cpu_sr = FALSE

-----------------------------------------------------------------------------
(* The program.  An interrupt comes before the next instruction.           *)

At(step, next) ==
  /\ cpu = "program" /\ ~Interrupted
  /\ pc = step /\ pc' = next
  /\ UNCHANGED <<line, handlerVars>>

(* alt_irq_init.                                                           *)
ClearController ==
  /\ At("reset", "enable_cpu")
  /\ ienable' = {}
  /\ UNCHANGED <<PIE, alt_irq_active, alt_irq, armed, driver, status, status1>>

CpuEnable ==
  /\ At("enable_cpu", "start")
  /\ PIE' = TRUE
  /\ UNCHANGED <<ienable, alt_irq_active, alt_irq, armed, driver, status, status1>>

(* alt_sys_init: each driver tells its device to ask for service, then     *)
(* registers its routine (alt_iic_isr_register, and alt_irq_enable in it). *)
DriverStart ==
  /\ At("start", "register")
  /\ armed' = armed \cup {Order[driver]}
  /\ UNCHANGED <<PIE, ienable, alt_irq_active, alt_irq, driver, status, status1>>

RegisterLock ==
  /\ At("register", "table")
  /\ status' = PIE /\ alt_irq_disable_all
  /\ UNCHANGED <<ienable, alt_irq_active, alt_irq, armed, driver, status1>>

RegisterTable ==
  /\ At("table", "enable")
  /\ alt_irq' = alt_irq \cup {Order[driver]}
  /\ UNCHANGED <<PIE, ienable, alt_irq_active, armed, driver, status, status1>>

EnableLock ==
  /\ At("enable", "activate")
  /\ status1' = PIE /\ alt_irq_disable_all
  /\ UNCHANGED <<ienable, alt_irq_active, alt_irq, armed, driver, status>>

EnableActive ==
  /\ At("activate", "write")
  /\ alt_irq_active' = alt_irq_active \cup {Order[driver]}
  /\ UNCHANGED <<PIE, ienable, alt_irq, armed, driver, status, status1>>

EnableWrite ==
  /\ At("write", "enabled")
  /\ ienable' = alt_irq_active
  /\ UNCHANGED <<PIE, alt_irq_active, alt_irq, armed, driver, status, status1>>

EnableUnlock ==
  /\ At("enabled", "registered")
  /\ alt_irq_enable_all(status1)
  /\ UNCHANGED <<ienable, alt_irq_active, alt_irq, armed, driver, status, status1>>

RegisterUnlock ==
  /\ At("registered", IF driver < Len(Order) THEN "start" ELSE "run")
  /\ alt_irq_enable_all(status)
  /\ driver' = IF driver < Len(Order) THEN driver + 1 ELSE driver
  /\ UNCHANGED <<ienable, alt_irq_active, alt_irq, armed, status, status1>>

(* Starting an alarm, growing the heap and turning the interrupts of the   *)
(* UART on are critical sections of this shape.                            *)
Lock ==
  /\ At("run", "critical")
  /\ status' = PIE /\ alt_irq_disable_all
  /\ UNCHANGED <<ienable, alt_irq_active, alt_irq, armed, driver, status1>>

Unlock ==
  /\ At("critical", "run")
  /\ alt_irq_enable_all(status)
  /\ UNCHANGED <<ienable, alt_irq_active, alt_irq, armed, driver, status, status1>>

Program ==
  \/ ClearController \/ CpuEnable \/ DriverStart
  \/ RegisterLock \/ RegisterTable \/ RegisterUnlock
  \/ EnableLock \/ EnableActive \/ EnableWrite \/ EnableUnlock
  \/ Lock \/ Unlock

-----------------------------------------------------------------------------
(* The exception.                                                          *)

untouchedByHandler ==
  <<ienable, alt_irq_active, alt_irq, armed, programVars>>

Exception ==
  /\ cpu = "program" /\ Interrupted
  /\ estatus' = PIE /\ PIE' = FALSE
  /\ cpu' = "entry"
  /\ UNCHANGED <<untouchedByHandler, line, active, i, cpu_sr>>

(* An exception with nothing pending is taken for one of an instruction,   *)
(* for which the program has no handler: the processor breaks.             *)
IrqTest ==
  /\ cpu = "entry"
  /\ cpu' = IF estatus /\ ipending # {} THEN "pending" ELSE "break"
  /\ UNCHANGED <<untouchedByHandler, PIE, line, estatus, active, i, cpu_sr>>

(* alt_irq_handler reads what is pending, then looks for its lowest bit;   *)
(* with no bit set that search would not end.                              *)
ReadPending ==
  /\ cpu = "pending"
  /\ active' = ipending /\ cpu' = "search"
  /\ UNCHANGED <<untouchedByHandler, PIE, line, estatus, i, cpu_sr>>

Search ==
  /\ cpu = "search"
  /\ IF active = {} THEN cpu' = "searching" /\ i' = i
                    ELSE cpu' = "service" /\ i' \in Foremost(active)
  /\ UNCHANGED <<untouchedByHandler, PIE, line, estatus, active, cpu_sr>>

(* alt_avalon_timer_sc_irq clears the line and locks alt_tick.             *)
ClockClear ==
  /\ cpu = "service" /\ i = Timer
  /\ line' = line \ {i} /\ cpu' = "lock"
  /\ UNCHANGED <<untouchedByHandler, PIE, estatus, active, i, cpu_sr>>

ClockLock ==
  /\ cpu = "lock"
  /\ cpu_sr' = PIE /\ alt_irq_disable_all /\ cpu' = "tick"
  /\ UNCHANGED <<untouchedByHandler, line, estatus, active, i>>

ClockUnlock ==
  /\ cpu = "tick"
  /\ alt_irq_enable_all(cpu_sr) /\ cpu' = "more"
  /\ UNCHANGED <<untouchedByHandler, line, estatus, active, i, cpu_sr>>

(* altera_avalon_jtag_uart_irq serves its device until it finds nothing    *)
(* more to do.                                                             *)
DevicePass ==
  /\ cpu = "service" /\ i # Timer
  /\ line' = line \ {i}
  /\ cpu' = IF i \in line THEN "service" ELSE "more"
  /\ UNCHANGED <<untouchedByHandler, PIE, estatus, active, i, cpu_sr>>

(* The handler goes on as long as it finds something pending.              *)
More ==
  /\ cpu = "more"
  /\ active' = ipending
  /\ cpu' = IF ipending = {} THEN "exit" ELSE "search"
  /\ UNCHANGED <<untouchedByHandler, PIE, line, estatus, i, cpu_sr>>

Eret ==
  /\ cpu = "exit"
  /\ PIE' = estatus /\ cpu' = "program"
  /\ UNCHANGED <<untouchedByHandler, line, estatus, active, i, cpu_sr>>

Handler ==
  \/ Exception \/ IrqTest \/ ReadPending \/ Search
  \/ ClockClear \/ ClockLock \/ ClockUnlock \/ DevicePass
  \/ More \/ Eret

IrqNext == Raise \/ Program \/ Handler

IrqSpec == IrqInit /\ [][IrqNext]_irqVars

(* The processor never stops.                                              *)
FairIrq == IrqSpec /\ WF_irqVars(Program \/ Handler)

-----------------------------------------------------------------------------
Serving == {"service", "lock", "tick"}
Locked  == {"table", "enable", "activate", "write", "enabled", "registered", "critical"}

IrqTypeOK ==
  /\ PIE \in BOOLEAN /\ status \in BOOLEAN /\ status1 \in BOOLEAN
  /\ estatus \in BOOLEAN /\ cpu_sr \in BOOLEAN
  /\ ienable \subseteq Irq /\ alt_irq_active \subseteq Irq /\ alt_irq \subseteq Irq
  /\ armed \subseteq Irq /\ line \subseteq armed /\ active \subseteq Irq
  /\ i \in Irq \cup {0}
  /\ driver \in 1..Len(Order)
  /\ pc \in {"reset", "enable_cpu", "start", "register", "run"} \cup Locked
  /\ cpu \in {"program", "entry", "pending", "search", "more", "exit",
              "break", "searching"} \cup Serving

(* A routine is called only when it is in the table, however early its     *)
(* device asks: the drivers let their devices ask before they register.    *)
HandlerReady == cpu \in Serving => i \in alt_irq

(* An interrupt that has been taken finds its cause: the processor neither *)
(* takes it for a bad instruction nor searches for ever for a bit.         *)
CauseFound == cpu \notin {"break", "searching"}

(* What the program does with interrupts disabled and what an interrupt    *)
(* routine does exclude each other, and no routine is interrupted by       *)
(* another, although disabled sections nest and end in three places.       *)
Exclusive == cpu # "program" => ~PIE /\ pc \notin Locked

(* Outside its disabled sections the program is never left with            *)
(* interrupts shut.                                                        *)
NotShut == cpu = "program" /\ pc \notin {"reset", "enable_cpu"} \cup Locked => PIE

IrqSafe == HandlerReady /\ CauseFound /\ Exclusive /\ NotShut

(* A device that asks once its routine is installed is served, unless one  *)
(* that comes before it is served again and again.                         *)
Served ==
  \A j \in Irq :
    \/ j \in line \cap alt_irq ~> cpu = "service" /\ i = j
    \/ []<>(cpu = "service" /\ i < j)
=============================================================================
