------------------------------ MODULE IrqProofs -----------------------------
(***************************************************************************)
(* Proofs about Irq.                                                       *)
(***************************************************************************)
EXTENDS Irq, TLAPS

(* What the lines let in have to do with the table of handlers.            *)
TableInv ==
  /\ alt_irq_active \subseteq alt_irq
  /\ pc # "reset" => ienable \subseteq alt_irq
  /\ pc \in Locked \ {"table", "critical"} => Order[driver] \in alt_irq

(* What is in the saved copies of the status register.                     *)
SavedInv ==
  /\ pc \in {"reset", "enable_cpu"} => ~PIE /\ cpu = "program"
  /\ pc \in Locked => ~PIE /\ status
  /\ pc \in {"activate", "write", "enabled"} => ~status1
  /\ cpu # "program" => estatus
  /\ cpu = "tick" => ~cpu_sr

(* What a handler that has been called knows to be pending.                *)
PendingInv ==
  /\ cpu \in {"entry", "pending"} => ipending # {}
  /\ cpu = "search" => active # {} /\ active \subseteq alt_irq

IrqInv == IrqTypeOK /\ IrqSafe /\ TableInv /\ SavedInv /\ PendingInv

LEMMA DriverType ==
  ASSUME driver \in 1..Len(Order)
  PROVE  Order[driver] \in Irq
BY IrqAssumption

LEMMA InitInv == IrqInit => IrqInv
<1> SUFFICES ASSUME IrqInit PROVE IrqInv
  OBVIOUS
<1> USE DEF IrqInit
<1>1. 1 \in 1..Len(Order)
  BY IrqAssumption
<1>2. IrqTypeOK
  BY <1>1 DEF IrqTypeOK
<1>3. IrqSafe /\ TableInv /\ SavedInv /\ PendingInv
  BY DEF IrqSafe, HandlerReady, CauseFound, Exclusive, NotShut, Serving, Locked,
         TableInv, SavedInv, PendingInv
<1> QED BY <1>2, <1>3 DEF IrqInv

(* A device that asks changes nothing but its line.                        *)
LEMMA RaiseInv == IrqInv /\ Raise => IrqInv'
<1> SUFFICES ASSUME IrqInv, Raise PROVE IrqInv'
  OBVIOUS
<1> USE DEF IrqInv
<1>1. PICK j \in armed \ line :
        /\ line' = line \cup {j}
        /\ UNCHANGED <<PIE, ienable, alt_irq_active, alt_irq, armed, programVars, handlerVars>>
  BY DEF Raise
<1> USE <1>1 DEF programVars, handlerVars
<1>2. IrqTypeOK'
  BY DEF IrqTypeOK
<1>3. IrqSafe'
  BY DEF IrqSafe, HandlerReady, CauseFound, Exclusive, NotShut
<1>4. TableInv' /\ SavedInv'
  BY DEF TableInv, SavedInv
<1>5. PendingInv'
  BY DEF PendingInv, ipending
<1> QED BY <1>2, <1>3, <1>4, <1>5

(* A step of the program: it is not interrupted, so what is saved belongs  *)
(* to the program alone.                                                   *)
LEMMA ProgramInv == IrqInv /\ Program => IrqInv'
<1> SUFFICES ASSUME IrqInv, Program PROVE IrqInv'
  OBVIOUS
<1> USE DEF IrqInv, At, handlerVars, Locked, Serving
<1>0. Order[driver] \in Irq
  BY DriverType DEF IrqTypeOK
<1>1. cpu = "program" /\ UNCHANGED <<line, handlerVars>>
  BY DEF Program, ClearController, CpuEnable, DriverStart, RegisterLock, RegisterTable,
         RegisterUnlock, EnableLock, EnableActive, EnableWrite, EnableUnlock, Lock, Unlock
<1>2. PendingInv'
  BY <1>1 DEF PendingInv
<1>3. HandlerReady' /\ CauseFound' /\ Exclusive'
  BY <1>1 DEF IrqSafe, HandlerReady, CauseFound, Exclusive
<1>4. CASE ClearController
  <2> USE <1>4 DEF ClearController
  <2>1. IrqTypeOK'
    BY DEF IrqTypeOK
  <2>2. NotShut' /\ TableInv' /\ SavedInv'
    BY <1>1 DEF NotShut, TableInv, SavedInv
  <2> QED BY <1>2, <1>3, <2>1, <2>2 DEF IrqSafe
<1>5. CASE CpuEnable
  <2> USE <1>5 DEF CpuEnable
  <2>1. IrqTypeOK'
    BY DEF IrqTypeOK
  <2>2. NotShut' /\ TableInv' /\ SavedInv'
    BY <1>1 DEF NotShut, TableInv, SavedInv
  <2> QED BY <1>2, <1>3, <2>1, <2>2 DEF IrqSafe
<1>6. CASE DriverStart
  <2> USE <1>6 DEF DriverStart
  <2>1. IrqTypeOK'
    BY <1>0 DEF IrqTypeOK
  <2>2. NotShut' /\ TableInv' /\ SavedInv'
    BY <1>1 DEF IrqSafe, NotShut, TableInv, SavedInv
  <2> QED BY <1>2, <1>3, <2>1, <2>2 DEF IrqSafe
<1>7. CASE RegisterLock
  <2> USE <1>7 DEF RegisterLock, alt_irq_disable_all
  <2>1. IrqTypeOK'
    BY DEF IrqTypeOK
  <2>2. NotShut' /\ TableInv' /\ SavedInv'
    BY <1>1 DEF IrqSafe, NotShut, TableInv, SavedInv
  <2> QED BY <1>2, <1>3, <2>1, <2>2 DEF IrqSafe
<1>8. CASE RegisterTable
  <2> USE <1>8 DEF RegisterTable
  <2>1. IrqTypeOK'
    BY <1>0 DEF IrqTypeOK
  <2>2. NotShut' /\ TableInv' /\ SavedInv'
    BY <1>1 DEF NotShut, TableInv, SavedInv
  <2> QED BY <1>2, <1>3, <2>1, <2>2 DEF IrqSafe
<1>9. CASE EnableLock
  <2> USE <1>9 DEF EnableLock, alt_irq_disable_all
  <2>1. IrqTypeOK'
    BY DEF IrqTypeOK
  <2>2. NotShut' /\ TableInv' /\ SavedInv'
    BY <1>1 DEF NotShut, TableInv, SavedInv
  <2> QED BY <1>2, <1>3, <2>1, <2>2 DEF IrqSafe
<1>10. CASE EnableActive
  <2> USE <1>10 DEF EnableActive
  <2>1. IrqTypeOK'
    BY <1>0 DEF IrqTypeOK
  <2>2. NotShut' /\ TableInv' /\ SavedInv'
    BY <1>1 DEF NotShut, TableInv, SavedInv
  <2> QED BY <1>2, <1>3, <2>1, <2>2 DEF IrqSafe
<1>11. CASE EnableWrite
  <2> USE <1>11 DEF EnableWrite
  <2>1. IrqTypeOK'
    BY DEF IrqTypeOK
  <2>2. NotShut' /\ TableInv' /\ SavedInv'
    BY <1>1 DEF NotShut, TableInv, SavedInv
  <2> QED BY <1>2, <1>3, <2>1, <2>2 DEF IrqSafe
<1>12. CASE EnableUnlock
  <2> USE <1>12 DEF EnableUnlock, alt_irq_enable_all
  <2>1. IrqTypeOK'
    BY DEF IrqTypeOK
  <2>2. NotShut' /\ TableInv' /\ SavedInv'
    BY <1>1 DEF NotShut, TableInv, SavedInv
  <2> QED BY <1>2, <1>3, <2>1, <2>2 DEF IrqSafe
<1>13. CASE RegisterUnlock
  <2> USE <1>13 DEF RegisterUnlock, alt_irq_enable_all
  <2>1. pc' \in {"start", "run"} /\ PIE'
    BY DEF SavedInv
  <2>2. driver' \in 1..Len(Order)
    BY IrqAssumption DEF IrqTypeOK
  <2>3. IrqTypeOK'
    BY <2>1, <2>2 DEF IrqTypeOK
  <2>4. NotShut' /\ TableInv' /\ SavedInv'
    BY <1>1, <2>1 DEF NotShut, TableInv, SavedInv
  <2> QED BY <1>2, <1>3, <2>3, <2>4 DEF IrqSafe
<1>14. CASE Lock
  <2> USE <1>14 DEF Lock, alt_irq_disable_all
  <2>1. IrqTypeOK'
    BY DEF IrqTypeOK
  <2>2. NotShut' /\ TableInv' /\ SavedInv'
    BY <1>1 DEF IrqSafe, NotShut, TableInv, SavedInv
  <2> QED BY <1>2, <1>3, <2>1, <2>2 DEF IrqSafe
<1>15. CASE Unlock
  <2> USE <1>15 DEF Unlock, alt_irq_enable_all
  <2>1. IrqTypeOK'
    BY DEF IrqTypeOK
  <2>2. NotShut' /\ TableInv' /\ SavedInv'
    BY <1>1 DEF NotShut, TableInv, SavedInv
  <2> QED BY <1>2, <1>3, <2>1, <2>2 DEF IrqSafe
<1> QED
  BY <1>4, <1>5, <1>6, <1>7, <1>8, <1>9, <1>10, <1>11, <1>12, <1>13, <1>14, <1>15 DEF Program

(* A step of the handler: it leaves the program and the table alone.       *)
LEMMA HandlerInv == IrqInv /\ Handler => IrqInv'
<1> SUFFICES ASSUME IrqInv, Handler PROVE IrqInv'
  OBVIOUS
<1> USE DEF IrqInv, untouchedByHandler, programVars
<1>1. UNCHANGED untouchedByHandler
  BY DEF Handler, Exception, IrqTest, ReadPending, Search, ClockClear, ClockLock,
         ClockUnlock, DevicePass, More, Eret
<1>2. TableInv'
  BY <1>1 DEF TableInv
<1>3. pc \notin {"reset", "enable_cpu"} \cup Locked
  <2>1. CASE Exception
    BY <2>1 DEF Exception, Interrupted, SavedInv
  <2>2. CASE cpu # "program"
    BY <2>2 DEF IrqSafe, Exclusive, SavedInv
  <2> QED
    BY <2>1, <2>2 DEF Handler, IrqTest, ReadPending, Search, ClockClear, ClockLock,
                      ClockUnlock, DevicePass, More, Eret
<1>4. ienable \subseteq alt_irq
  BY <1>3 DEF TableInv
<1> USE DEF Serving
<1>5. CASE Exception
  <2> USE <1>5 DEF Exception
  <2>1. PIE /\ ipending # {}
    BY DEF Interrupted
  <2>2. IrqTypeOK'
    BY <1>1 DEF IrqTypeOK
  <2>3. IrqSafe'
    BY <1>1, <1>3 DEF IrqSafe, HandlerReady, CauseFound, Exclusive, NotShut, Locked
  <2>4. SavedInv' /\ PendingInv'
    BY <1>1, <1>3, <2>1 DEF SavedInv, PendingInv, ipending, Locked
  <2> QED BY <1>2, <2>2, <2>3, <2>4
<1>6. CASE IrqTest
  <2> USE <1>6 DEF IrqTest
  <2>1. cpu' = "pending"
    BY DEF SavedInv, PendingInv
  <2>2. IrqTypeOK'
    BY <1>1, <2>1 DEF IrqTypeOK
  <2>3. IrqSafe'
    BY <1>1, <1>3, <2>1 DEF IrqSafe, HandlerReady, CauseFound, Exclusive, NotShut, Locked
  <2>4. SavedInv' /\ PendingInv'
    BY <1>1, <1>3, <2>1 DEF SavedInv, PendingInv, ipending, Locked
  <2> QED BY <1>2, <2>2, <2>3, <2>4
<1>7. CASE ReadPending
  <2> USE <1>7 DEF ReadPending
  <2>1. active' # {} /\ active' \subseteq alt_irq /\ active' \subseteq Irq
    BY <1>4 DEF PendingInv, ipending, IrqTypeOK
  <2>2. IrqTypeOK'
    BY <1>1, <2>1 DEF IrqTypeOK
  <2>3. IrqSafe'
    BY <1>1, <1>3 DEF IrqSafe, HandlerReady, CauseFound, Exclusive, NotShut, Locked
  <2>4. SavedInv' /\ PendingInv'
    BY <1>1, <1>3, <2>1 DEF SavedInv, PendingInv, Locked
  <2> QED BY <1>2, <2>2, <2>3, <2>4
<1>8. CASE Search
  <2> USE <1>8 DEF Search
  <2>1. cpu' = "service" /\ i' \in active
    BY DEF PendingInv, Foremost
  <2>2. i' \in alt_irq /\ i' \in Irq
    BY <2>1 DEF PendingInv, IrqTypeOK
  <2>3. IrqTypeOK'
    BY <1>1, <2>1, <2>2 DEF IrqTypeOK
  <2>4. IrqSafe'
    BY <1>1, <1>3, <2>1, <2>2 DEF IrqSafe, HandlerReady, CauseFound, Exclusive, NotShut, Locked
  <2>5. SavedInv' /\ PendingInv'
    BY <1>1, <1>3, <2>1 DEF SavedInv, PendingInv, Locked
  <2> QED BY <1>2, <2>3, <2>4, <2>5
<1>9. CASE ClockClear
  <2> USE <1>9 DEF ClockClear
  <2>1. IrqTypeOK'
    BY <1>1 DEF IrqTypeOK
  <2>2. IrqSafe'
    BY <1>1, <1>3 DEF IrqSafe, HandlerReady, CauseFound, Exclusive, NotShut, Locked
  <2>3. SavedInv' /\ PendingInv'
    BY <1>1, <1>3 DEF SavedInv, PendingInv, Locked
  <2> QED BY <1>2, <2>1, <2>2, <2>3
<1>10. CASE ClockLock
  <2> USE <1>10 DEF ClockLock, alt_irq_disable_all
  <2>1. ~PIE
    BY DEF IrqSafe, Exclusive
  <2>2. IrqTypeOK'
    BY <1>1 DEF IrqTypeOK
  <2>3. IrqSafe'
    BY <1>1, <1>3 DEF IrqSafe, HandlerReady, CauseFound, Exclusive, NotShut, Locked
  <2>4. SavedInv' /\ PendingInv'
    BY <1>1, <1>3, <2>1 DEF SavedInv, PendingInv, Locked
  <2> QED BY <1>2, <2>2, <2>3, <2>4
<1>11. CASE ClockUnlock
  <2> USE <1>11 DEF ClockUnlock, alt_irq_enable_all
  <2>1. ~cpu_sr
    BY DEF SavedInv
  <2>2. IrqTypeOK'
    BY <1>1 DEF IrqTypeOK
  <2>3. IrqSafe'
    BY <1>1, <1>3, <2>1 DEF IrqSafe, HandlerReady, CauseFound, Exclusive, NotShut, Locked
  <2>4. SavedInv' /\ PendingInv'
    BY <1>1, <1>3 DEF SavedInv, PendingInv, Locked
  <2> QED BY <1>2, <2>2, <2>3, <2>4
<1>12. CASE DevicePass
  <2> USE <1>12 DEF DevicePass
  <2>1. cpu' \in {"service", "more"}
    OBVIOUS
  <2>2. IrqTypeOK'
    BY <1>1, <2>1 DEF IrqTypeOK
  <2>3. IrqSafe'
    BY <1>1, <1>3, <2>1 DEF IrqSafe, HandlerReady, CauseFound, Exclusive, NotShut, Locked
  <2>4. SavedInv' /\ PendingInv'
    BY <1>1, <1>3, <2>1 DEF SavedInv, PendingInv, Locked
  <2> QED BY <1>2, <2>2, <2>3, <2>4
<1>13. CASE More
  <2> USE <1>13 DEF More
  <2>1. active' \subseteq alt_irq /\ active' \subseteq Irq
    BY <1>4 DEF ipending, IrqTypeOK
  <2>2. cpu' \in {"exit", "search"} /\ (cpu' = "search" => active' # {})
    OBVIOUS
  <2>3. IrqTypeOK'
    BY <1>1, <2>1, <2>2 DEF IrqTypeOK
  <2>4. IrqSafe'
    BY <1>1, <1>3, <2>2 DEF IrqSafe, HandlerReady, CauseFound, Exclusive, NotShut, Locked
  <2>5. SavedInv' /\ PendingInv'
    BY <1>1, <1>3, <2>1, <2>2 DEF SavedInv, PendingInv, Locked
  <2> QED BY <1>2, <2>3, <2>4, <2>5
<1>14. CASE Eret
  <2> USE <1>14 DEF Eret
  <2>1. estatus
    BY DEF SavedInv
  <2>2. IrqTypeOK'
    BY <1>1 DEF IrqTypeOK
  <2>3. IrqSafe'
    BY <1>1, <1>3, <2>1 DEF IrqSafe, HandlerReady, CauseFound, Exclusive, NotShut, Locked
  <2>4. SavedInv' /\ PendingInv'
    BY <1>1, <1>3 DEF SavedInv, PendingInv, Locked
  <2> QED BY <1>2, <2>2, <2>3, <2>4
<1> QED
  BY <1>5, <1>6, <1>7, <1>8, <1>9, <1>10, <1>11, <1>12, <1>13, <1>14 DEF Handler

LEMMA IrqInductive == IrqSpec => []IrqInv
<1>1. IrqInv /\ UNCHANGED irqVars => IrqInv'
  BY DEF IrqInv, irqVars, programVars, handlerVars, IrqTypeOK, IrqSafe, HandlerReady,
         CauseFound, Exclusive, NotShut, TableInv, SavedInv, PendingInv, ipending
<1>2. IrqInv /\ [IrqNext]_irqVars => IrqInv'
  BY <1>1, RaiseInv, ProgramInv, HandlerInv DEF IrqNext
<1> QED BY InitInv, <1>2, PTL DEF IrqSpec

(* Every register and variable keeps to its values (Irq).                  *)
THEOREM IrqTypeCorrect == IrqSpec => []IrqTypeOK
BY IrqInductive, PTL DEF IrqInv

(* Interrupts find their cause and a handler, exclude each other and the   *)
(* disabled sections of the program, and are never left shut, for any set  *)
(* of lines and any order of the drivers (alt_irq_handler, alt_irq.h).     *)
THEOREM IrqCorrect == IrqSpec => []IrqSafe
BY IrqInductive, PTL DEF IrqInv

-----------------------------------------------------------------------------
(* A device is served.  The lines let in and the table of routines agree   *)
(* but for the one being registered.                                       *)

EnabledInv ==
  /\ pc \in {"reset", "enable_cpu"} => alt_irq = {} /\ alt_irq_active = {}
  /\ pc \notin {"reset", "enable", "activate", "write"} =>
       ienable = alt_irq /\ alt_irq_active = alt_irq
  /\ pc \in {"enable", "activate"} => alt_irq = alt_irq_active \cup {Order[driver]}
  /\ pc = "write" => alt_irq_active = alt_irq

LEMMA EnabledNext == EnabledInv /\ [IrqNext]_irqVars => EnabledInv'
<1> SUFFICES ASSUME EnabledInv, [IrqNext]_irqVars PROVE EnabledInv'
  OBVIOUS
<1> USE DEF EnabledInv
<1>1. CASE Raise
  BY <1>1 DEF Raise, programVars
<1>2. CASE Program
  BY <1>2 DEF Program, ClearController, CpuEnable, DriverStart, RegisterLock, RegisterTable,
     RegisterUnlock, EnableLock, EnableActive, EnableWrite, EnableUnlock, Lock, Unlock, At
<1>3. CASE Handler
  <2>1. UNCHANGED untouchedByHandler
    BY <1>3 DEF Handler, Exception, IrqTest, ReadPending, Search, ClockClear, ClockLock,
       ClockUnlock, DevicePass, More, Eret
  <2> QED
    BY <2>1 DEF untouchedByHandler, programVars
<1>4. CASE UNCHANGED irqVars
  BY <1>4 DEF irqVars, programVars
<1> QED
  BY <1>1, <1>2, <1>3, <1>4 DEF IrqNext

(* The lines and the table agree from the first driver on: no routine is   *)
(* registered and then left masked, and no line is let in without one      *)
(* (alt_iic_isr_register, alt_irq_enable).                                 *)
THEOREM LinesMatchTable == IrqSpec => []EnabledInv
<1>1. IrqInit => EnabledInv
  BY DEF IrqInit, EnabledInv
<1> QED
  BY <1>1, EnabledNext, PTL DEF IrqSpec

-----------------------------------------------------------------------------
(* From where a device that asks has to wait, stage by stage, to where it  *)
(* is served.                                                              *)

(* The lines of system.h: a device other than the clock comes before every *)
(* other.  Two such devices could keep the processor from one another.     *)
OneDevice == \A d \in Irq \ {Timer}, j \in Irq : d <= j

(* The processor never stops.                                              *)
ProcessorRuns == []<><<Program \/ Handler>>_irqVars

Waits(j)       == j \in line \cap alt_irq
Reached(j)     == cpu = "service" /\ i <= j
Ready          == {"start", "register", "run"}
InProgram(j,s) == Waits(j) /\ cpu = "program" /\ pc \in s
InHandler(j,c) == Waits(j) /\ cpu = c
ByClock(j)     == Waits(j) /\ cpu = "service" /\ i = Timer /\ ~(i <= j)
Found(j)       == Waits(j) /\ cpu = "search" /\ j \in active
Missed(j)      == Waits(j) /\ cpu = "search" /\ j \notin active

Waiting(j) ==
  \/ InProgram(j, {"table"}) \/ InProgram(j, {"enable"}) \/ InProgram(j, {"activate"})
  \/ InProgram(j, {"write"}) \/ InProgram(j, {"enabled"})
  \/ InProgram(j, {"registered", "critical"}) \/ InProgram(j, Ready)
  \/ InHandler(j, "entry") \/ InHandler(j, "pending") \/ Found(j) \/ Missed(j)
  \/ ByClock(j) \/ InHandler(j, "lock") \/ InHandler(j, "tick")
  \/ InHandler(j, "more") \/ InHandler(j, "exit")

(* A step of the program.                                                  *)
LEMMA WaitProgram ==
  ASSUME IrqInv, EnabledInv, NEW j \in Irq, Waits(j), Program
  PROVE  /\ cpu = "program" /\ cpu' = "program" /\ Waits(j)'
         /\ pc = "table" => pc' = "enable"
         /\ pc = "enable" => pc' = "activate"
         /\ pc = "activate" => pc' = "write"
         /\ pc = "write" => pc' = "enabled"
         /\ pc = "enabled" => pc' \in {"registered", "critical"}
         /\ pc \in {"registered", "critical"} => pc' \in Ready
         /\ pc \notin Ready
<1> USE DEF At, Ready, handlerVars
<1>1. cpu = "program" /\ ~Interrupted /\ UNCHANGED <<line, handlerVars>>
  BY DEF Program, ClearController, CpuEnable, DriverStart, RegisterLock, RegisterTable,
     RegisterUnlock, EnableLock, EnableActive, EnableWrite, EnableUnlock, Lock, Unlock
<1>2. pc \notin Ready
  <2> SUFFICES ASSUME pc \in Ready PROVE Interrupted
    BY <1>1
  <2>1. PIE
    BY <1>1 DEF IrqInv, IrqSafe, NotShut, Locked
  <2>2. j \in ipending
    BY DEF EnabledInv, Waits, ipending
  <2> QED
    BY <2>1, <2>2 DEF Interrupted
<1>3. Waits(j)'
  BY <1>1 DEF Waits, Program, ClearController, CpuEnable, DriverStart, RegisterLock, RegisterTable,
     RegisterUnlock, EnableLock, EnableActive, EnableWrite, EnableUnlock, Lock, Unlock
<1>4. pc' \in CASE pc = "table" -> {"enable"} [] pc = "enable" -> {"activate"}
                [] pc = "activate" -> {"write"} [] pc = "write" -> {"enabled"}
                [] pc = "enabled" -> {"registered"}
                [] OTHER -> {"enable_cpu", "start", "register", "table", "run", "critical"}
  BY DEF Program, ClearController, CpuEnable, DriverStart, RegisterLock, RegisterTable,
     RegisterUnlock, EnableLock, EnableActive, EnableWrite, EnableUnlock, Lock, Unlock
<1>5. pc \in {"registered", "critical"} => pc' \in Ready
  BY DEF Program, ClearController, CpuEnable, DriverStart, RegisterLock, RegisterTable,
     RegisterUnlock, EnableLock, EnableActive, EnableWrite, EnableUnlock, Lock, Unlock
<1> QED
  BY <1>1, <1>2, <1>3, <1>4, <1>5

(* A step of the handler: a search that has j among the lines it found     *)
(* ends at j or before it, and the clock is served only once before there  *)
(* is such a search.                                                       *)
LEMMA WaitHandler ==
  ASSUME OneDevice, IrqInv, EnabledInv, NEW j \in Irq, Waits(j), ~Reached(j), Handler
  PROVE  Reached(j)' \/
         /\ Waits(j)'
         /\ cpu = "program" => pc \in Ready /\ cpu' = "entry"
         /\ cpu = "entry" => cpu' = "pending"
         /\ cpu = "pending" => Found(j)'
         /\ ~Found(j)
         /\ cpu = "search" => ByClock(j)'
         /\ cpu = "service" => ByClock(j) /\ cpu' = "lock"
         /\ cpu = "lock" => cpu' = "tick"
         /\ cpu = "tick" => cpu' = "more"
         /\ cpu = "more" => Found(j)'
         /\ cpu = "exit" => cpu' = "program" /\ pc' \in Ready
<1> USE DEF Serving
<1>1. UNCHANGED <<alt_irq, ienable, pc>>
  BY DEF Handler, Exception, IrqTest, ReadPending, Search, ClockClear, ClockLock,
     ClockUnlock, DevicePass, More, Eret, untouchedByHandler, programVars
<1>2. pc \in Ready
  <2>1. pc \notin {"reset", "enable_cpu"} \cup Locked
    BY DEF Handler, Exception, IrqTest, ReadPending, Search, ClockClear, ClockLock,
       ClockUnlock, DevicePass, More, Eret, Interrupted, IrqInv, SavedInv, IrqSafe, Exclusive
  <2> QED
    BY <2>1 DEF IrqInv, IrqTypeOK, Ready
<1>3. j \in ipending
  BY <1>2 DEF EnabledInv, Waits, ipending, Ready
<1>4. CASE Exception \/ IrqTest \/ ReadPending \/ ClockLock \/ ClockUnlock \/ More \/ Eret
  <2>1. Waits(j)'
    BY <1>1, <1>4 DEF Waits, Exception, IrqTest, ReadPending, ClockLock, ClockUnlock, More, Eret
  <2>2. CASE Exception
    BY <1>2, <2>1, <2>2 DEF Exception, Found
  <2>3. CASE IrqTest
    BY <1>3, <2>1, <2>3 DEF IrqTest, Found, IrqInv, SavedInv
  <2>4. CASE ReadPending
    BY <1>3, <2>1, <2>4 DEF ReadPending, Found
  <2>5. CASE ClockLock \/ ClockUnlock
    BY <2>1, <2>5 DEF ClockLock, ClockUnlock, Found
  <2>6. CASE More
    BY <1>3, <2>1, <2>6 DEF More, Found
  <2>7. CASE Eret
    BY <1>1, <1>2, <2>1, <2>7 DEF Eret, Found
  <2> QED
    BY <1>4, <2>2, <2>3, <2>4, <2>5, <2>6, <2>7
<1>5. CASE Search
  <2>1. cpu = "search" /\ cpu' = "service" /\ i' \in active /\ \A l \in active : i' <= l
    BY <1>5 DEF Search, Foremost, IrqInv, PendingInv
  <2>2. i' \in Irq /\ Waits(j)'
    BY <1>1, <1>5, <2>1 DEF Search, Waits, IrqInv, IrqTypeOK
  <2>3. CASE i' <= j
    BY <2>1, <2>3 DEF Reached
  <2>4. CASE ~(i' <= j)
    <3>1. i' = Timer /\ j \notin active
      BY <2>1, <2>2, <2>4 DEF OneDevice
    <3> QED
      BY <2>1, <2>2, <2>4, <3>1 DEF ByClock, Found
  <2> QED
    BY <2>3, <2>4
<1>6. CASE ClockClear \/ DevicePass
  <2>1. cpu = "service" /\ ~(i <= j) /\ i \in Irq
    BY <1>6 DEF ClockClear, DevicePass, Reached, IrqInv, IrqSafe, HandlerReady, IrqTypeOK
  <2>2. i = Timer
    BY <2>1 DEF OneDevice
  <2>3. i # j
    BY <2>1, IrqAssumption
  <2>4. Waits(j)' /\ cpu' = "lock"
    BY <1>1, <1>6, <2>2, <2>3 DEF ClockClear, DevicePass, Waits
  <2> QED
    BY <2>1, <2>2, <2>4 DEF ByClock, Found
<1> QED
  BY <1>4, <1>5, <1>6 DEF Handler

(* A device that asks changes no stage.                                    *)
LEMMA WaitRaise ==
  ASSUME NEW j \in Irq, Waits(j), Raise \/ UNCHANGED irqVars
  PROVE  Waits(j)' /\ UNCHANGED <<cpu, pc, active, i>>
BY DEF Waits, Raise, irqVars, programVars, handlerVars

(* Every stage is kept or left for the next, or the wait is over.          *)
Onward(j) ==
  /\ InProgram(j, {"table"}) => InProgram(j, {"enable"})' \/ Reached(j)'
  /\ InProgram(j, {"enable"}) => InProgram(j, {"activate"})' \/ Reached(j)'
  /\ InProgram(j, {"activate"}) => InProgram(j, {"write"})' \/ Reached(j)'
  /\ InProgram(j, {"write"}) => InProgram(j, {"enabled"})' \/ Reached(j)'
  /\ InProgram(j, {"enabled"}) => InProgram(j, {"registered", "critical"})' \/ Reached(j)'
  /\ InProgram(j, {"registered", "critical"}) => InProgram(j, Ready)' \/ Reached(j)'
  /\ InProgram(j, Ready) => InHandler(j, "entry")' \/ Reached(j)'
  /\ InHandler(j, "entry") => InHandler(j, "pending")' \/ Reached(j)'
  /\ InHandler(j, "pending") => Found(j)' \/ Reached(j)'
  /\ Found(j) => Reached(j)'
  /\ Missed(j) => ByClock(j)' \/ Reached(j)'
  /\ ByClock(j) => InHandler(j, "lock")' \/ Reached(j)'
  /\ InHandler(j, "lock") => InHandler(j, "tick")' \/ Reached(j)'
  /\ InHandler(j, "tick") => InHandler(j, "more")' \/ Reached(j)'
  /\ InHandler(j, "more") => Found(j)' \/ Reached(j)'
  /\ InHandler(j, "exit") => InProgram(j, Ready)' \/ Reached(j)'

Stays(j) ==
  /\ InProgram(j, {"table"}) => InProgram(j, {"table"})'
  /\ InProgram(j, {"enable"}) => InProgram(j, {"enable"})'
  /\ InProgram(j, {"activate"}) => InProgram(j, {"activate"})'
  /\ InProgram(j, {"write"}) => InProgram(j, {"write"})'
  /\ InProgram(j, {"enabled"}) => InProgram(j, {"enabled"})'
  /\ InProgram(j, {"registered", "critical"}) => InProgram(j, {"registered", "critical"})'
  /\ InProgram(j, Ready) => InProgram(j, Ready)'
  /\ InHandler(j, "entry") => InHandler(j, "entry")'
  /\ InHandler(j, "pending") => InHandler(j, "pending")'
  /\ Found(j) => Found(j)'
  /\ Missed(j) => Missed(j)'
  /\ ByClock(j) => ByClock(j)'
  /\ InHandler(j, "lock") => InHandler(j, "lock")'
  /\ InHandler(j, "tick") => InHandler(j, "tick")'
  /\ InHandler(j, "more") => InHandler(j, "more")'
  /\ InHandler(j, "exit") => InHandler(j, "exit")'

LEMMA OnwardStep ==
  ASSUME OneDevice, IrqInv, EnabledInv, NEW j \in Irq, Program \/ Handler
  PROVE  Onward(j)
<1> USE DEF InProgram, InHandler, ByClock, Missed, Found, Ready
<1>1. CASE ~Waits(j)
  BY <1>1 DEF Onward
<1>2. CASE Waits(j) /\ Program
  BY <1>2, WaitProgram DEF Onward
<1>3. CASE Waits(j) /\ Reached(j)
  BY <1>3 DEF Onward, Reached
<1>4. CASE Waits(j) /\ ~Reached(j) /\ Handler
  <2>1. CASE Reached(j)'
    BY <2>1 DEF Onward
  <2> QED
    BY <1>4, <2>1, WaitHandler DEF Onward
<1> QED
  BY <1>1, <1>2, <1>3, <1>4

LEMMA StaysStep ==
  ASSUME NEW j \in Irq, Raise \/ UNCHANGED irqVars
  PROVE  Stays(j)
BY WaitRaise DEF Stays, InProgram, InHandler, ByClock, Missed, Found, Ready

LEMMA WaitsSomewhere ==
  ASSUME OneDevice, IrqInv, EnabledInv, NEW j \in Irq, Waits(j)
  PROVE  Waiting(j) \/ Reached(j)
<1>1. CASE cpu = "program"
  <2>1. pc \notin {"reset", "enable_cpu"}
    BY DEF EnabledInv, Waits
  <2> QED
    BY <1>1, <2>1 DEF Waiting, InProgram, Ready, IrqInv, IrqTypeOK, Locked
<1>2. CASE cpu = "service"
  <2>1. i \in Irq /\ (i # Timer => i <= j)
    BY <1>2 DEF OneDevice, IrqInv, IrqTypeOK, IrqSafe, HandlerReady, Serving
  <2> QED
    BY <1>2, <2>1 DEF Waiting, ByClock, Reached
<1>3. CASE cpu \notin {"program", "service"}
  BY <1>3 DEF Waiting, InHandler, Found, Missed, IrqInv, IrqTypeOK, IrqSafe, CauseFound, Serving
<1> QED
  BY <1>1, <1>2, <1>3

(* Nobody but its own routine answers a device.                            *)
LEMMA WaitLasts ==
  ASSUME IrqInv, [IrqNext]_irqVars, NEW j \in Irq, Waits(j)
  PROVE  Waits(j)' \/ (cpu = "service" /\ i = j)
<1>1. CASE Raise \/ UNCHANGED irqVars
  BY <1>1, WaitRaise
<1>2. CASE Program
  BY <1>2 DEF Waits, Program, ClearController, CpuEnable, DriverStart, RegisterLock, RegisterTable,
     RegisterUnlock, EnableLock, EnableActive, EnableWrite, EnableUnlock, Lock, Unlock, At
<1>3. CASE Handler
  BY <1>3 DEF Waits, Handler, Exception, IrqTest, ReadPending, Search, ClockClear, ClockLock,
     ClockUnlock, DevicePass, More, Eret, untouchedByHandler
<1> QED
  BY <1>1, <1>2, <1>3 DEF IrqNext

(* Served, as long as the processor runs: whatever the program is doing,   *)
(* and whichever interrupt is being handled, when a device asks.           *)
THEOREM DevicesServed == ASSUME OneDevice PROVE IrqSpec /\ ProcessorRuns => Served
<1>1. ASSUME NEW j \in Irq
      PROVE  IrqSpec /\ ProcessorRuns
             => \/ j \in line \cap alt_irq ~> cpu = "service" /\ i = j
                \/ []<>(cpu = "service" /\ i < j)
  <2>1. IrqInv /\ EnabledInv /\ j \in line \cap alt_irq => Waiting(j) \/ Reached(j)
    BY WaitsSomewhere DEF Waits
  <2>2. IrqInv /\ EnabledInv /\ [IrqNext]_irqVars => Onward(j) \/ Stays(j)
    BY OnwardStep, StaysStep DEF IrqNext
  <2>3. IrqInv /\ EnabledInv /\ <<Program \/ Handler>>_irqVars => Onward(j)
    BY OnwardStep
  <2>4. IrqInv /\ Reached(j) => (cpu = "service" /\ i = j) \/ (cpu = "service" /\ i < j)
    BY IrqAssumption DEF Reached, IrqInv, IrqTypeOK, IrqSafe, HandlerReady, Serving
  <2>5. IrqInv /\ [IrqNext]_irqVars /\ j \in line \cap alt_irq
          => (j \in line \cap alt_irq)' \/ (cpu = "service" /\ i = j)
    BY WaitLasts DEF Waits
  <2> QED
    BY <2>1, <2>2, <2>3, <2>4, <2>5, IrqInductive, LinesMatchTable, PTL
       DEF Waiting, Onward, Stays, ProcessorRuns, IrqSpec
<1> QED
  BY <1>1 DEF Served
=============================================================================
