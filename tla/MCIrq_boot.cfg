SPECIFICATION FairIrq
CONSTANTS
  Irq = {1, 2}
  Order <- ClockFirst
  Timer = 2
INVARIANT IrqSafe
PROPERTY Served
