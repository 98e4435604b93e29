------------------------------- MODULE MCIrq --------------------------------
(***************************************************************************)
(* The interrupt lines of system.h: 1 is the JTAG UART, 2 the clock, and   *)
(* alt_sys_init starts the clock first.                                    *)
(***************************************************************************)
EXTENDS Irq

ClockFirst == <<2, 1>>
=============================================================================
