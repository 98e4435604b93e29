----------------------------- MODULE VgaTiming ------------------------------
(***************************************************************************)
(* VGA_controller.sv: the scan of the screen and its sync pulses.  The     *)
(* vertical one is more than a pulse for the monitor: project.sv makes it  *)
(* the clock of the game, so a frame of Fight happens where vs rises, and  *)
(* the button KEY[0] resets the scan together with the fighters.           *)
(*                                                                         *)
(* The parameters keep their names; the other constants are the literals   *)
(* of the source, so that TLC can scan a small screen.                     *)
(***************************************************************************)
EXTENDS Naturals

CONSTANTS
  hpixels, vlines,       \* the last pixel of a line and the last line: 799, 524
  HVisible, VVisible,    \* the pixels and lines shown: 640, 480
  HSyncFirst, HSyncEnd,  \* the horizontal pulse: 656, 752
  VSyncLine              \* the literal of the vertical pulse: 490

ASSUME VgaAssumption ==
  /\ {hpixels, vlines, HVisible, VVisible, HSyncFirst, HSyncEnd, VSyncLine} \subseteq Nat
  /\ 0 < HVisible /\ HVisible <= HSyncFirst /\ HSyncFirst < HSyncEnd /\ HSyncEnd <= hpixels
  /\ 0 < VVisible /\ VVisible < VSyncLine /\ VSyncLine + 1 < vlines

VARIABLES
  Reset_h,   \* KEY[0] is down
  clkdiv,    \* half the rate of the board's clock
  hc, vc,    \* the pixel and the line scanned
  hs, vs,    \* the sync pulses, active low
  first,     \* the scan has not ended a picture since the last reset
  ticks      \* rising edges of vs in this picture (history, as first)

vgaVars == <<Reset_h, clkdiv, hc, vc, hs, vs, first, ticks>>

display == hc < HVisible /\ vc < VVisible
AtStart == hc = 0 /\ vc = 0
AtEnd   == hc = hpixels /\ vc = vlines
Tick    == vs = 0 /\ vs' = 1

VgaInit ==
  /\ Reset_h = TRUE
  /\ clkdiv = 0 /\ hc = 0 /\ vc = 0 /\ hs = 0 /\ vs = 0
  /\ first = TRUE /\ ticks = 0

(* The button clears every register at once, wherever the scan is.         *)
Press ==
  /\ ~Reset_h
  /\ Reset_h' = TRUE
  /\ clkdiv' = 0 /\ hc' = 0 /\ vc' = 0 /\ hs' = 0 /\ vs' = 0
  /\ first' = TRUE /\ ticks' = 0

Release ==
  /\ Reset_h
  /\ Reset_h' = FALSE
  /\ UNCHANGED <<clkdiv, hc, vc, hs, vs, first, ticks>>

(* The pulses, from the counters before the edge.                          *)

(* Variant: the horizontal pulse is taken from the line counter.           *)
hsync_Lines == IF vc + 1 >= HSyncFirst /\ vc + 1 < HSyncEnd THEN 0 ELSE 1
hsync == IF hc + 1 >= HSyncFirst /\ hc + 1 < HSyncEnd THEN 0 ELSE 1

(* Variants: the vertical pulse is taken from the pixel counter; both      *)
(* lines are asked for at once.                                            *)
vsync_Pixels == IF hc + 1 = VSyncLine \/ hc + 1 = VSyncLine + 1 THEN 0 ELSE 1
vsync_Both == IF vc + 1 = VSyncLine /\ vc + 1 = VSyncLine + 1 THEN 0 ELSE 1
vsync == IF vc + 1 = VSyncLine \/ vc + 1 = VSyncLine + 1 THEN 0 ELSE 1

(* Variant: the scan goes on past the last line.                           *)
next_vc_NoLast == vc + 1
next_vc == IF vc = vlines THEN 0 ELSE vc + 1

(* An edge of the board's clock that raises clkdiv: one pixel.             *)
Pixel ==
  /\ ~Reset_h /\ clkdiv = 0
  /\ clkdiv' = 1
  /\ IF hc = hpixels THEN hc' = 0 /\ vc' = next_vc
                     ELSE hc' = hc + 1 /\ vc' = vc
  /\ hs' = hsync /\ vs' = vsync
  /\ first' = (first /\ ~AtEnd)
  /\ ticks' = IF AtEnd THEN 0 ELSE IF Tick THEN ticks + 1 ELSE ticks
  /\ UNCHANGED Reset_h

(* An edge that lowers it.                                                 *)
HalfPixel ==
  /\ ~Reset_h /\ clkdiv = 1
  /\ clkdiv' = 0
  /\ UNCHANGED <<Reset_h, hc, vc, hs, vs, first, ticks>>

Clk == Pixel \/ HalfPixel

VgaNext == Press \/ Release \/ Clk

VgaSpec == VgaInit /\ [][VgaNext]_vgaVars

(* The board's clock never stops.                                          *)
FairVga == VgaSpec /\ WF_vgaVars(Clk)

-----------------------------------------------------------------------------
VgaTypeOK ==
  /\ Reset_h \in BOOLEAN /\ first \in BOOLEAN
  /\ clkdiv \in {0, 1} /\ hs \in {0, 1} /\ vs \in {0, 1}
  /\ hc \in 0..hpixels /\ vc \in 0..vlines
  /\ ticks \in 0..2

(* A monitor takes the level of black during the pulses: a pulse is down   *)
(* only where no pixel is shown, but for the first pixel after a reset.    *)
SyncInBlank == hs = 0 \/ vs = 0 => ~display \/ (first /\ AtStart)

(* The fighters move where vs rises: never in the middle of a picture,     *)
(* which would be drawn from two states of the game.  The exception is the *)
(* frame that starts with the first pixel after a reset.                   *)
TickInBlank == [][ Tick => (~display /\ ~display') \/ (first /\ AtStart) ]_vgaVars

(* Every picture is one frame of the game: the fighters neither miss a     *)
(* picture nor move twice in one, except in the first after a reset, which *)
(* has the reset's own frame as well.                                      *)
OneTickPerPicture ==
  [][ (Pixel /\ AtEnd) => ticks = IF first THEN 2 ELSE 1 ]_vgaVars

(* The frame clock goes on for ever unless somebody goes on pressing the   *)
(* button: the fairness that Fight assumes of its frames.                  *)
TicksForever == <>[](~Reset_h) => []<><<Tick>>_vgaVars
=============================================================================
