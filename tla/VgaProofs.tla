----------------------------- MODULE VgaProofs ------------------------------
(***************************************************************************)
(* Proofs about VgaTiming, for a screen and pulses of any size that keep   *)
(* the order of the source's literals.                                     *)
(***************************************************************************)
EXTENDS VgaTiming, TLAPS

(* What the registers tell of the scan.  The pulses are computed from the  *)
(* counters before the edge, so they begin and end one pixel late.         *)

(* The vertical pulse is down from the second pixel of the line before the *)
(* literal's to the first pixel of the line after it.                      *)
InPulse ==
  \/ vc + 1 = VSyncLine /\ hc > 0
  \/ vc = VSyncLine
  \/ vc = VSyncLine + 1 /\ hc = 0

VsFollows == vs = 0 <=> InPulse \/ (first /\ AtStart)
HsFollows == hs = 0 => (HSyncFirst <= hc /\ hc < HSyncEnd) \/ (first /\ AtStart)

(* The rises of vs so far in this picture.                                 *)
PastPulse == vc > VSyncLine + 1 \/ (vc = VSyncLine + 1 /\ hc > 0)
TicksFollow ==
  ticks = IF first THEN IF AtStart THEN 0 ELSE IF PastPulse THEN 2 ELSE 1
          ELSE IF PastPulse THEN 1 ELSE 0

ScanInv == VgaTypeOK /\ VsFollows /\ HsFollows /\ TicksFollow

LEMMA ScanInit == VgaInit => ScanInv
<1> USE VgaAssumption
<1>1. ASSUME VgaInit PROVE VgaTypeOK /\ AtStart /\ ~InPulse /\ ~PastPulse
  BY <1>1 DEF VgaInit, VgaTypeOK, AtStart, InPulse, PastPulse
<1> QED
  BY <1>1 DEF VgaInit, ScanInv, VsFollows, HsFollows, TicksFollow

(* The scan takes one of these steps with each pixel.                      *)
LEMMA PixelMoves ==
  ASSUME VgaTypeOK, Pixel
  PROVE  \/ /\ hc # hpixels /\ hc' = hc + 1 /\ vc' = vc
            /\ ~AtEnd /\ ~AtStart' /\ hc \in 0..(hpixels - 1)
         \/ /\ hc = hpixels /\ vc # vlines /\ hc' = 0 /\ vc' = vc + 1
            /\ ~AtEnd /\ ~AtStart /\ ~AtStart'
         \/ /\ AtEnd /\ hc = hpixels /\ vc = vlines /\ hc' = 0 /\ vc' = 0
            /\ ~AtStart /\ AtStart'
  BY VgaAssumption DEF Pixel, next_vc, AtEnd, AtStart, VgaTypeOK

LEMMA PixelVs ==
  ASSUME ScanInv, Pixel
  PROVE  VsFollows'
<1> USE VgaAssumption
<1>1. vs' = 0 <=> vc + 1 = VSyncLine \/ vc = VSyncLine
  BY DEF Pixel, vsync, ScanInv, VgaTypeOK
<1>2. InPulse' <=> vc + 1 = VSyncLine \/ vc = VSyncLine
  BY PixelMoves DEF InPulse, ScanInv, VgaTypeOK, AtEnd
<1>3. ~(first' /\ AtStart')
  BY PixelMoves DEF Pixel, ScanInv
<1> QED
  BY <1>1, <1>2, <1>3 DEF VsFollows

LEMMA PixelHs ==
  ASSUME ScanInv, Pixel
  PROVE  HsFollows'
<1> USE VgaAssumption
<1>1. hs' = 0 => HSyncFirst <= hc + 1 /\ hc + 1 < HSyncEnd
  BY DEF Pixel, hsync
<1>2. HSyncFirst <= hc + 1 /\ hc + 1 < HSyncEnd => hc' = hc + 1
  BY DEF Pixel, ScanInv, VgaTypeOK
<1> QED
  BY <1>1, <1>2 DEF HsFollows

(* vs rises where the pulse ends, and with the first pixel after a reset.  *)
LEMMA TickPlace ==
  ASSUME ScanInv, Pixel
  PROVE  Tick <=> (vc = VSyncLine + 1 /\ hc = 0) \/ (first /\ AtStart)
<1> USE VgaAssumption
<1>1. vs' = 1 <=> ~(vc + 1 = VSyncLine \/ vc = VSyncLine)
  BY DEF Pixel, vsync, ScanInv, VgaTypeOK
<1>2. vs = 0 <=> InPulse \/ (first /\ AtStart)
  BY DEF ScanInv, VsFollows
<1> QED
  BY <1>1, <1>2 DEF Tick, InPulse, AtStart, ScanInv, VgaTypeOK

LEMMA PixelTicks ==
  ASSUME ScanInv, Pixel
  PROVE  TicksFollow'
<1> USE VgaAssumption
<1>1. CASE AtEnd
  <2>1. ticks' = 0 /\ first' = FALSE
    BY <1>1 DEF Pixel
  <2>2. ~PastPulse'
    BY <1>1, PixelMoves DEF PastPulse, ScanInv
  <2> QED
    BY <2>1, <2>2 DEF TicksFollow
<1>2. CASE ~AtEnd
  <2>1. ticks' = IF Tick THEN ticks + 1 ELSE ticks
    BY <1>2 DEF Pixel
  <2>2. first' <=> first
    BY <1>2 DEF Pixel
  <2>3. ~AtStart'
    BY <1>2, PixelMoves DEF ScanInv
  <2>4. PastPulse' <=> PastPulse \/ (vc = VSyncLine + 1 /\ hc = 0)
    BY <1>2, PixelMoves DEF PastPulse, ScanInv, VgaTypeOK
  <2>5. AtStart => ~PastPulse /\ ~(vc = VSyncLine + 1 /\ hc = 0)
    BY DEF AtStart, PastPulse
  <2>6. ~(PastPulse /\ vc = VSyncLine + 1 /\ hc = 0)
    BY DEF PastPulse, ScanInv, VgaTypeOK
  <2>7. CASE first
    BY <2>1, <2>2, <2>3, <2>4, <2>5, <2>6, <2>7, TickPlace DEF TicksFollow, ScanInv
  <2>8. CASE ~first
    BY <2>1, <2>2, <2>3, <2>4, <2>5, <2>6, <2>8, TickPlace DEF TicksFollow, ScanInv
  <2> QED
    BY <2>7, <2>8
<1> QED
  BY <1>1, <1>2

LEMMA PixelType ==
  ASSUME ScanInv, Pixel
  PROVE  VgaTypeOK'
<1>1. hc' \in 0..hpixels /\ vc' \in 0..vlines
  BY PixelMoves, VgaAssumption DEF ScanInv, VgaTypeOK
<1>2. hs' \in {0, 1} /\ vs' \in {0, 1} /\ clkdiv' \in {0, 1}
  BY DEF Pixel, hsync, vsync
<1>3. first' \in BOOLEAN /\ Reset_h' \in BOOLEAN
  BY DEF Pixel, ScanInv, VgaTypeOK
<1>4. ticks' \in 0..2
  BY PixelTicks DEF TicksFollow
<1> QED
  BY <1>1, <1>2, <1>3, <1>4 DEF VgaTypeOK

LEMMA ScanNext == ScanInv /\ [VgaNext]_vgaVars => ScanInv'
<1> SUFFICES ASSUME ScanInv, [VgaNext]_vgaVars PROVE ScanInv'
  OBVIOUS
<1>1. CASE Pixel
  BY <1>1, PixelType, PixelVs, PixelHs, PixelTicks DEF ScanInv
<1>2. CASE Press
  <2> USE VgaAssumption
  <2>1. VgaTypeOK' /\ AtStart' /\ first' /\ ~InPulse' /\ ~PastPulse'
    BY <1>2 DEF Press, VgaTypeOK, AtStart, InPulse, PastPulse
  <2> QED
    BY <1>2, <2>1 DEF Press, ScanInv, VsFollows, HsFollows, TicksFollow
<1>3. CASE Release \/ HalfPixel \/ UNCHANGED vgaVars
  <2>1. UNCHANGED <<hc, vc, hs, vs, first, ticks>>
    BY <1>3 DEF Release, HalfPixel, vgaVars
  <2>2. VgaTypeOK'
    BY <1>3, <2>1 DEF Release, HalfPixel, vgaVars, ScanInv, VgaTypeOK
  <2> QED
    BY <2>1, <2>2 DEF ScanInv, VsFollows, HsFollows, TicksFollow, InPulse, PastPulse, AtStart
<1> QED
  BY <1>1, <1>2, <1>3 DEF VgaNext, Clk

LEMMA ScanAlways == VgaSpec => []ScanInv
  BY ScanInit, ScanNext, PTL DEF VgaSpec

-----------------------------------------------------------------------------
(* Counters, pulses and clock divider keep their ranges (the registers of  *)
(* VGA_controller.sv), for every size of the screen.                       *)
THEOREM VgaTypeCorrect == VgaSpec => []VgaTypeOK
<1>1. ScanInv => VgaTypeOK
  BY DEF ScanInv
<1> QED
  BY <1>1, ScanAlways, PTL

(* A pulse is down only where no pixel is shown (VGA_controller.sv, the    *)
(* sync processes against display).                                        *)
THEOREM PulsesInBlank == VgaSpec => []SyncInBlank
<1>1. ScanInv => SyncInBlank
  BY VgaAssumption
     DEF ScanInv, VgaTypeOK, VsFollows, HsFollows, InPulse, SyncInBlank, display
<1> QED
  BY <1>1, ScanAlways, PTL

(* Only a pixel raises vs.                                                 *)
LEMMA TickIsPixel == [VgaNext]_vgaVars /\ Tick => Pixel
  BY DEF VgaNext, Clk, Press, Release, HalfPixel, vgaVars, Tick

(* The game moves between pictures (frame_clk of box.sv and p_health.sv).  *)
THEOREM FramesInBlank == VgaSpec => TickInBlank
<1>1. ASSUME ScanInv, [VgaNext]_vgaVars, Tick
      PROVE  (~display /\ ~display') \/ (first /\ AtStart)
  <2>1. Pixel
    BY <1>1, TickIsPixel
  <2>2. CASE vc = VSyncLine + 1 /\ hc = 0
    <3>1. vc' = vc
      BY <2>1, <2>2, VgaAssumption DEF Pixel
    <3> QED
      BY <2>2, <3>1, VgaAssumption DEF display
  <2> QED
    BY <1>1, <2>1, <2>2, TickPlace
<1>2. ScanInv /\ [VgaNext]_vgaVars
        => [Tick => (~display /\ ~display') \/ (first /\ AtStart)]_vgaVars
  BY <1>1
<1> QED
  BY <1>2, ScanAlways, PTL DEF VgaSpec, TickInBlank

(* One frame of the game to a picture.                                     *)
THEOREM OneFramePerPicture == VgaSpec => OneTickPerPicture
<1>1. ScanInv /\ [VgaNext]_vgaVars
        => [(Pixel /\ AtEnd) => ticks = IF first THEN 2 ELSE 1]_vgaVars
  BY VgaAssumption DEF ScanInv, TicksFollow, PastPulse, AtEnd, AtStart
<1> QED
  BY <1>1, ScanAlways, PTL DEF VgaSpec, OneTickPerPicture

-----------------------------------------------------------------------------
(* The next frame comes nearer.  How far the scan has to go to the end of  *)
(* the vertical pulse: whole lines, the rest of this one, half a pixel.    *)
PulseEnd   == VSyncLine + 1
LinesToGo  == IF vc < PulseEnd \/ (vc = PulseEnd /\ hc = 0)
              THEN PulseEnd - vc ELSE vlines + 1 - vc + PulseEnd
PixelsToGo == hpixels - hc

Ahead(l, p, c) == ~Reset_h /\ LinesToGo = l /\ PixelsToGo = p /\ clkdiv = c

Sooner(l, p, c) ==
  \E l1, p1 \in Nat, c1 \in {0, 1} :
    /\ Ahead(l1, p1, c1)
    /\ \/ l1 < l
       \/ l1 = l /\ p1 < p
       \/ l1 = l /\ p1 = p /\ c1 < c

(* The board's clock goes on while the button is up: what WF_vgaVars(Clk)  *)
(* comes to.                                                               *)
ClockRuns == []<>Reset_h \/ []<><<Clk>>_vgaVars

LEMMA ClkNearer ==
  ASSUME ScanInv, Clk, ~Tick, NEW l, NEW p, NEW c, Ahead(l, p, c)
  PROVE  Sooner(l, p, c)'
<1> USE VgaAssumption DEF ScanInv, VgaTypeOK, Ahead
<1>1. vgaVars' # vgaVars /\ ~Reset_h'
  BY DEF Clk, Pixel, HalfPixel, vgaVars
<1>2. LinesToGo \in Nat /\ PixelsToGo \in Nat /\ LinesToGo' \in Nat /\ PixelsToGo' \in Nat
  BY DEF Clk, Pixel, HalfPixel, next_vc, LinesToGo, PixelsToGo, PulseEnd
<1>3. CASE HalfPixel
  BY <1>1, <1>2, <1>3 DEF HalfPixel, Sooner, LinesToGo, PixelsToGo
<1>4. CASE Pixel
  <2>1. ~(vc = PulseEnd /\ hc = 0)
    BY <1>4, TickPlace DEF PulseEnd
  <2>2. LinesToGo' < LinesToGo \/ (LinesToGo' = LinesToGo /\ PixelsToGo' < PixelsToGo)
    BY <1>4, <2>1, PixelMoves DEF LinesToGo, PixelsToGo, PulseEnd, AtEnd
  <2>3. clkdiv' = 1
    BY <1>4 DEF Pixel
  <2> QED
    BY <1>1, <1>2, <2>2, <2>3 DEF Sooner
<1> QED
  BY <1>3, <1>4 DEF Clk

(* TicksForever, step by step: from wherever the scan is it rises vs, or   *)
(* gets to where less is left, or the button is pressed.  (That this ends  *)
(* is an induction over what is left, which stays with TLC.)               *)
THEOREM TickNearer ==
  ASSUME NEW l, NEW p, NEW c
  PROVE  VgaSpec /\ ClockRuns =>
           [](Ahead(l, p, c) => <>(Sooner(l, p, c) \/ Reset_h) \/ <><<Tick>>_vgaVars)
<1>1. ScanInv /\ [VgaNext]_vgaVars /\ Ahead(l, p, c)
        => Ahead(l, p, c)' \/ Sooner(l, p, c)' \/ Reset_h' \/ <<Tick>>_vgaVars
  <2>1. ASSUME Press PROVE Reset_h'
    BY <2>1 DEF Press
  <2>2. ASSUME UNCHANGED vgaVars, Ahead(l, p, c) PROVE Ahead(l, p, c)'
    BY <2>2 DEF vgaVars, Ahead, LinesToGo, PixelsToGo
  <2>3. Ahead(l, p, c) => ~Release
    BY DEF Ahead, Release
  <2>4. Clk => vgaVars' # vgaVars
    BY DEF Clk, Pixel, HalfPixel, vgaVars
  <2> QED
    BY <2>1, <2>2, <2>3, <2>4, ClkNearer DEF VgaNext
<1>2. ScanInv /\ <<Clk>>_vgaVars /\ Ahead(l, p, c) => Sooner(l, p, c)' \/ <<Tick>>_vgaVars
  BY ClkNearer
<1>3. Ahead(l, p, c) => ~Reset_h
  BY DEF Ahead
<1> QED
  BY <1>1, <1>2, <1>3, ScanAlways, PTL DEF VgaSpec, ClockRuns
=============================================================================
