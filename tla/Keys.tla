-------------------------------- MODULE Keys --------------------------------
(***************************************************************************)
(* How the four key bytes of a USB report become the one key each fighter  *)
(* obeys: key_code.sv, and the multiplexer in project.sv that feeds the    *)
(* second fighter from the AI register in single-player mode.              *)
(*                                                                         *)
(* Key codes are USB HID usage numbers, written in decimal (the hexadecimal *)
(* literals of the source are beside them).                                *)
(***************************************************************************)
EXTENDS Integers

(* The fighters, by the pno port of their box: 0 is player 1.              *)
Player == {0, 1}
Other(p) == 1 - p

(* The values of game_mode: the title screen, one player against the AI,   *)
(* two players on one keyboard.                                            *)
Title     == 0
OnePlayer == 1
TwoPlayer == 2

NoKey == 0
KeyW == 26      \* 1A jump
KeyS == 22      \* 16 crouch
KeyD == 7       \* 07 move right
KeyA == 4       \* 04 move left
KeyK == 14      \* 0E kick
KeyP == 19      \* 13 punch
KeyR == 21      \* 15 restart

(* The keys a fighter understands, the one that wins first; and the second *)
(* player's own keys for the same moves (arrows, then > and ?), in the     *)
(* order of the else-if chain.                                             *)
Moves     == <<KeyW, KeyS, KeyD, KeyA, KeyK, KeyP>>
P2Aliases == <<82, 81, 79, 80, 55, 56>>

(* A report is the four PIO registers {k3, k2, k1, k0}, k0 the low byte.   *)
Slot == 0..3
NoReport == [s \in Slot |-> NoKey]

Pressed(ks, codes) == {i \in 1..6 : \E s \in Slot : ks[s] = codes[i]}

(* The first of a player's keys, in priority order, anywhere in the report.*)
Priority(ks, codes) ==
  LET held == Pressed(ks, codes)
  IN  IF held = {} THEN NoKey
      ELSE Moves[CHOOSE i \in held : \A j \in held : i <= j]

(* module key_code: the key the fighter p obeys in a game mode.            *)
keycode(p, ks, mode) ==
  IF mode = OnePlayer THEN ks[0]
  ELSE IF mode = TwoPlayer THEN Priority(ks, IF p = 0 THEN Moves ELSE P2Aliases)
  ELSE NoKey

(* The keycodes port of each box: the report for player 1; for player 2    *)
(* the AI byte, the report, or nothing.                                    *)
keycodes(p, ks, ai, mode) ==
  IF p = 0 \/ mode = TwoPlayer THEN ks
  ELSE IF mode = OnePlayer THEN [s \in Slot |-> IF s = 0 THEN ai ELSE NoKey]
  ELSE NoReport
=============================================================================
