-------------------------------- MODULE Box ---------------------------------
(***************************************************************************)
(* The body of each fighter, box.sv: where it is, how it moves, how wide   *)
(* it is, what it is doing and whether it is landing a blow.  Both bodies  *)
(* are clocked by the same edge and read each other's registers from       *)
(* before the edge; the ports are bound as project.sv binds them.          *)
(*                                                                         *)
(* The always_ff block assigns some registers several times in one frame   *)
(* and the last assignment wins, so each register has one operator here    *)
(* that gives its next value, the later assignments tested first.          *)
(*                                                                         *)
(* Positions are 10-bit: a sum or a difference of positions wraps at       *)
(* Width.  An expression with an unsized literal (curX + 3 < 550) is       *)
(* evaluated in 32 bits: it does not wrap at the top, and below zero it    *)
(* wraps to a huge number (Above).  Motions are signed here; the registers *)
(* hold them modulo Width.                                                 *)
(***************************************************************************)
EXTENDS Run, Health

Step == 3       \* pixels walked, or knocked back, in a frame
Rise == 5       \* pixels jumped in a frame

CONSTANTS
  Width,        \* 1024: positions are 10-bit
  LeftWall,     \* 50
  RightWall,    \* 550
  StartX,       \* by fighter: 50 and 555
  Ground,       \* 291, the height of a standing body; heights grow downwards
  Apex,         \* 103, the height at which a jump turns
  Standing,     \* 64, the width of a standing body
  Striking,     \* 104, its width with an arm or a leg out
  Lying,        \* 128, its width once beaten
  Height        \* 128, SizeY

ASSUME HorizontalAssumption ==
  /\ Width \in Nat
  /\ LeftWall \in Nat /\ RightWall \in Nat /\ LeftWall < RightWall
  /\ StartX \in [Player -> 0..(Width - 1)]
  /\ Standing \in 1..(Width - 1) /\ Striking \in 1..(Width - 1) /\ Lying \in 1..(Width - 1)
  /\ Standing < Striking /\ Striking < Lying
  /\ Height \in Nat

(* A body is wider than two steps and no narrower than the strip beyond    *)
(* the left wall; one that stands at the right wall does not wrap.         *)
ASSUME ArenaAssumption ==
  /\ 2 * Step < Standing /\ LeftWall <= Standing
  /\ RightWall + Standing < Width + Step

(* A jump rises in steps of Rise and turns two frames after it has reached *)
(* Apex: there must be room for that below the top of the screen.          *)
ASSUME VerticalAssumption ==
  /\ Ground \in Nat /\ Apex \in Nat
  /\ Apex >= 3 * Rise /\ Ground > Apex + Rise /\ Ground < Width

VARIABLES
  curX, curY,               \* the left and the top edge
  x_motion, y_motion,
  jump, maxh, in_air,       \* rising; has reached the apex; off the ground
  crouch, kick, punch,
  move_right, move_left,
  dir,                      \* 0 faces right, 1 faces left
  SizeX,
  p2_hit,                   \* this fighter is landing a blow
  knockback                 \* this fighter has yet to be pushed by a blow

airVars == <<curY, y_motion, jump, maxh, in_air>>
boxVars == <<curX, x_motion, airVars, crouch, kick, punch, move_right,
             move_left, dir, SizeX, p2_hit, knockback>>

-----------------------------------------------------------------------------
(* The ports.  The hit port of a box is the p2_hit output of the other.    *)
(* The vertical size of the opponent reaches only the second box: the      *)
(* first box's other_SizeY is bound to p2_boysizex, a name nothing drives, *)
(* and the build ties it to 0.                                             *)
hit(p) == p2_hit[Other(p)]
other_SizeY(p) == IF p = 0 THEN 0 ELSE Height

(* A sum or a difference of two positions, modulo Width.                   *)
Wrap(n) == IF n < 0 THEN n + Width ELSE IF n >= Width THEN n - Width ELSE n
Right(p) == Wrap(curX[p] + SizeX[p])

(* curX - 3 > n in unsigned 32-bit arithmetic.                             *)
Above(p, n) == curX[p] < Step \/ curX[p] - Step > n

-----------------------------------------------------------------------------
(* The jump.                                                               *)

(* Variant: the landing test forgets that the fighter may be rising.       *)
Lands_RisingToo(p) == curY[p] + Rise = Ground

Lands(p) == curY[p] + Rise = Ground /\ ~jump[p]

next_curY(p) == Wrap(curY[p] + y_motion[p])

next_y_motion(p, key) ==
  IF Lands(p) THEN 0
  ELSE IF maxh[p] THEN Rise
  ELSE IF key = KeyW THEN -Rise
  ELSE y_motion[p]

(* Variant: a jump key in the frame of landing keeps the fighter in the air. *)
next_in_air_KeyWins(p, key) == key = KeyW \/ (in_air[p] /\ ~Lands(p))

next_in_air(p, key) == ~Lands(p) /\ (key = KeyW \/ in_air[p])

(* Variant: the jump key is honoured on the way down.                      *)
next_jump_MidAir(p, key) == key = KeyW \/ (jump[p] /\ ~maxh[p])

next_jump(p, key)   == ~maxh[p] /\ (key = KeyW \/ jump[p])
next_maxh(p)        == ~Lands(p) /\ (curY[p] <= Apex \/ maxh[p])

-----------------------------------------------------------------------------
(* Walking.  A fighter sets off when there is room for a step, and stops   *)
(* at a wall, at the opponent, or when the key is no longer held.          *)

(* Variant: only the left edges are compared, as if the opponent had no    *)
(* width.                                                                  *)
SetsOffRight_Edges(p, key) ==
  key = KeyD /\ curX[p] + Step < RightWall /\ (curX[p] >= curX[Other(p)] \/ in_air[p])

SetsOffRight(p, key) ==
  /\ key = KeyD
  /\ curX[p] + Step < RightWall
  /\ \/ curX[p] >= Right(Other(p))
     \/ Right(p) < curX[Other(p)] /\ curX[p] + Step + SizeX[p] < curX[Other(p)]
     \/ in_air[p]

SetsOffLeft(p, key) ==
  /\ key = KeyA
  /\ Above(p, LeftWall + Step)
  /\ \/ Right(p) <= curX[Other(p)]
     \/ curX[p] > Right(Other(p)) /\ Above(p, curX[Other(p)] + SizeX[Other(p)])
     \/ in_air[p]

StopsRight(p, key) ==
  /\ move_right[p]
  /\ \/ curX[p] + Step >= RightWall
     \/ key # KeyD
     \/ /\ curX[p] + Step + SizeX[p] >= curX[Other(p)]
        /\ Right(p) <= curX[Other(p)]
        /\ ~in_air[p]

StopsLeft(p, key) ==
  /\ move_left[p]
  /\ \/ ~Above(p, LeftWall)
     \/ key # KeyA
     \/ /\ ~Above(p, curX[Other(p)] + SizeX[Other(p)])
        /\ curX[p] >= Right(Other(p))
        /\ ~in_air[p]

next_x_motion(p, key) ==
  IF StopsRight(p, key) \/ StopsLeft(p, key) THEN 0
  ELSE IF SetsOffRight(p, key) THEN Step
  ELSE IF SetsOffLeft(p, key) THEN -Step
  ELSE x_motion[p]

next_move_right(p, key) ==
  /\ ~StopsRight(p, key)
  /\ SetsOffRight(p, key) \/ (move_right[p] /\ ~SetsOffLeft(p, key))

next_move_left(p, key) ==
  /\ ~StopsLeft(p, key)
  /\ SetsOffLeft(p, key) \/ (move_left[p] /\ ~SetsOffRight(p, key))

(* A standing fighter faces its opponent; a running one faces its way.     *)
next_dir(p, key) ==
  IF run_state[p] = 0 THEN IF curX[p] < curX[Other(p)] THEN 0 ELSE 1
  ELSE IF SetsOffRight(p, key) THEN 0
  ELSE IF SetsOffLeft(p, key) THEN 1
  ELSE dir[p]

-----------------------------------------------------------------------------
(* Blows.  A kick or a punch starts on the ground and lasts while its key  *)
(* is held.                                                                *)

(* Variant: the move is not ended when its key is let go.                  *)
next_kick_Held(p, key) == kick[p] \/ (key = KeyK /\ ~in_air[p])

next_crouch(key)   == key = KeyS
next_kick(p, key)  == key = KeyK /\ (kick[p] \/ ~in_air[p])
next_punch(p, key) == key = KeyP /\ (punch[p] \/ ~in_air[p])

next_SizeX(p) ==
  IF p_lose(p) THEN Lying
  ELSE IF (run_state[p] \in {3, 4} \/ kick[p] \/ punch[p]) /\ ~in_air[p]
       THEN Striking ELSE Standing

(* A blow of p meets the opponent, whose vertical size is taken as sizeY.  *)
Meets(p, sizeY) ==
  LET o == Other(p)
  IN  /\ punch[p] \/ kick[p]
      /\ curY[p] <= curY[o] + sizeY
      /\ ~crouch[o]
      /\ \/ curX[p] < curX[o] /\ Right(p) >= curX[o] /\ dir[p] = 0
         \/ curX[p] > curX[o] /\ curX[p] <= Right(o) /\ dir[p] = 1

Lands_blow(p) == Meets(p, other_SizeY(p))

KnockedBack(p) ==
  /\ knockback[p]
  /\ ~in_air[p]
  /\ Above(p, LeftWall)
  /\ curX[p] + Step < RightWall

next_knockback(p) == ~KnockedBack(p) /\ (hit(p) \/ knockback[p])

-----------------------------------------------------------------------------
(* Bodies that overlap are pushed apart, over the opponent near a wall.    *)

FromLeft(p)  == curX[p] < curX[Other(p)] /\ Right(p) > curX[Other(p)]
FromRight(p) == curX[p] > curX[Other(p)] /\ curX[p] < Right(Other(p))

Pushes(p) ==
  LET o == Other(p)
  IN  /\ FromLeft(p) \/ FromRight(p)
      /\ ~in_air[o]
      /\ SizeX[o] = Standing \/ punch[o] \/ kick[o]
      /\ run_state[p] # 0 \/ SizeX[p] = Standing \/ hit(p)
      /\ ~jump[p]
      /\ curY[p] + Height >= curY[o]

(* Variant: away from the walls a body is pushed over the opponent.        *)
PushedLeft_Over(p) == FromRight(p)

PushedLeft(p) ==
  \/ FromLeft(p)  /\ curX[p] <= RightWall - Step
  \/ FromRight(p) /\ curX[p] < LeftWall

next_curX(p) ==
  IF KnockedBack(p) THEN Wrap(curX[p] + (IF dir[p] = 0 THEN -Step ELSE Step))
  ELSE IF Pushes(p) THEN
    IF PushedLeft(p) THEN Wrap(curX[Other(p)] - SizeX[p]) ELSE Right(Other(p))
  ELSE Wrap(curX[p] + x_motion[p])

-----------------------------------------------------------------------------
BoxInit ==
  /\ curX = StartX
  /\ curY = [p \in Player |-> Ground]
  /\ x_motion = [p \in Player |-> 0]
  /\ y_motion = [p \in Player |-> 0]
  /\ dir = [p \in Player |-> p]
  /\ SizeX = [p \in Player |-> Standing]
  /\ LET none == [p \in Player |-> FALSE]
     IN  /\ jump = none /\ maxh = none /\ in_air = none
         /\ crouch = none /\ kick = none /\ punch = none
         /\ move_right = none /\ move_left = none
         /\ p2_hit = none /\ knockback = none

(* Variant: a beaten fighter still acts.                                   *)
Acts_Beaten(p, fights) == fights[p]

(* A beaten fighter only lies down.                                        *)
Acts(p, fights) == fights[p] /\ ~p_lose(p)

(* One frame.  fights[p]: the low byte on the port is not the restart key  *)
(* and a match is being played; outside it every register keeps its value. *)
BoxFrame(fights, key) ==
  LET acts == [p \in Player |-> Acts(p, fights)]
  IN  /\ SizeX' = [p \in Player |-> IF fights[p] THEN next_SizeX(p) ELSE SizeX[p]]
      /\ curX' = [p \in Player |-> IF acts[p] THEN next_curX(p) ELSE curX[p]]
      /\ curY' = [p \in Player |-> IF acts[p] THEN next_curY(p) ELSE curY[p]]
      /\ x_motion' = [p \in Player |-> IF acts[p] THEN next_x_motion(p, key[p]) ELSE x_motion[p]]
      /\ y_motion' = [p \in Player |-> IF acts[p] THEN next_y_motion(p, key[p]) ELSE y_motion[p]]
      /\ jump' = [p \in Player |-> IF acts[p] THEN next_jump(p, key[p]) ELSE jump[p]]
      /\ maxh' = [p \in Player |-> IF acts[p] THEN next_maxh(p) ELSE maxh[p]]
      /\ in_air' = [p \in Player |-> IF acts[p] THEN next_in_air(p, key[p]) ELSE in_air[p]]
      /\ crouch' = [p \in Player |-> IF acts[p] THEN next_crouch(key[p]) ELSE crouch[p]]
      /\ kick' = [p \in Player |-> IF acts[p] THEN next_kick(p, key[p]) ELSE kick[p]]
      /\ punch' = [p \in Player |-> IF acts[p] THEN next_punch(p, key[p]) ELSE punch[p]]
      /\ move_right' = [p \in Player |-> IF acts[p] THEN next_move_right(p, key[p]) ELSE move_right[p]]
      /\ move_left' = [p \in Player |-> IF acts[p] THEN next_move_left(p, key[p]) ELSE move_left[p]]
      /\ dir' = [p \in Player |-> IF acts[p] THEN next_dir(p, key[p]) ELSE dir[p]]
      /\ p2_hit' = [p \in Player |-> IF acts[p] THEN Lands_blow(p) ELSE p2_hit[p]]
      /\ knockback' = [p \in Player |-> IF acts[p] THEN next_knockback(p) ELSE knockback[p]]

(* The reset branch: everything but kick, which it does not mention.       *)
BoxReset ==
  /\ curX' = StartX
  /\ curY' = [p \in Player |-> Ground]
  /\ x_motion' = [p \in Player |-> 0]
  /\ y_motion' = [p \in Player |-> 0]
  /\ dir' = [p \in Player |-> p]
  /\ SizeX' = [p \in Player |-> Standing]
  /\ LET none == [p \in Player |-> FALSE]
     IN  /\ jump' = none /\ maxh' = none /\ in_air' = none
         /\ crouch' = none /\ punch' = none
         /\ move_right' = none /\ move_left' = none
         /\ p2_hit' = none /\ knockback' = none
  /\ UNCHANGED kick
=============================================================================
