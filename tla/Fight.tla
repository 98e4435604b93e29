------------------------------- MODULE Fight --------------------------------
(***************************************************************************)
(* The fighting hardware of project.sv: two boxes with their running       *)
(* animation, and two health chains, all clocked by VGA_VS.  A frame is    *)
(* one edge of that clock: every register takes its next value from the    *)
(* values before the edge and from three inputs the software drives: the   *)
(* report ks in the four key registers, the AI's byte ai and the game mode.*)
(***************************************************************************)
EXTENDS Box

CONSTANTS
  Reports,      \* the reports the keyboard may show
  AIBytes,      \* the bytes the AI may write
  Modes         \* the game modes the software may write

ASSUME InputAssumption ==
  /\ Reports \subseteq [Slot -> Nat]
  /\ AIBytes \subseteq Nat
  /\ Modes \subseteq {Title, OnePlayer, TwoPlayer}

vars == <<boxVars, runVars, health>>

Init == BoxInit /\ RunInit /\ HealthInit

(* The box of p runs: the restart key is not in the low byte of its port   *)
(* and a match is being played.                                            *)
Fights(p, ks, ai, mode) ==
  /\ keycodes(p, ks, ai, mode)[0] # KeyR
  /\ mode \in {OnePlayer, TwoPlayer}

(* (The quantifier over a singleton makes TLC decode the keys only once.)   *)
Frame(ks, ai, mode) ==
  \E key \in {[p \in Player |-> keycode(p, keycodes(p, ks, ai, mode), mode)]},
    fights \in {[p \in Player |-> Fights(p, ks, ai, mode)]} :
    /\ BoxFrame(fights, key)
    /\ RunFrame(move_right, move_left, key)
    /\ HealthFrame([p \in Player |-> hit(p)], ks[0])

(* KEY[0] is pressed.                                                      *)
Reset == BoxReset /\ RunReset /\ HealthReset

Next ==
  \/ \E ks \in Reports, ai \in AIBytes, mode \in Modes : Frame(ks, ai, mode)
  \/ Reset

Spec == Init /\ [][Next]_vars

(* The frame clock is VGA_VS of a free-running counter, so frames go on    *)
(* for ever; nothing makes anyone press a key or the reset button.         *)
SomeFrame == \E ks \in Reports, ai \in AIBytes, mode \in Modes : Frame(ks, ai, mode)
FairSpec == Spec /\ WF_vars(SomeFrame)

-----------------------------------------------------------------------------
TypeOK ==
  /\ RunTypeOK /\ HealthTypeOK
  /\ curX \in [Player -> 0..(Width - 1)]
  /\ curY \in [Player -> 0..(Width - 1)]
  /\ x_motion \in [Player -> {-Step, 0, Step}]
  /\ y_motion \in [Player -> {-Rise, 0, Rise}]
  /\ dir \in [Player -> {0, 1}]
  /\ SizeX \in [Player -> {Standing, Striking, Lying}]
  /\ LET Flags == [Player -> BOOLEAN]
     IN  /\ jump \in Flags /\ maxh \in Flags /\ in_air \in Flags
         /\ crouch \in Flags /\ kick \in Flags /\ punch \in Flags
         /\ move_right \in Flags /\ move_left \in Flags
         /\ p2_hit \in Flags /\ knockback \in Flags

-----------------------------------------------------------------------------
(* The phases of a jump.  Heights stay on the lattice of Rise below        *)
(* Ground, which is what lets the landing test be an equality.             *)

OnLattice(p) == (Ground - curY[p]) % Rise = 0

Grounded(p) ==
  curY[p] = Ground /\ y_motion[p] = 0 /\ ~in_air[p] /\ ~jump[p] /\ ~maxh[p]

Rising(p) ==
  /\ in_air[p] /\ jump[p] /\ ~maxh[p]
  /\ y_motion[p] = -Rise
  /\ curY[p] \in (Apex - Rise + 1)..Ground

Cresting(p) ==
  /\ in_air[p] /\ jump[p] /\ maxh[p]
  /\ y_motion[p] = -Rise
  /\ curY[p] \in (Apex - 2 * Rise + 1)..(Apex - Rise)

Falling(p) ==
  /\ in_air[p] /\ ~jump[p] /\ maxh[p]
  /\ y_motion[p] = Rise
  /\ curY[p] \in (Apex - 3 * Rise + 1)..(Ground - Rise)

(* Whatever is pressed, frozen and resumed, a fighter is in one phase of a *)
(* jump with the heights of that phase: it never sinks through the floor   *)
(* (a missed equality at Ground would let it fall for ever), never leaves  *)
(* the top of the screen, and cannot jump again in the air.                *)
JumpInv ==
  \A p \in Player :
    /\ OnLattice(p)
    /\ Grounded(p) \/ Rising(p) \/ Cresting(p) \/ Falling(p)

(* A fighter does one thing at a time: it walks one way, crouches, kicks   *)
(* or punches, it never strikes in the air, and it only slides in the      *)
(* direction of a walk that is still under way.                            *)
StanceInv ==
  \A p \in Player :
    /\ crouch[p] => ~kick[p] /\ ~punch[p] /\ ~move_right[p] /\ ~move_left[p]
    /\ kick[p] => ~punch[p] /\ ~move_right[p] /\ ~move_left[p]
    /\ punch[p] => ~move_right[p] /\ ~move_left[p]
    /\ ~(move_right[p] /\ move_left[p])
    /\ in_air[p] => ~kick[p] /\ ~punch[p]
    /\ x_motion[p] = Step => move_right[p]
    /\ x_motion[p] = -Step => move_left[p]

(* Two fighters clinch when they stand on the very same spot: the pushing  *)
(* and the striking both compare strictly, so neither applies.             *)
Clinch ==
  /\ curX[0] = curX[1] /\ curX[0] + Lying < Width
  /\ \A p \in Player : Grounded(p) /\ x_motion[p] = 0 /\ ~p2_hit[p] /\ ~knockback[p]

(* A clinch is broken by a jump or by the reset button and by nothing      *)
(* else: the fighters can neither walk out of it nor hit each other.       *)
ClinchHolds ==
  [][Clinch => Clinch' \/ (\E p \in Player : in_air'[p]) \/ curX' = StartX]_vars

(* A fighter on its feet, standing width, away from the walls.             *)
OnItsFeet(p) ==
  /\ ~in_air[p] /\ ~p_lose(p)
  /\ SizeX[p] = Standing
  /\ curX[p] \in Standing..(RightWall - Step)

(* A blow that is taken in the air knocks back on the ground, by where the *)
(* fighter looks then: towards its opponent if it looks away from it.      *)
KnockedTowards(p) == KnockedBack(p) /\ (dir[p] = 1 <=> curX[p] < curX[Other(p)])

(* Knocked towards each other, or one towards one that does not move, is   *)
(* the way in which two bodies can change places.                          *)
KnockedThrough ==
  \E p \in Player :
    KnockedTowards(p) /\ (KnockedTowards(Other(p)) \/ curX'[Other(p)] = curX[Other(p)])

(* Two fighters on their feet never walk, or are pushed, through each      *)
(* other: away from the walls only a jump, a body stretched by a blow or a *)
(* running pose, or such knocks swap their sides.                          *)
NoPassing ==
  [][ /\ OnItsFeet(0) /\ OnItsFeet(1) /\ curX[0] # curX[1]
      /\ curX' # StartX /\ ~KnockedThrough
      => /\ curX[0] < curX[1] <=> curX'[0] < curX'[1]
         /\ curX'[0] # curX'[1] ]_vars

(* A beaten fighter that was not landing a blow when it fell does no more  *)
(* damage: the winner's health is settled until the loser is revived.      *)
Settled ==
  [][ \A p \in Player :
        p_lose(p) /\ ~p2_hit[p] /\ p_lose(p)'
        => health'[Other(p)] >= health[Other(p)] /\ ~p2_hit'[p] ]_vars

(* The fight implements the abstract match.                                *)
M == INSTANCE Match WITH Side <- Player, Full <- MaxHealth, landing <- p2_hit
MatchSpec == M!Spec

(* Each fighter implements the abstract jump, its height counted in steps  *)
(* above the ground.                                                       *)
Phase(p) == IF ~in_air[p] THEN "ground" ELSE IF jump[p] THEN "up" ELSE "down"
Steps(p) == (Ground - curY[p]) \div Rise
TurnLow  == (Ground - Apex) \div Rise
TurnTop  == TurnLow + 3
J0 == INSTANCE Jump WITH Low <- TurnLow, Top <- TurnTop, phase <- Phase(0), height <- Steps(0)
J1 == INSTANCE Jump WITH Low <- TurnLow, Top <- TurnTop, phase <- Phase(1), height <- Steps(1)
JumpSpec0 == J0!Spec
JumpSpec1 == J1!Spec

(* While a match is played and the restart key is left alone, whoever is   *)
(* in the air comes down, or is beaten in the air and stays there.         *)
ComesDown == \A p \in Player : in_air[p] ~> (~in_air[p] \/ p_lose(p))

-----------------------------------------------------------------------------
(* What the repository says and the hardware does not do.                  *)

(* README.md:7 says of the support for several keys at once that it        *)
(* "allows the multiplayer mode to be fair to both players at any point    *)
(* during a match".  The keys do their part; the wiring of project.sv:199  *)
(* does not: in a frame in which both fighters stand and act, the blow of  *)
(* one lands if the same blow of the other would.                          *)
BlowsAlike ==
  [][ \A ks \in Reports, ai \in AIBytes :
        /\ Frame(ks, ai, TwoPlayer)
        /\ \A p \in Player : Fights(p, ks, ai, TwoPlayer) /\ ~p_lose(p)
        => \A p \in Player : Meets(p, other_SizeY(Other(p))) => p2_hit'[p] ]_vars

(* README.md:34 lists "R for restart/reset": after a frame with the        *)
(* restart key both fighters have their full health and stand where a      *)
(* match starts.                                                           *)
RestartRestarts ==
  [][ \A ks \in Reports, ai \in AIBytes, mode \in Modes :
        ks[0] = KeyR /\ Frame(ks, ai, mode)
        => health' = [p \in Player |-> MaxHealth] /\ curX' = StartX ]_vars
=============================================================================
