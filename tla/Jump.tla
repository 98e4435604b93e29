-------------------------------- MODULE Jump --------------------------------
(***************************************************************************)
(* What one fighter's jump promises: from the ground it climbs a step a    *)
(* frame, turns only above the apex, comes down a step a frame and stops   *)
(* exactly on the ground; nothing restarts it half way.                    *)
(***************************************************************************)
EXTENDS Integers

CONSTANTS
  Low,      \* a jump does not turn at or below this height, in steps
  Top       \* and never climbs above this one

VARIABLES phase, height

jumpVars == <<phase, height>>

Init == phase = "ground" /\ height = 0

TakeOff ==
  /\ phase = "ground"
  /\ phase' = "up"
  /\ UNCHANGED height

Climb ==
  /\ phase = "up"
  /\ height < Top
  /\ height' = height + 1
  /\ \/ phase' = "up"
     \/ height >= Low /\ phase' = "down"

Drop ==
  /\ phase = "down"
  /\ height > 1
  /\ height' = height - 1
  /\ UNCHANGED phase

Land ==
  /\ phase = "down"
  /\ height = 1
  /\ height' = 0
  /\ phase' = "ground"

(* The reset button puts the fighter back on the ground.                   *)
PutDown == phase' = "ground" /\ height' = 0

Next == TakeOff \/ Climb \/ Drop \/ Land \/ PutDown

Spec == Init /\ [][Next]_jumpVars
=============================================================================
