-------------------------------- MODULE Run ---------------------------------
(***************************************************************************)
(* The running animation of each fighter, run.sv: a state machine that     *)
(* stays in r0 while the fighter stands and walks round four poses while   *)
(* the fighter keeps moving.  run_state is a register of the pose, so it   *)
(* shows the pose of the frame before; box.sv widens the body in poses 3   *)
(* and 4.                                                                  *)
(*                                                                         *)
(* The source names one state for each frame of a pose (r1, r_1 ... r_10,  *)
(* r2, ...); they are numbered here in the order in which they follow each *)
(* other, r0 being 0.                                                      *)
(***************************************************************************)
EXTENDS Keys

CONSTANT PoseFrames     \* frames a pose lasts: 11 in the source

ASSUME PoseFramesAssumption == PoseFrames \in Nat \ {0}

VARIABLES
  run_State,    \* State of run.sv, by fighter
  run_state     \* the registered pose, 0 when standing

runVars == <<run_State, run_state>>

LastState == 4 * PoseFrames

(* The pose of a state: the second case statement of the always_comb.      *)
run_s(st) ==
  IF st = 0 THEN 0
  ELSE IF st <= PoseFrames THEN 1
  ELSE IF st <= 2 * PoseFrames THEN 2
  ELSE IF st <= 3 * PoseFrames THEN 3
  ELSE 4

Next_State(st) == IF st = LastState THEN 1 ELSE st + 1

RunInit ==
  /\ run_State = [p \in Player |-> 0]
  /\ run_state = [p \in Player |-> 0]

(* One frame: right and left are the move_right and move_left registers of *)
(* the fighter, key the key it obeys.                                      *)
Moving(p, right, left, key) ==
  \/ right[p] /\ key[p] = KeyD
  \/ left[p]  /\ key[p] = KeyA

RunFrame(right, left, key) ==
  LET on == [p \in Player |-> Moving(p, right, left, key)]
  IN  /\ run_State' = [p \in Player |-> IF on[p] THEN Next_State(run_State[p]) ELSE 0]
      /\ run_state' = [p \in Player |-> IF on[p] THEN run_s(run_State[p]) ELSE 0]

RunReset ==
  /\ run_State' = [p \in Player |-> 0]
  /\ run_state' = [p \in Player |-> 0]

RunTypeOK ==
  /\ run_State \in [Player -> 0..LastState]
  /\ run_state \in [Player -> 0..4]
=============================================================================
