------------------------------- MODULE Health -------------------------------
(***************************************************************************)
(* The health of each fighter, p_health.sv: a chain of states h23 ... h0   *)
(* that loses one step in every frame in which p_hit is high.  h0 is left  *)
(* only by the restart key, read from the low byte of the report, and lose *)
(* is high exactly in h0.  Nothing here looks at game_mode.                *)
(***************************************************************************)
EXTENDS Keys

CONSTANT MaxHealth      \* the number of the full state: 23 in the source

ASSUME MaxHealthAssumption == MaxHealth \in Nat \ {0}

VARIABLE health         \* State of p_health.sv, by fighter

p_lose(p) == health[p] = 0

HealthInit == health = [p \in Player |-> MaxHealth]

(* Variant: the chain has no bottom.                                       *)
HealthFrame_NoFloor(hit, k0) ==
  health' = [p \in Player |-> IF hit[p] THEN health[p] - 1 ELSE health[p]]

(* One frame: hit is the p_hit port by fighter, k0 the low report byte.    *)
HealthFrame(hit, k0) ==
  health' = [p \in Player |->
    IF p_lose(p) THEN IF k0 = KeyR THEN MaxHealth ELSE 0
    ELSE IF hit[p] THEN health[p] - 1 ELSE health[p]]

HealthReset == health' = [p \in Player |-> MaxHealth]

HealthTypeOK == health \in [Player -> 0..MaxHealth]
=============================================================================
