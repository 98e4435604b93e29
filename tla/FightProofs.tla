---------------------------- MODULE FightProofs -----------------------------
(***************************************************************************)
(* Proofs about Fight, for every arena, size, health and set of reports    *)
(* that the assumptions of Run, Health, Box and Fight allow.               *)
(***************************************************************************)
EXTENDS Fight, TLAPS

USE DEF Player, Step, Rise

-----------------------------------------------------------------------------
(* Every register keeps its type: positions stay 10-bit, motions are one   *)
(* of three values, the pose and the health stay in their ranges.          *)

LEMMA TypeInit == Init => TypeOK
BY HorizontalAssumption, VerticalAssumption, PoseFramesAssumption, MaxHealthAssumption
   DEF Init, BoxInit, RunInit, HealthInit, TypeOK, RunTypeOK, HealthTypeOK, LastState

LEMMA RunFrameType ==
  ASSUME RunTypeOK, NEW right, NEW left, NEW key, RunFrame(right, left, key)
  PROVE  RunTypeOK'
<1>1. \A st \in 0..LastState : run_s(st) \in 0..4
  BY PoseFramesAssumption DEF run_s, LastState
<1>2. \A st \in 0..LastState : Next_State(st) \in 0..LastState
  BY PoseFramesAssumption DEF Next_State, LastState
<1> QED
  BY <1>1, <1>2, PoseFramesAssumption DEF RunFrame, RunTypeOK, LastState

LEMMA HealthFrameType ==
  ASSUME HealthTypeOK, NEW blow, NEW k0, HealthFrame(blow, k0)
  PROVE  HealthTypeOK'
BY MaxHealthAssumption DEF HealthFrame, HealthTypeOK, p_lose

LEMMA BoxFrameType ==
  ASSUME TypeOK, NEW fights, NEW key, BoxFrame(fights, key)
  PROVE  /\ curX' \in [Player -> 0..(Width - 1)]
         /\ curY' \in [Player -> 0..(Width - 1)]
         /\ x_motion' \in [Player -> {-Step, 0, Step}]
         /\ y_motion' \in [Player -> {-Rise, 0, Rise}]
         /\ dir' \in [Player -> {0, 1}]
         /\ SizeX' \in [Player -> {Standing, Striking, Lying}]
<1>1. ASSUME NEW p \in Player PROVE next_curX(p) \in 0..(Width - 1)
  <2>1. /\ curX[p] \in 0..(Width - 1) /\ curX[Other(p)] \in 0..(Width - 1)
        /\ SizeX[p] \in 1..(Width - 1) /\ SizeX[Other(p)] \in 1..(Width - 1)
        /\ x_motion[p] \in {-3, 0, 3}
    BY HorizontalAssumption DEF TypeOK, Other
  <2>2. Width > 5
    BY VerticalAssumption, HorizontalAssumption
  <2> QED
    BY <2>1, <2>2, HorizontalAssumption DEF next_curX, Wrap, Right
<1>2. ASSUME NEW p \in Player PROVE next_curY(p) \in 0..(Width - 1)
  BY <1>2, VerticalAssumption, HorizontalAssumption DEF TypeOK, next_curY, Wrap
<1> QED
  BY <1>1, <1>2 DEF BoxFrame, TypeOK, next_x_motion, next_y_motion, next_dir, next_SizeX

LEMMA BoxFrameFlags ==
  ASSUME TypeOK, NEW fights, NEW key, BoxFrame(fights, key)
  PROVE  LET Flags == [Player -> BOOLEAN]
         IN  /\ jump' \in Flags /\ maxh' \in Flags /\ in_air' \in Flags
             /\ crouch' \in Flags /\ kick' \in Flags /\ punch' \in Flags
             /\ move_right' \in Flags /\ move_left' \in Flags
             /\ p2_hit' \in Flags /\ knockback' \in Flags
BY DEF BoxFrame, TypeOK, next_jump, next_maxh, next_in_air, next_crouch, next_kick,
       next_punch, next_move_right, next_move_left, Meets, Lands_blow,
       next_knockback

LEMMA TypeReset == TypeOK /\ Reset => TypeOK'
BY HorizontalAssumption, VerticalAssumption, PoseFramesAssumption, MaxHealthAssumption
   DEF Reset, BoxReset, RunReset, HealthReset, TypeOK, RunTypeOK, HealthTypeOK, LastState

LEMMA TypeNext == TypeOK /\ [Next]_vars => TypeOK'
<1> SUFFICES ASSUME TypeOK, [Next]_vars PROVE TypeOK'
  OBVIOUS
<1>1. ASSUME NEW ks \in Reports, NEW ai \in AIBytes, NEW mode \in Modes, Frame(ks, ai, mode)
      PROVE  TypeOK'
  <2>1. PICK key, fights : /\ BoxFrame(fights, key)
                           /\ RunFrame(move_right, move_left, key)
                           /\ HealthFrame([p \in Player |-> hit(p)], ks[0])
    BY <1>1 DEF Frame
  <2> QED
    BY <2>1, BoxFrameType, BoxFrameFlags, RunFrameType, HealthFrameType DEF TypeOK
<1>2. CASE Reset
  BY <1>2, TypeReset
<1>3. CASE UNCHANGED vars
  BY <1>3 DEF vars, boxVars, airVars, runVars, TypeOK, RunTypeOK, HealthTypeOK
<1> QED
  BY <1>1, <1>2, <1>3 DEF Next

(* Type correctness of the whole fight.                                    *)
THEOREM TypeCorrect == Spec => []TypeOK
<1> QED
  BY TypeInit, TypeNext, PTL DEF Spec

-----------------------------------------------------------------------------
(* The jump.  JumpInv is inductive on top of TypeOK: OnLattice makes the   *)
(* landing test exact, and the four phases carry the heights at which each *)
(* may be left.                                                            *)

JumpPhase(p) == OnLattice(p) /\ (Grounded(p) \/ Rising(p) \/ Cresting(p) \/ Falling(p))

(* The five registers of a jump and their types, for one fighter.          *)
AirType(p) ==
  /\ curY[p] \in 0..(Width - 1)
  /\ y_motion[p] \in {-Rise, 0, Rise}
  /\ jump[p] \in BOOLEAN /\ maxh[p] \in BOOLEAN /\ in_air[p] \in BOOLEAN

(* What a frame does to them when the fighter acts.                        *)
AirStep(p, key) ==
  /\ curY'[p] = next_curY(p)
  /\ y_motion'[p] = next_y_motion(p, key)
  /\ jump'[p] = next_jump(p, key)
  /\ maxh'[p] = next_maxh(p)
  /\ in_air'[p] = next_in_air(p, key)

AirSame(p) ==
  /\ curY'[p] = curY[p] /\ y_motion'[p] = y_motion[p]
  /\ jump'[p] = jump[p] /\ maxh'[p] = maxh[p] /\ in_air'[p] = in_air[p]

LEMMA JumpInit == Init => JumpInv
BY VerticalAssumption
   DEF Init, BoxInit, JumpInv, OnLattice, Grounded

LEMMA LatticeStep ==
  ASSUME NEW d \in Int, d % 5 = 0
  PROVE  (d + 5) % 5 = 0 /\ (d - 5) % 5 = 0
OBVIOUS

LEMMA AirStepPhase ==
  ASSUME NEW p \in Player, NEW key, AirType(p), JumpPhase(p), AirStep(p, key)
  PROVE  JumpPhase(p)'
<1> USE VerticalAssumption, HorizontalAssumption DEF AirType, JumpPhase
<1>1. CASE Grounded(p)
  <2>1. ~Lands(p) /\ curY[p] > Apex
    BY <1>1 DEF Grounded, Lands
  <2>2. curY'[p] = Ground /\ ~maxh'[p]
    BY <1>1, <2>1 DEF Grounded, AirStep, next_curY, Wrap, next_maxh
  <2>3. CASE key = KeyW
    <3>1. y_motion'[p] = -Rise /\ jump'[p] /\ in_air'[p]
      BY <1>1, <2>1, <2>3 DEF Grounded, AirStep, next_y_motion, next_jump, next_in_air
    <3> QED
      BY <2>2, <3>1 DEF Rising, OnLattice
  <2>4. CASE key # KeyW
    <3>1. y_motion'[p] = 0 /\ ~jump'[p] /\ ~in_air'[p]
      BY <1>1, <2>1, <2>4 DEF Grounded, AirStep, next_y_motion, next_jump, next_in_air
    <3> QED
      BY <2>2, <3>1 DEF Grounded, OnLattice
  <2> QED
    BY <2>3, <2>4
<1>2. CASE Rising(p)
  <2>1. ~Lands(p)
    BY <1>2 DEF Rising, Lands
  <2>2. curY'[p] = curY[p] - Rise
    BY <1>2 DEF Rising, AirStep, next_curY, Wrap
  <2>3. y_motion'[p] = -Rise /\ jump'[p] /\ in_air'[p]
    BY <1>2, <2>1 DEF Rising, AirStep, next_y_motion, next_jump, next_in_air
  <2>4. maxh'[p] <=> curY[p] <= Apex
    BY <1>2, <2>1 DEF Rising, AirStep, next_maxh
  <2>5. OnLattice(p)'
    BY <2>2, LatticeStep DEF OnLattice
  <2> QED
    BY <1>2, <2>2, <2>3, <2>4, <2>5 DEF Rising, Cresting
<1>3. CASE Cresting(p)
  <2>1. ~Lands(p)
    BY <1>3 DEF Cresting, Lands
  <2>2. curY'[p] = curY[p] - Rise
    BY <1>3 DEF Cresting, AirStep, next_curY, Wrap
  <2>3. y_motion'[p] = Rise /\ ~jump'[p] /\ in_air'[p] /\ maxh'[p]
    BY <1>3, <2>1 DEF Cresting, AirStep, next_y_motion, next_jump, next_in_air, next_maxh
  <2>4. OnLattice(p)'
    BY <2>2, LatticeStep DEF OnLattice
  <2> QED
    BY <1>3, <2>2, <2>3, <2>4 DEF Cresting, Falling
<1>4. CASE Falling(p)
  <2>1. curY'[p] = curY[p] + Rise /\ ~jump'[p]
    BY <1>4 DEF Falling, AirStep, next_curY, Wrap, next_jump
  <2>2. OnLattice(p)'
    BY <2>1, LatticeStep DEF OnLattice
  <2>3. CASE Lands(p)
    <3>1. y_motion'[p] = 0 /\ ~in_air'[p] /\ ~maxh'[p]
      BY <2>3 DEF AirStep, next_y_motion, next_in_air, next_maxh
    <3>2. curY'[p] = Ground
      BY <2>1, <2>3 DEF Lands
    <3> QED
      BY <2>1, <2>2, <3>1, <3>2 DEF Grounded
  <2>4. CASE ~Lands(p)
    <3>1. y_motion'[p] = Rise /\ in_air'[p] /\ maxh'[p]
      BY <1>4, <2>4 DEF Falling, AirStep, next_y_motion, next_in_air, next_maxh
    <3>2. curY[p] <= Ground - 2 * Rise
      BY <1>4, <2>4 DEF Falling, Lands, OnLattice
    <3> QED
      BY <1>4, <2>1, <2>2, <3>1, <3>2 DEF Falling
  <2> QED
    BY <2>3, <2>4
<1> QED
  BY <1>1, <1>2, <1>3, <1>4

LEMMA AirSamePhase ==
  ASSUME NEW p \in Player, JumpPhase(p), AirSame(p)
  PROVE  JumpPhase(p)'
BY DEF JumpPhase, AirSame, OnLattice, Grounded, Rising, Cresting, Falling

LEMMA JumpNext == TypeOK /\ JumpInv /\ [Next]_vars => JumpInv'
<1> SUFFICES ASSUME TypeOK, JumpInv, [Next]_vars, NEW p \in Player
             PROVE  JumpPhase(p)'
  BY DEF JumpInv, JumpPhase
<1>1. AirType(p) /\ JumpPhase(p)
  BY DEF TypeOK, AirType, JumpInv, JumpPhase
<1>2. ASSUME NEW ks \in Reports, NEW ai \in AIBytes, NEW mode \in Modes, Frame(ks, ai, mode)
      PROVE  JumpPhase(p)'
  <2>1. PICK key, fights : BoxFrame(fights, key)
    BY <1>2 DEF Frame
  <2>2. AirStep(p, key[p]) \/ AirSame(p)
    BY <2>1 DEF BoxFrame, AirStep, AirSame
  <2> QED
    BY <1>1, <2>2, AirStepPhase, AirSamePhase
<1>3. CASE Reset
  BY <1>3, VerticalAssumption DEF Reset, BoxReset, JumpPhase, OnLattice, Grounded
<1>4. CASE UNCHANGED vars
  BY <1>1, <1>4, AirSamePhase DEF AirSame, vars, boxVars, airVars
<1> QED
  BY <1>2, <1>3, <1>4 DEF Next

(* Every jump, in every arena: no fighter sinks through the floor, leaves  *)
(* the top of the screen or jumps again in the air.                        *)
THEOREM JumpSafe == Spec => []JumpInv
<1>1. TypeOK /\ JumpInv /\ [Next]_vars => (TypeOK /\ JumpInv)'
  BY TypeNext, JumpNext
<1> QED
  BY TypeInit, JumpInit, <1>1, PTL DEF Spec

-----------------------------------------------------------------------------
(* Stances.  StanceInv is inductive by itself: a flag survives a frame     *)
(* only under the key that raised it, and there is one key in a frame.     *)

Stance(p) ==
  /\ crouch[p] => ~kick[p] /\ ~punch[p] /\ ~move_right[p] /\ ~move_left[p]
  /\ kick[p] => ~punch[p] /\ ~move_right[p] /\ ~move_left[p]
  /\ punch[p] => ~move_right[p] /\ ~move_left[p]
  /\ ~(move_right[p] /\ move_left[p])
  /\ in_air[p] => ~kick[p] /\ ~punch[p]
  /\ x_motion[p] = Step => move_right[p]
  /\ x_motion[p] = -Step => move_left[p]

StanceStep(p, key) ==
  /\ crouch'[p] = next_crouch(key)
  /\ kick'[p] = next_kick(p, key) /\ punch'[p] = next_punch(p, key)
  /\ move_right'[p] = next_move_right(p, key) /\ move_left'[p] = next_move_left(p, key)
  /\ in_air'[p] = next_in_air(p, key)
  /\ x_motion'[p] = next_x_motion(p, key)

StanceSame(p) ==
  /\ crouch'[p] = crouch[p] /\ kick'[p] = kick[p] /\ punch'[p] = punch[p]
  /\ move_right'[p] = move_right[p] /\ move_left'[p] = move_left[p]
  /\ in_air'[p] = in_air[p] /\ x_motion'[p] = x_motion[p]

LEMMA StanceStepKeeps ==
  ASSUME NEW p \in Player, NEW key, Stance(p), StanceStep(p, key)
  PROVE  Stance(p)'
<1>1. /\ crouch'[p] => key = KeyS
      /\ kick'[p] => key = KeyK
      /\ punch'[p] => key = KeyP
  BY DEF StanceStep, next_crouch, next_kick, next_punch
<1>2. /\ move_right'[p] => key = KeyD
      /\ move_left'[p] => key = KeyA
  BY DEF StanceStep, next_move_right, next_move_left, StopsRight, StopsLeft,
         SetsOffRight, SetsOffLeft
<1>3. in_air'[p] => ~kick'[p] /\ ~punch'[p]
  <2>1. KeyW # KeyK /\ KeyW # KeyP
    BY DEF KeyW, KeyK, KeyP
  <2>2. in_air[p] => ~kick[p] /\ ~punch[p]
    BY DEF Stance
  <2>3. in_air'[p] => key = KeyW \/ in_air[p]
    BY DEF StanceStep, next_in_air
  <2>4. kick'[p] => key = KeyK /\ (kick[p] \/ ~in_air[p])
    BY DEF StanceStep, next_kick
  <2>5. punch'[p] => key = KeyP /\ (punch[p] \/ ~in_air[p])
    BY DEF StanceStep, next_punch
  <2> QED
    BY <2>1, <2>2, <2>3, <2>4, <2>5
<1>4. /\ x_motion'[p] = Step => move_right'[p]
      /\ x_motion'[p] = -Step => move_left'[p]
  <2>1. CASE StopsRight(p, key) \/ StopsLeft(p, key)
    BY <2>1 DEF StanceStep, next_x_motion
  <2>2. CASE ~StopsRight(p, key) /\ ~StopsLeft(p, key) /\ SetsOffRight(p, key)
    BY <2>2 DEF StanceStep, next_x_motion, next_move_right
  <2>3. CASE /\ ~StopsRight(p, key) /\ ~StopsLeft(p, key)
             /\ ~SetsOffRight(p, key) /\ SetsOffLeft(p, key)
    BY <2>3 DEF StanceStep, next_x_motion, next_move_left
  <2>4. CASE /\ ~StopsRight(p, key) /\ ~StopsLeft(p, key)
             /\ ~SetsOffRight(p, key) /\ ~SetsOffLeft(p, key)
    BY <2>4 DEF Stance, StanceStep, next_x_motion, next_move_right, next_move_left
  <2> QED
    BY <2>1, <2>2, <2>3, <2>4
<1> QED
  BY <1>1, <1>2, <1>3, <1>4 DEF Stance, KeyS, KeyK, KeyP, KeyD, KeyA

LEMMA StanceNext == StanceInv /\ [Next]_vars => StanceInv'
<1> SUFFICES ASSUME StanceInv, [Next]_vars, NEW p \in Player
             PROVE  Stance(p)'
  BY DEF StanceInv, Stance
<1>1. Stance(p)
  BY DEF StanceInv, Stance
<1>2. ASSUME NEW ks \in Reports, NEW ai \in AIBytes, NEW mode \in Modes, Frame(ks, ai, mode)
      PROVE  Stance(p)'
  <2>1. PICK key, fights : BoxFrame(fights, key)
    BY <1>2 DEF Frame
  <2>2. StanceStep(p, key[p]) \/ StanceSame(p)
    BY <2>1 DEF BoxFrame, StanceStep, StanceSame
  <2>3. StanceSame(p) => Stance(p)'
    BY <1>1 DEF Stance, StanceSame
  <2> QED
    BY <1>1, <2>2, <2>3, StanceStepKeeps
<1>3. CASE Reset
  BY <1>3 DEF Reset, BoxReset, Stance
<1>4. CASE UNCHANGED vars
  BY <1>1, <1>4 DEF Stance, vars, boxVars, airVars
<1> QED
  BY <1>2, <1>3, <1>4 DEF Next

(* No fighter ever does two things at once, strikes in the air or slides   *)
(* without walking.                                                        *)
THEOREM StanceSafe == Spec => []StanceInv
<1>1. Init => StanceInv
  BY DEF Init, BoxInit, StanceInv
<1> QED
  BY <1>1, StanceNext, PTL DEF Spec

-----------------------------------------------------------------------------
(* The outcome of a match.                                                 *)

LEMMA SettledStep ==
  ASSUME TypeOK, [Next]_vars, NEW p \in Player, p_lose(p), ~p2_hit[p], p_lose(p)'
  PROVE  health'[Other(p)] >= health[Other(p)] /\ ~p2_hit'[p]
<1>0. Other(p) \in Player /\ Other(Other(p)) = p
  BY DEF Other
<1>1. ASSUME NEW ks \in Reports, NEW ai \in AIBytes, NEW mode \in Modes, Frame(ks, ai, mode)
      PROVE  health'[Other(p)] >= health[Other(p)] /\ ~p2_hit'[p]
  <2>1. PICK key, fights : /\ BoxFrame(fights, key)
                           /\ HealthFrame([q \in Player |-> hit(q)], ks[0])
    BY <1>1 DEF Frame
  <2>2. ~p2_hit'[p]
    BY <2>1 DEF BoxFrame, Acts
  <2>3. ~hit(Other(p))
    BY <1>0 DEF hit
  <2>4. health'[Other(p)] >= health[Other(p)]
    BY <1>0, <2>1, <2>3, MaxHealthAssumption DEF HealthFrame, TypeOK, HealthTypeOK, p_lose
  <2> QED
    BY <2>2, <2>4
<1>2. CASE Reset
  BY <1>0, <1>2, MaxHealthAssumption DEF Reset, BoxReset, HealthReset, TypeOK, HealthTypeOK
<1>3. CASE UNCHANGED vars
  BY <1>0, <1>3 DEF vars, boxVars, TypeOK, HealthTypeOK
<1> QED
  BY <1>1, <1>2, <1>3 DEF Next

(* The winner of a match cannot be hurt by the loser.                      *)
THEOREM MatchSettled == Spec => Settled
<1>1. TypeOK /\ [Next]_vars =>
        [\A p \in Player : p_lose(p) /\ ~p2_hit[p] /\ p_lose(p)'
           => health'[Other(p)] >= health[Other(p)] /\ ~p2_hit'[p]]_vars
  BY SettledStep
<1> QED
  BY <1>1, TypeCorrect, PTL DEF Spec, Settled

LEMMA FoeIsOther == ASSUME NEW p \in Player PROVE M!Foe(p) = Other(p)
BY DEF M!Foe, Other

LEMMA MatchStep ==
  ASSUME TypeOK, NEW ks \in Reports, NEW ai \in AIBytes, NEW mode \in Modes, Frame(ks, ai, mode)
  PROVE  M!Exchange \/ M!Restart
<1>1. PICK key, fights : /\ BoxFrame(fights, key)
                         /\ HealthFrame([q \in Player |-> hit(q)], ks[0])
  BY DEF Frame
<1>2. M!Blows
  <2>1. p2_hit' \in [Player -> BOOLEAN]
    BY <1>1, BoxFrameFlags
  <2>2. \A p \in Player : M!Beaten(p) => p2_hit'[p] = p2_hit[p]
    BY <1>1 DEF BoxFrame, Acts, M!Beaten, p_lose
  <2> QED
    BY <2>1, <2>2 DEF M!Blows
<1>3. health' = [p \in Player |->
                  IF M!Beaten(p) THEN IF ks[0] = KeyR THEN MaxHealth ELSE 0
                  ELSE IF p2_hit[M!Foe(p)] THEN health[p] - 1 ELSE health[p]]
  BY <1>1, FoeIsOther DEF HealthFrame, M!Beaten, p_lose, hit
<1>4. CASE ks[0] = KeyR
  BY <1>2, <1>3, <1>4 DEF M!Restart, M!Drain
<1>5. CASE ks[0] # KeyR
  BY <1>2, <1>3, <1>5 DEF M!Exchange, M!Drain
<1> QED
  BY <1>4, <1>5

(* The fight implements the abstract match.                                *)
THEOREM ImplementsMatch == Spec => MatchSpec
<1>1. Init => M!Init
  BY DEF Init, BoxInit, HealthInit, M!Init
<1>2. TypeOK /\ [Next]_vars => [M!Next]_M!matchVars
  <2> SUFFICES ASSUME TypeOK, [Next]_vars PROVE [M!Next]_M!matchVars
    OBVIOUS
  <2>1. ASSUME NEW ks \in Reports, NEW ai \in AIBytes, NEW mode \in Modes, Frame(ks, ai, mode)
        PROVE  M!Next
    BY <2>1, MatchStep DEF M!Next
  <2>2. CASE Reset
    BY <2>2 DEF Reset, BoxReset, HealthReset, M!Next, M!NewMatch
  <2>3. CASE UNCHANGED vars
    BY <2>3 DEF vars, boxVars, M!matchVars
  <2> QED
    BY <2>1, <2>2, <2>3 DEF Next
<1> QED
  BY <1>1, <1>2, TypeCorrect, PTL DEF Spec, MatchSpec, M!Spec

-----------------------------------------------------------------------------
(* The jump of either fighter implements the abstract jump.  JumpMove is   *)
(* the abstract next-state relation on the mapped state.                   *)

JumpMove(p) ==
  \/ Phase(p) = "ground" /\ Phase(p)' = "up" /\ Steps(p)' = Steps(p)
  \/ /\ Phase(p) = "up" /\ Steps(p) < TurnTop /\ Steps(p)' = Steps(p) + 1
     /\ Phase(p)' = "up" \/ (Steps(p) >= TurnLow /\ Phase(p)' = "down")
  \/ /\ Phase(p) = "down" /\ Steps(p) > 1 /\ Steps(p)' = Steps(p) - 1
     /\ Phase(p)' = Phase(p)
  \/ /\ Phase(p) = "down" /\ Steps(p) = 1 /\ Steps(p)' = 0
     /\ Phase(p)' = "ground"
  \/ Phase(p)' = "ground" /\ Steps(p)' = 0
  \/ Phase(p)' = Phase(p) /\ Steps(p)' = Steps(p)

(* A phase is left only into the next one, with the height it carries.     *)
LEMMA AirStepMove ==
  ASSUME NEW p \in Player, NEW key, AirType(p), JumpPhase(p), AirStep(p, key)
  PROVE  JumpMove(p)
<1> USE VerticalAssumption, HorizontalAssumption DEF AirType
<1>1. CASE Grounded(p)
  <2>1. curY'[p] = curY[p] /\ ~maxh[p] /\ ~jump[p] /\ ~in_air[p] /\ ~Lands(p)
    BY <1>1 DEF Grounded, AirStep, next_curY, Wrap, Lands
  <2>2. in_air'[p] => jump'[p]
    BY <1>1, <2>1 DEF AirStep, next_in_air, next_jump
  <2> QED
    BY <2>1, <2>2 DEF JumpMove, Phase, Steps
<1>2. CASE Rising(p) \/ Cresting(p)
  <2>1. curY'[p] = curY[p] - Rise /\ in_air[p] /\ jump[p] /\ ~Lands(p)
    BY <1>2 DEF Rising, Cresting, AirStep, next_curY, Wrap, Lands
  <2>2. in_air'[p]
    BY <2>1 DEF AirStep, next_in_air
  <2>3. jump'[p] \/ Cresting(p)
    BY <1>2, <2>1 DEF Rising, AirStep, next_jump
  <2>4. Steps(p)' = Steps(p) + 1 /\ Steps(p) < TurnTop
    BY <1>2, <2>1 DEF Steps, TurnTop, TurnLow, Rising, Cresting
  <2>5. Cresting(p) => Steps(p) >= TurnLow
    BY DEF Steps, TurnLow, Cresting
  <2> QED
    BY <2>1, <2>2, <2>3, <2>4, <2>5 DEF JumpMove, Phase
<1>3. CASE Falling(p)
  <2>1. curY'[p] = curY[p] + Rise /\ in_air[p] /\ ~jump[p] /\ ~jump'[p]
    BY <1>3 DEF Falling, AirStep, next_curY, Wrap, next_jump
  <2>2. in_air'[p] <=> curY[p] + Rise # Ground
    BY <1>3, <2>1 DEF Falling, AirStep, next_in_air, Lands
  <2>3. curY[p] + Rise # Ground => Steps(p) > 1
    BY <1>3 DEF Falling, JumpPhase, OnLattice, Steps
  <2>4. curY[p] + Rise = Ground => Steps(p) = 1
    BY DEF Steps
  <2>5. Steps(p)' = Steps(p) - 1
    BY <2>1 DEF Steps
  <2> QED
    BY <2>1, <2>2, <2>3, <2>4, <2>5 DEF JumpMove, Phase
<1> QED
  BY <1>1, <1>2, <1>3 DEF JumpPhase

LEMMA JumpMoves ==
  ASSUME TypeOK, JumpInv, [Next]_vars, NEW p \in Player
  PROVE  JumpMove(p)
<1>1. AirType(p) /\ JumpPhase(p)
  BY DEF TypeOK, AirType, JumpInv, JumpPhase
<1>2. AirSame(p) => JumpMove(p)
  BY DEF AirSame, JumpMove, Phase, Steps
<1>3. ASSUME NEW ks \in Reports, NEW ai \in AIBytes, NEW mode \in Modes, Frame(ks, ai, mode)
      PROVE  JumpMove(p)
  <2>1. PICK key, fights : BoxFrame(fights, key)
    BY <1>3 DEF Frame
  <2>2. AirStep(p, key[p]) \/ AirSame(p)
    BY <2>1 DEF BoxFrame, AirStep, AirSame
  <2> QED
    BY <1>1, <1>2, <2>2, AirStepMove
<1>4. CASE Reset
  BY <1>4, VerticalAssumption DEF Reset, BoxReset, JumpMove, Phase, Steps
<1>5. CASE UNCHANGED vars
  BY <1>2, <1>5 DEF AirSame, vars, boxVars, airVars
<1> QED
  BY <1>3, <1>4, <1>5 DEF Next

(* Player 1's jump implements the abstract jump.                           *)
THEOREM ImplementsJump0 == Spec => JumpSpec0
<1>1. Init => J0!Init
  BY VerticalAssumption DEF Init, BoxInit, J0!Init, Phase, Steps
<1>2. TypeOK /\ JumpInv /\ [Next]_vars => [J0!Next]_J0!jumpVars
  <2> SUFFICES ASSUME TypeOK, JumpInv, [Next]_vars PROVE [J0!Next]_J0!jumpVars
    OBVIOUS
  <2>1. JumpMove(0)
    BY JumpMoves
  <2> QED
    BY <2>1 DEF JumpMove, J0!Next, J0!TakeOff, J0!Climb, J0!Drop, J0!Land, J0!PutDown, J0!jumpVars
<1> QED
  BY <1>1, <1>2, TypeCorrect, JumpSafe, PTL DEF Spec, JumpSpec0, J0!Spec

(* Player 2's jump implements the abstract jump.                           *)
THEOREM ImplementsJump1 == Spec => JumpSpec1
<1>1. Init => J1!Init
  BY VerticalAssumption DEF Init, BoxInit, J1!Init, Phase, Steps
<1>2. TypeOK /\ JumpInv /\ [Next]_vars => [J1!Next]_J1!jumpVars
  <2> SUFFICES ASSUME TypeOK, JumpInv, [Next]_vars PROVE [J1!Next]_J1!jumpVars
    OBVIOUS
  <2>1. JumpMove(1)
    BY JumpMoves
  <2> QED
    BY <2>1 DEF JumpMove, J1!Next, J1!TakeOff, J1!Climb, J1!Drop, J1!Land, J1!PutDown, J1!jumpVars
<1> QED
  BY <1>1, <1>2, TypeCorrect, JumpSafe, PTL DEF Spec, JumpSpec1, J1!Spec

-----------------------------------------------------------------------------
(* A clinch.  Nothing that compares positions applies to two fighters on   *)
(* the same pixel: neither sets off, lands a blow or is pushed.            *)

LEMMA ClinchFrame ==
  ASSUME TypeOK, Clinch, NEW fights, NEW key, BoxFrame(fights, key),
         \A p \in Player : ~in_air'[p]
  PROVE  Clinch'
<1> USE HorizontalAssumption, VerticalAssumption
<1>1. ASSUME NEW p \in Player
      PROVE  /\ curX'[p] = curX[p] /\ x_motion'[p] = 0
             /\ ~p2_hit'[p] /\ ~knockback'[p] /\ Grounded(p)'
  <2>1. /\ Other(p) \in Player /\ curX[Other(p)] = curX[p] /\ Grounded(p)
        /\ x_motion[p] = 0 /\ ~knockback[p] /\ ~p2_hit[p] /\ ~p2_hit[Other(p)]
    BY DEF Other, Clinch
  <2>2. /\ curX[p] \in Int /\ 0 <= curX[p] /\ curX[p] < Width
        /\ Right(p) \in Int /\ Right(p) > curX[p]
        /\ Right(Other(p)) \in Int /\ Right(Other(p)) > curX[p]
    BY <2>1 DEF TypeOK, Clinch, Right, Wrap
  <2>3. ~SetsOffRight(p, key[p]) /\ ~SetsOffLeft(p, key[p])
    BY <2>1, <2>2 DEF SetsOffRight, SetsOffLeft, Grounded
  <2>4. ~FromLeft(p) /\ ~FromRight(p) /\ ~KnockedBack(p) /\ ~hit(p)
    BY <2>1, <2>2 DEF FromLeft, FromRight, KnockedBack, hit
  <2>5. next_curX(p) = curX[p]
    BY <2>1, <2>2, <2>4 DEF next_curX, Pushes, Wrap
  <2>6. next_x_motion(p, key[p]) = 0
    BY <2>1, <2>3 DEF next_x_motion
  <2>7. ~Lands_blow(p)
    BY <2>1, <2>2 DEF Lands_blow, Meets
  <2>8. ~next_knockback(p)
    BY <2>1, <2>4 DEF next_knockback
  <2>9. Grounded(p)'
    <3>1. AirType(p) /\ JumpPhase(p)
      BY <2>1 DEF TypeOK, AirType, JumpPhase, Grounded, OnLattice
    <3>2. AirStep(p, key[p]) \/ AirSame(p)
      BY DEF BoxFrame, AirStep, AirSame
    <3>3. JumpPhase(p)'
      BY <3>1, <3>2, AirStepPhase, AirSamePhase
    <3> QED
      BY <3>3 DEF JumpPhase, Rising, Cresting, Falling
  <2> QED
    BY <2>1, <2>5, <2>6, <2>7, <2>8, <2>9 DEF BoxFrame
<1>2. curX'[0] = curX'[1] /\ curX'[0] + Lying < Width
  BY <1>1 DEF Clinch
<1> QED
  BY <1>1, <1>2 DEF Clinch

(* Out of a clinch by a jump or the reset button, by nothing else.         *)
THEOREM ClinchKept == Spec => ClinchHolds
<1>1. ASSUME TypeOK, [Next]_vars, Clinch
      PROVE  Clinch' \/ (\E p \in Player : in_air'[p]) \/ curX' = StartX
  <2>1. ASSUME NEW ks \in Reports, NEW ai \in AIBytes, NEW mode \in Modes, Frame(ks, ai, mode)
        PROVE  Clinch' \/ (\E p \in Player : in_air'[p])
    BY <1>1, <2>1, ClinchFrame DEF Frame
  <2>2. CASE Reset
    BY <2>2 DEF Reset, BoxReset
  <2>3. CASE UNCHANGED vars
    BY <1>1, <2>3 DEF vars, boxVars, airVars, Clinch, Grounded
  <2> QED
    BY <1>1, <2>1, <2>2, <2>3 DEF Next
<1>2. TypeOK /\ [Next]_vars
        => [Clinch => Clinch' \/ (\E p \in Player : in_air'[p]) \/ curX' = StartX]_vars
  BY <1>1
<1> QED
  BY <1>2, TypeCorrect, PTL DEF Spec, ClinchHolds

-----------------------------------------------------------------------------
(* Two fighters on their feet.                                             *)

Near(p) == curX[p] < curX[Other(p)] + Standing /\ curX[Other(p)] < curX[p] + Standing

(* Where a frame takes one of them: bodies that overlap are pushed apart   *)
(* by a whole body, all others move by a step.                             *)
FootStep(p, x) ==
  IF KnockedBack(p) THEN x = curX[p] + (IF dir[p] = 0 THEN -Step ELSE Step)
  ELSE IF Near(p)
  THEN x = curX[Other(p)] + (IF curX[p] < curX[Other(p)] THEN -Standing ELSE Standing)
  ELSE x \in {curX[p] - Step, curX[p], curX[p] + Step}

LEMMA FootStepTaken ==
  ASSUME TypeOK, JumpInv, OnItsFeet(0), OnItsFeet(1), curX[0] # curX[1], NEW p \in Player
  PROVE  FootStep(p, next_curX(p))
<1> USE HorizontalAssumption, ArenaAssumption, VerticalAssumption
<1> DEFINE o == Other(p)
<1>1. o \in Player /\ Other(o) = p /\ o # p
  BY DEF Other
<1>2. /\ curX[p] \in Standing..(RightWall - Step) /\ curX[o] \in Standing..(RightWall - Step)
      /\ curX[p] # curX[o] /\ SizeX[p] = Standing /\ SizeX[o] = Standing
      /\ ~in_air[p] /\ ~in_air[o]
  BY <1>1 DEF OnItsFeet, Other
<1>3. Right(p) = curX[p] + Standing /\ Right(o) = curX[o] + Standing
  BY <1>1, <1>2 DEF Right, Wrap
<1>4. ~jump[p] /\ curY[p] = Ground /\ curY[o] = Ground
  BY <1>1, <1>2 DEF JumpInv, Grounded, Rising, Cresting, Falling
<1>5. CASE KnockedBack(p)
  <2>1. curX[p] + Step < RightWall /\ dir[p] \in {0, 1}
    BY <1>5 DEF KnockedBack, TypeOK
  <2> QED
    BY <1>2, <1>5, <2>1 DEF FootStep, next_curX, Wrap
<1>6. CASE ~KnockedBack(p) /\ Near(p)
  <2>1. FromLeft(p) \/ FromRight(p)
    BY <1>2, <1>3, <1>6 DEF Near, FromLeft, FromRight
  <2>2. Pushes(p)
    BY <1>2, <1>4, <2>1 DEF Pushes
  <2>3. PushedLeft(p) <=> curX[p] < curX[o]
    BY <1>2, <1>3, <2>1 DEF PushedLeft, FromLeft, FromRight
  <2> QED
    BY <1>2, <1>3, <1>6, <2>2, <2>3 DEF FootStep, next_curX, Wrap
<1>7. CASE ~KnockedBack(p) /\ ~Near(p)
  <2>1. ~Pushes(p)
    BY <1>2, <1>3, <1>7 DEF Near, Pushes, FromLeft, FromRight
  <2>2. x_motion[p] \in {-Step, 0, Step}
    BY DEF TypeOK
  <2>3. next_curX(p) = curX[p] + x_motion[p]
    BY <1>2, <1>7, <2>1, <2>2 DEF next_curX, Wrap
  <2> QED
    BY <1>2, <1>7, <2>2, <2>3 DEF FootStep
<1> QED
  BY <1>5, <1>6, <1>7

LEMMA NoPassingFrame ==
  ASSUME TypeOK, JumpInv, OnItsFeet(0), OnItsFeet(1), curX[0] # curX[1], ~KnockedThrough,
         \A p \in Player : FootStep(p, curX'[p]) \/ curX'[p] = curX[p]
  PROVE  (curX[0] < curX[1] <=> curX'[0] < curX'[1]) /\ curX'[0] # curX'[1]
<1> USE HorizontalAssumption, ArenaAssumption
<1>1. SUFFICES ASSUME NEW p \in Player, NEW o \in Player, o = Other(p), p = Other(o), curX[p] < curX[o]
               PROVE  curX'[p] < curX'[o]
  <2>1. ASSUME curX[0] < curX[1] PROVE curX'[0] < curX'[1]
    BY <1>1, <2>1 DEF Other
  <2>2. ASSUME curX[1] < curX[0] PROVE curX'[1] < curX'[0]
    BY <1>1, <2>2 DEF Other
  <2>3. curX[0] \in Int /\ curX[1] \in Int
    BY DEF TypeOK
  <2>4. curX'[0] \in Int /\ curX'[1] \in Int
    BY <2>3 DEF FootStep, Near, Other
  <2> QED
    BY <2>1, <2>2, <2>3, <2>4
<1>2. curX[p] \in Int /\ curX[o] \in Int /\ dir[p] \in {0, 1} /\ dir[o] \in {0, 1}
  BY DEF TypeOK
<1>3. ~KnockedThrough => 
        /\ ~(KnockedTowards(p) /\ KnockedTowards(o))
        /\ KnockedTowards(p) => curX'[o] # curX[o]
        /\ KnockedTowards(o) => curX'[p] # curX[p]
  BY <1>1 DEF KnockedThrough
<1>4. /\ KnockedTowards(p) <=> KnockedBack(p) /\ dir[p] = 1
      /\ KnockedTowards(o) <=> KnockedBack(o) /\ dir[o] = 0
  BY <1>1, <1>2 DEF KnockedTowards
<1>5. Near(p) <=> curX[o] < curX[p] + Standing
  BY <1>1, <1>2 DEF Near
<1>6. Near(o) <=> curX[o] < curX[p] + Standing
  BY <1>1, <1>2 DEF Near
<1>7. /\ FootStep(p, curX'[p]) \/ curX'[p] = curX[p]
      /\ FootStep(o, curX'[o]) \/ curX'[o] = curX[o]
  OBVIOUS
<1> QED
  BY <1>1, <1>2, <1>3, <1>4, <1>5, <1>6, <1>7 DEF FootStep

(* Away from the walls two fighters on their feet keep their sides, unless *)
(* they are knocked through each other.                                    *)
THEOREM NobodyPasses == Spec => NoPassing
<1>1. ASSUME TypeOK, JumpInv, [Next]_vars, OnItsFeet(0), OnItsFeet(1), curX[0] # curX[1],
             curX' # StartX, ~KnockedThrough
      PROVE  (curX[0] < curX[1] <=> curX'[0] < curX'[1]) /\ curX'[0] # curX'[1]
  <2>1. ASSUME NEW ks \in Reports, NEW ai \in AIBytes, NEW mode \in Modes, Frame(ks, ai, mode)
        PROVE  \A p \in Player : FootStep(p, curX'[p]) \/ curX'[p] = curX[p]
    <3>1. PICK key, fights : BoxFrame(fights, key)
      BY <2>1 DEF Frame
    <3>2. \A p \in Player : curX'[p] = next_curX(p) \/ curX'[p] = curX[p]
      BY <3>1 DEF BoxFrame
    <3> QED
      BY <1>1, <3>2, FootStepTaken
  <2>2. CASE Reset
    BY <1>1, <2>2 DEF Reset, BoxReset
  <2>3. CASE UNCHANGED vars
    BY <1>1, <2>3 DEF vars, boxVars
  <2> QED
    BY <1>1, <2>1, <2>2, <2>3, NoPassingFrame DEF Next
<1>2. TypeOK /\ JumpInv /\ [Next]_vars
        => [ /\ OnItsFeet(0) /\ OnItsFeet(1) /\ curX[0] # curX[1]
             /\ curX' # StartX /\ ~KnockedThrough
             => /\ curX[0] < curX[1] <=> curX'[0] < curX'[1]
                /\ curX'[0] # curX'[1] ]_vars
  BY <1>1
<1> QED
  BY <1>2, TypeCorrect, JumpSafe, PTL DEF Spec, NoPassing

-----------------------------------------------------------------------------
(* A jump comes down.  What is left of it, in frames: the way up to the    *)
(* highest turn and down again, or the way down.                           *)
ToGo(p) == IF jump[p] THEN 2 * TurnTop + 1 - Steps(p) ELSE Steps(p)

Aloft(p, n) == in_air[p] /\ ~p_lose(p) /\ ToGo(p) = n
Down(p)     == ~in_air[p] \/ p_lose(p)

(* While p is in the air the frames of its match go on: what the fairness  *)
(* of FairSpec comes to where the reports have no restart key and the mode *)
(* is one in which a match is played.                                      *)
PlayFrame(p) ==
  \E ks \in Reports, ai \in AIBytes, mode \in Modes :
    Fights(p, ks, ai, mode) /\ Frame(ks, ai, mode)
PlayGoesOn(p) == []<>Down(p) \/ []<><<PlayFrame(p)>>_vars

LEMMA ByFives == ASSUME NEW d \in Int, d % 5 = 0 PROVE d = 5 * (d \div 5)
OBVIOUS

(* The heights are whole steps, as the abstract jump counts them.          *)
WholeSteps ==
  \A p \in Player : Steps(p) \in 0..TurnTop /\ curY[p] = Ground - Rise * Steps(p)

LEMMA WholeStepsAlways == Spec => []WholeSteps
<1>1. TypeOK /\ JumpInv => WholeSteps
  <2> SUFFICES ASSUME TypeOK, JumpInv, NEW p \in Player
               PROVE  Steps(p) \in 0..TurnTop /\ curY[p] = Ground - Rise * Steps(p)
    BY DEF WholeSteps
  <2> USE VerticalAssumption, HorizontalAssumption
  <2>1. curY[p] \in Int /\ JumpPhase(p)
    BY DEF TypeOK, JumpInv, JumpPhase
  <2>2. Ground - curY[p] = Rise * Steps(p)
    BY <2>1, ByFives DEF JumpPhase, OnLattice, Steps
  <2>3. curY[p] \in (Apex - 3 * Rise + 1)..Ground
    BY <2>1 DEF JumpPhase, Grounded, Rising, Cresting, Falling
  <2>4. Steps(p) \in Int /\ TurnLow \in Int /\ 5 * TurnLow + 5 > Ground - Apex /\ TurnLow >= 0
    BY <2>1 DEF Steps, TurnLow
  <2>5. Steps(p) >= 0 /\ Steps(p) <= TurnLow + 3 /\ TurnTop = TurnLow + 3
    BY <2>1, <2>2, <2>3, <2>4 DEF TurnTop
  <2> QED
    BY <2>1, <2>2, <2>4, <2>5
<1> QED
  BY <1>1, TypeCorrect, JumpSafe, PTL

(* Every step of a jump brings it nearer to its end, and every change of   *)
(* height is one.                                                          *)
LEMMA ToGoLess ==
  ASSUME NEW p \in Player, WholeSteps, WholeSteps', in_air[p], in_air'[p], JumpMove(p)
  PROVE  /\ ToGo(p) \in Nat
         /\ ToGo(p)' = ToGo(p) \/ ToGo(p)' \in 0..(ToGo(p) - 1)
         /\ curY'[p] # curY[p] => ToGo(p)' \in 0..(ToGo(p) - 1)
<1>1. Steps(p) \in 0..TurnTop /\ Steps(p)' \in 0..TurnTop /\ TurnTop \in Int
  BY VerticalAssumption DEF WholeSteps, TurnTop, TurnLow
<1>2. curY'[p] # curY[p] => Steps(p)' # Steps(p)
  BY DEF WholeSteps
<1>3. Steps(p)' # Steps(p) => \/ jump[p] /\ Steps(p)' = Steps(p) + 1
                              \/ ~jump[p] /\ Steps(p)' = Steps(p) - 1
  BY <1>1 DEF JumpMove, Phase
<1>4. ~jump[p] => ~jump'[p]
  BY DEF JumpMove, Phase
<1> QED
  BY <1>1, <1>2, <1>3, <1>4 DEF ToGo

LEMMA PlayFrameMoves ==
  ASSUME NEW p \in Player, TypeOK, JumpInv, in_air[p], ~p_lose(p), PlayFrame(p)
  PROVE  curY'[p] # curY[p]
<1> USE VerticalAssumption, HorizontalAssumption
<1>1. PICK ks \in Reports, ai \in AIBytes, mode \in Modes :
        Fights(p, ks, ai, mode) /\ Frame(ks, ai, mode)
  BY DEF PlayFrame
<1>2. PICK key : BoxFrame([q \in Player |-> Fights(q, ks, ai, mode)], key)
  BY <1>1 DEF Frame
<1>3. curY'[p] = next_curY(p)
  BY <1>1, <1>2 DEF BoxFrame, Acts
<1>4. curY[p] \in 0..(Width - 1) /\ y_motion[p] \in {-Rise, Rise}
  BY DEF TypeOK, JumpInv, Grounded, Rising, Cresting, Falling
<1> QED
  BY <1>3, <1>4 DEF next_curY, Wrap

(* ComesDown, frame by frame: from the air with n frames to go a fighter   *)
(* comes down, or is beaten, or gets to where fewer are to go.  (That this *)
(* ends is an induction over n, which is left to TLC.)                     *)
THEOREM LowerAndLower ==
  ASSUME NEW p \in Player, NEW n \in Nat
  PROVE  Spec /\ PlayGoesOn(p) =>
           (Aloft(p, n) ~> Down(p) \/ \E m \in 0..(n - 1) : Aloft(p, m))
<1> DEFINE Lower == \E m \in 0..(n - 1) : Aloft(p, m)
<1> DEFINE Inv == TypeOK /\ JumpInv /\ WholeSteps
<1>1. Inv /\ [Next]_vars /\ Inv' /\ Aloft(p, n) => Aloft(p, n)' \/ Down(p)' \/ Lower'
  BY JumpMoves, ToGoLess DEF Aloft, Down
<1>2. Inv /\ <<PlayFrame(p)>>_vars /\ Inv' /\ Aloft(p, n) => Down(p)' \/ Lower'
  <2>1. PlayFrame(p) => Next
    BY DEF PlayFrame, Next
  <2> QED
    BY <2>1, JumpMoves, ToGoLess, PlayFrameMoves DEF Aloft, Down
<1>3. Spec => []Inv
  BY TypeCorrect, JumpSafe, WholeStepsAlways, PTL
<1> QED
  BY <1>1, <1>2, <1>3, PTL DEF Spec, PlayGoesOn
=============================================================================
