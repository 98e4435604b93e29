------------------------------ MODULE MCFight -------------------------------
(***************************************************************************)
(* Small instances of Fight for TLC.  The arena is scaled down so that the *)
(* relations that matter keep their sense: a body is wider than two steps, *)
(* a blow reaches further than a body, the walls are a few steps apart, a  *)
(* jump clears a body and a wrapped position is far from the arena.        *)
(***************************************************************************)
EXTENDS Fight, TLC

(* A report with one key of each player, player 1's in the low byte.       *)
Report(a, b) == (0 :> a) @@ (1 :> b) @@ (2 :> NoKey) @@ (3 :> NoKey)

mc_StartX == (0 :> 6) @@ (1 :> 30)

KeyUp    == P2Aliases[1]
KeyDown  == P2Aliases[2]
KeyRight == P2Aliases[3]
KeyLeft  == P2Aliases[4]
KeyGt    == P2Aliases[5]
KeyQuery == P2Aliases[6]

BrawlReports ==
  {Report(a, b) : a \in {NoKey, KeyD, KeyP, KeyR}, b \in {NoKey, KeyLeft, KeyQuery}}

JumpReports ==
  {Report(a, b) : a \in {NoKey, KeyW, KeyD}, b \in {NoKey, KeyUp, KeyLeft}}

(* The same, and a blow of player 1 while player 2 presses nothing.        *)
AirReports == JumpReports \cup {Report(KeyP, NoKey)}

LandReports ==
  {Report(a, b) : a \in {NoKey, KeyW, KeyD, KeyP}, b \in {NoKey, KeyUp, KeyQuery}}

SoloReports == {Report(a, NoKey) : a \in {NoKey, KeyS, KeyR}}
SoloBytes   == {NoKey, KeyA, KeyD, KeyS, KeyW, KeyK, KeyP}
AllModes    == {Title, OnePlayer, TwoPlayer}

(* An arena so narrow that the fighters are within reach from the start.   *)
NarrowStart == (0 :> 6) @@ (1 :> 18)

OnlyNoKey == {NoKey}
TwoPlayers == {TwoPlayer}
=============================================================================
