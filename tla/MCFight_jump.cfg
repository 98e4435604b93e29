SPECIFICATION FairSpec
CONSTANTS
  PoseFrames = 1
  MaxHealth = 1
  Width = 48
  LeftWall = 6
  RightWall = 12
  StartX <- NarrowStart
  Ground = 25
  Apex = 17
  Standing = 9
  Striking = 12
  Lying = 15
  Height = 12
  Reports <- AirReports
  AIBytes <- OnlyNoKey
  Modes <- TwoPlayers
INVARIANT JumpInv
PROPERTY ClinchHolds
PROPERTY JumpSpec0
PROPERTY ComesDown
