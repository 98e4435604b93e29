SPECIFICATION Spec
CONSTANTS
  PoseFrames = 1
  MaxHealth = 1
  Width = 48
  LeftWall = 6
  RightWall = 24
  StartX <- mc_StartX
  Ground = 25
  Apex = 17
  Standing = 9
  Striking = 12
  Lying = 15
  Height = 12
  Reports <- SoloReports
  AIBytes <- SoloBytes
  Modes <- AllModes
INVARIANT StanceInv
