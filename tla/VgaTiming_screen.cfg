SPECIFICATION FairVga
CONSTANTS
  hpixels = 15
  vlines = 12
  HVisible = 11
  VVisible = 7
  HSyncFirst = 12
  HSyncEnd = 14
  VSyncLine = 9
INVARIANT VgaTypeOK
INVARIANT SyncInBlank
PROPERTY TickInBlank
PROPERTY OneTickPerPicture
PROPERTY TicksForever
