SPECIFICATION FairJtag
CONSTANTS
  Word = 3
  Second = 1
  BufLen = 3
  Depth = 1
  Threshold = 0
  Timeout = 2
  IntMax = 4
  Chars = 4
  Keys = 4
INVARIANT JtagTypeOK
INVARIANT AlarmOnTime
INVARIANT TxNotStuck
INVARIANT RxNotDeaf
PROPERTY TxInOrder
PROPERTY RxInOrder
PROPERTY WriteReturns
PROPERTY CharsArrive
