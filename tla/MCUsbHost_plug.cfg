SPECIFICATION FairUsbHost
CONSTANTS
  USB_NUMDEVICES = 3
  Settle = 1
  MsWrap = 3
  Kinds <- AllKinds
INVARIANT UsbTypeOK
INVARIANT StateKnown
INVARIANT DriverReady
INVARIANT PollsWhatItIs
INVARIANT AskedAfterReset
PROPERTY EnumerationEnds
PROPERTY UnplugNoticed
