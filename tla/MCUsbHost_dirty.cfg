SPECIFICATION UsbHostSpec
CONSTANTS
  USB_NUMDEVICES = 3
  Settle = 1
  MsWrap = 3
  Kinds <- AllKinds
INVARIANT DetachedIsClean
