SPECIFICATION FairTransfer
CONSTANTS
  USB_NAK_LIMIT = 3
  USB_RETRY_LIMIT = 3
  Packets = 3
  Reports = 4
INVARIANT TransferTypeOK
INVARIANT ReportOnce
INVARIANT RequestWhole
INVARIANT DropsOnlyCopies
PROPERTY ReportsArrive
