\* The three ports with a FIFO of two, four characters of text and three of
\* the firmware's, so that the FIFO fills and races are possible.
SPECIFICATION Spec
CONSTANTS
  Kinds = {"ns16550", "pl011", "sbi"}
  Depth = 2
  Text = 4
  MaxFirmware = 3
INVARIANTS
  TextInOrder
  LostOnlyToFirmware
  BaudRight
PROPERTIES
  AllPrinted
CHECK_DEADLOCK FALSE
