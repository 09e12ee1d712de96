SPECIFICATION FramedSpec
CONSTANTS
  Base = 2
  HeaderSize = 2
  Message <- MCMessage
  Unreadable <- MCUnreadable
  MaxInFlight = 2
  MaxSent = 3
INVARIANTS
  FramingInv
PROPERTIES
  ImplementsChannel
  AllDelivered
CHECK_DEADLOCK FALSE
