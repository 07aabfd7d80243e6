CONSTANTS
  BufferSize = 8
  HeaderSize = 2
  MaxLength = 7
  Lengths = {2, 5, 7}
  MaxMessages = 3
CHECK_DEADLOCK FALSE
SPECIFICATION FramingFairSpec
INVARIANTS
  RoomToRead
PROPERTIES
  QueueKept
  EveryMessageHandled
