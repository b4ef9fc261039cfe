SPECIFICATION Spec
CONSTANTS
  Payload = {"a", "b"}
  max_frame_bytes = 2
  MaxStream = 7
  MaxForeign = 5
  MaxFrame = 3
INVARIANTS
  FramesAreLines
  LimitIsExact
  BufferBounded
  RoundTrip
PROPERTIES
  LinesArrive
