SPECIFICATION Spec
CONSTANTS
  kFrameSize = 2
  kBufferSize = 12
  kMaxFrameSize = 5
  Sessions <- OnewaySessions
INVARIANTS ExecutedOnce
