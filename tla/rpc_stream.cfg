SPECIFICATION FairSpec
CONSTANTS
  kFrameSize = 2
  kBufferSize = 6
  kMaxFrameSize = 6
  Sessions <- StreamSessions
INVARIANTS TypeOK ExecutedOnce OwnReply
PROPERTIES ImplementsCalls CallsAndConnectionsEnd
