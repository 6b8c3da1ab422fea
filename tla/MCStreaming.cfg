SPECIFICATION FairSpec
CONSTANTS
  Setups <- MCSetups
  MaxReplies = 2
  Window = 1
INVARIANTS
  FaithfulStream
  FaithfulReply
  HalfCloseMeansEnd
PROPERTIES
  ConversationEnds
  LeaverReleased
CHECK_DEADLOCK FALSE
