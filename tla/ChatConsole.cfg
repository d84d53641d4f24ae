CONSTANTS
  MaxTurns = 2
  MaxDeltas = 2
  MaxReports = 1
SPECIFICATION FairSpec
INVARIANTS Reassembled TranscriptHonest StaysInConversation ShownAsSent
PROPERTY BusyEnds
