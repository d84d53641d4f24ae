CONSTANTS
  MaxTurns = 2
  MaxDeltas = 2
  MaxReports = 1
SPECIFICATION Spec
INVARIANT AnswerAppears
