SPECIFICATION PipelineSpec
CONSTANTS
  s6 = s6
  s7 = s7
  Categories = {s6, s7}
  Ignored = {s6}
  Answers <- MCAnswers
  Conversations <- MCConversations
  Prompts <- MCPrompts
  FlagSettings <- MCFlags
INVARIANTS
  ToldOnce
  NothingRaw
  ScreenedIsSent
  FailClosed
  ConversationKept
  DeliveredIsValid
  CheapRefusals
