SPECIFICATION FairRoutingSpec
CONSTANTS
  a1 = a1
  a2 = a2
  b1 = b1
  embed = embed
  Models = {a1, a2, b1, embed}
  Provider <- MCProvider
  Name <- MCName
  Listing <- MCListing
  Allowed <- MCAllowed
  ChatModels = {a1, a2, b1}
  Weak = {}
  CacheOn = TRUE
  None = None
  chat = chat
  status = status
  Calls = {chat, status}
  Chats = {chat}
  Setups <- MCSetups
  Request <- MCRequest
  Threads = {t1, t2}
  TTL = 1
  MaxVersion = 2
INVARIANTS
  OfferedTogether
  ToldWhoAnswered
  CacheOfRouter
PROPERTIES
  NeverOlder
  CatchesUp
