SPECIFICATION FairSpec
CONSTANTS
  anna = anna
  bert = bert
  record = record
  search = search
  delete = delete
  add = add
  f1 = f1
  f2 = f2
  Ops = {record, search, delete, add}
  Kind <- MCKind
  Caller <- MCCaller
  Target <- MCTarget
  Facts = {f1, f2}
  Nobody = nobody
  Pool = 2
  MaxCalls = 1
INVARIANTS
  BilledToCaller
  OneInstance
  DrainedForGood
PROPERTIES
  OnlyOwnerRemoves
  AllEnd
CHECK_DEADLOCK FALSE
