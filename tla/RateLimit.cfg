SPECIFICATION RateSpec
CONSTANTS
  Workers = {w1, w2}
  Redis = redis
  Limit = 2
  Window = 3
  MaxTime = 5
  MaxAsked = 5
INVARIANTS
  LocalSpan
  SharedSpan
