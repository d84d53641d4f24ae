---------------------------- MODULE SharedBudget ----------------------------
(***************************************************************************)
(* BudgetRuntime (app/infrastructure/budget.py) in several gateway         *)
(* processes that share one Redis and, when they cannot reach it, one      *)
(* ledger file.                                                            *)
(*                                                                         *)
(* Every budget call asks RedisHealth first, which remembers its one probe *)
(* for the life of the process, and then pings.  On Redis, reserving is    *)
(* one Lua script and settling one pipeline per bucket; an exception in    *)
(* any of them sends the whole change to the file, also when Redis had     *)
(* carried it out and only the reply was lost.  On the file, `_lock`       *)
(* covers loading and saving inside one process and not between two.       *)
(*                                                                         *)
(* One meter (tokens) stands for tokens and dollars: no call on Redis      *)
(* treats them differently once the caps are passed.  A process runs one   *)
(* budget call at a time; threads of one process interleave like processes *)
(* do, but for the file, which BudgetLedger covers.                        *)
(***************************************************************************)
EXTENDS Integers, FiniteSets

CONSTANTS
    Workers,        \* the gateway processes
    Keys, Global,   \* the accounts: identities, and the whole gateway
    Rids,           \* reservation ids
    Cap,            \* account -> daily cap, NoCap where none is set
    Requests,       \* the reserve calls: who, and the estimate to charge
    Uses,           \* the usages a provider may report
    MaxDay,         \* bound: last day
    MaxOutages,     \* bound: times Redis becomes unreachable
    MaxFaults       \* bound: lost replies and crashes

Accounts == Keys \cup {Global}
NoCap    == -1
Request  == [who : Accounts, charge : Nat]

ASSUME SharedAssumption ==
    /\ Global \notin Keys
    /\ Cap \in [Accounts -> Int]
    /\ Requests \subseteq Request
    /\ Uses \subseteq Nat
    /\ MaxDay \in Nat \ {0} /\ MaxOutages \in Nat /\ MaxFaults \in Nat

VARIABLES
    today,
    redisUp,        \* Redis answers
    health,         \* worker -> what RedisHealth remembers: unknown, up, down
    redis,          \* day -> account -> the hash field, which may go negative
    file,           \* budget-state.json
    reservations,   \* rid -> [worker, who, held, day]; only worker knows it
    job,            \* worker -> the budget call it is in the middle of
    issued,
    outages, faults,
    \* History variables, on today's books.
    charged,        \* usage booked
    over,           \* increases beyond an estimate, wherever applied
    stray           \* taken off for another day or twice, or overwritten

bookkeeping == <<charged, over, stray>>
vars == <<today, redisUp, health, redis, file, reservations, job, issued,
          outages, faults, charged, over, stray>>

-----------------------------------------------------------------------------
Books(who)     == {Global, who}
FloorAtZero(n) == IF n < 0 THEN 0 ELSE n
Empty          == [a \in Accounts |-> 0]
NoDraft        == [day |-> 0, spent |-> Empty]
With(f, x, e)  == [y \in DOMAIN f \cup {x} |-> IF y = x THEN e ELSE f[y]]
Without(f, x)  == [y \in DOMAIN f \ {x} |-> f[y]]

\* add n to the accounts in some
Add(book, some, n) == [a \in Accounts |-> IF a \in some THEN book[a] + n ELSE book[a]]

\* Mutant: the identity's bucket is forgotten.
BumpGlobalOnly(spent, who, n) ==
    [a \in Accounts |-> IF a = Global THEN FloorAtZero(spent[a] + n) ELSE spent[a]]

\* _bump_file_state clamps, hincrby does not.
Bump(spent, who, n) ==
    [a \in Accounts |-> IF a \in Books(who) THEN FloorAtZero(spent[a] + n)
                                           ELSE spent[a]]

\* _load_file_state: a file of another day counts for nothing.
Load(day) == IF file.day = day THEN file.spent ELSE Empty

\* Mutant: the identity's bucket is not checked.
CapsAllowGlobal(spent, who, charge) ==
    Cap[Global] > NoCap => spent[Global] + charge <= Cap[Global]

\* `over` in the Lua script, and _reject_caps
CapsAllow(spent, who, charge) ==
    \A a \in Books(who) : Cap[a] > NoCap => spent[a] + charge <= Cap[a]

-----------------------------------------------------------------------------
(* What is booked for calls that have not settled: each unit held is a     *)
(* pair <<holder, number>>, so that a sum is the cardinality of a set.     *)

Units(f, S) == UNION {{x} \X (1 .. f[x].held) : x \in S}

Booked(e, a, day) == e.day = day /\ a \in Books(e.who)

Reserved(f, a, day) == Units(f, {r \in DOMAIN f : Booked(f[r], a, day)})

\* a settlement's effect on an account that still counts the estimate as held
Pending(j, a, day) == j.call = "settle" /\ Booked(j, a, day) /\ a \notin j.applied

ToSettle(f, a, day) == Units(f, {w \in DOMAIN f : Pending(f[w], a, day)})

Outstanding(a) == Cardinality(Reserved(reservations, a, today))
                    + Cardinality(ToSettle(job, a, today))

-----------------------------------------------------------------------------
Init ==
    /\ today = 1
    /\ redisUp \in BOOLEAN
    /\ health = [w \in Workers |-> "unknown"]
    /\ redis = [d \in 1 .. MaxDay |-> Empty]
    /\ file = NoDraft
    /\ reservations = <<>>
    /\ job = <<>>
    /\ issued = {}
    /\ outages = 0 /\ faults = 0
    /\ charged = Empty /\ over = Empty /\ stray = Empty

Idle(w) == w \notin DOMAIN job
At(w, place) == w \in DOMAIN job /\ job[w].at = place

\* RedisHealth.reachable: the first probe is remembered.
Probed(w) == IF health[w] # "unknown" THEN health[w]
             ELSE IF redisUp THEN "up" ELSE "down"

\* _get_redis: remembered as reachable, and the ping answers.
Entry(w) == IF Probed(w) = "up" /\ redisUp THEN "redis" ELSE "load"

Fault == faults < MaxFaults /\ faults' = faults + 1

-----------------------------------------------------------------------------
(* Starting a budget call.                                                 *)

StartReserve(w, r, q) ==
    /\ Idle(w) /\ r \notin issued
    /\ health' = [health EXCEPT ![w] = Probed(w)]
    /\ issued' = issued \cup {r}
    /\ job' = With(job, w, [call |-> "reserve", at |-> Entry(w), rid |-> r,
                            who |-> q.who, held |-> q.charge, used |-> 0,
                            day |-> today, applied |-> {}, draft |-> NoDraft])
    /\ UNCHANGED <<today, redisUp, redis, file, reservations, outages, faults>>
    /\ UNCHANGED bookkeeping

(* record_usage, or release (nothing was used): pop the reservation, then  *)
(* _apply_delta.  A zero change ends here.                                 *)
StartSettle(w, r, used) ==
    /\ Idle(w)
    /\ r \in DOMAIN reservations /\ reservations[r].worker = w
    /\ reservations' = Without(reservations, r)
    /\ LET e == reservations[r] IN
       IF used = e.held
       THEN /\ charged' = Add(charged, Books(e.who), used)
            /\ stray' = Add(stray, Books(e.who), IF e.day = today THEN 0 ELSE used)
            /\ UNCHANGED <<health, job, over>>
       ELSE /\ health' = [health EXCEPT ![w] = Probed(w)]
            /\ job' = With(job, w, [call |-> "settle", at |-> Entry(w), rid |-> r,
                                    who |-> e.who, held |-> e.held, used |-> used,
                                    day |-> e.day, applied |-> {}, draft |-> NoDraft])
            /\ UNCHANGED bookkeeping
    /\ UNCHANGED <<today, redisUp, redis, file, issued, outages, faults>>

(* record_usage without a reservation, for the guard's and the memory      *)
(* extractor's calls.  It uses up an id, which bounds their number.        *)
StartBill(w, r, who, used) ==
    /\ Idle(w) /\ r \notin issued /\ used # 0
    /\ issued' = issued \cup {r}
    /\ health' = [health EXCEPT ![w] = Probed(w)]
    /\ job' = With(job, w, [call |-> "settle", at |-> Entry(w), rid |-> r,
                            who |-> who, held |-> 0, used |-> used, day |-> today,
                            applied |-> {}, draft |-> NoDraft])
    /\ UNCHANGED <<today, redisUp, redis, file, reservations, outages, faults>>
    /\ UNCHANGED bookkeeping

Finish(w) == job' = Without(job, w)
Fallback(w) == job' = [job EXCEPT ![w].at = "load"]

\* _store_reservation, dated by the day the estimate was booked on
Store(w, day) ==
    reservations' = With(reservations, job[w].rid,
                         [worker |-> w, who |-> job[w].who,
                          held |-> job[w].held, day |-> day])

-----------------------------------------------------------------------------
(* Reserving on Redis.                                                     *)

OnRedis(some, n) == redis' = [redis EXCEPT ![today] = Add(@, some, n)]

\* The Lua script checks every cap and books, as one command.
RedisReserve(w) ==
    LET j == job[w]
        allowed == CapsAllow(redis[today], j.who, j.held)
    IN  /\ At(w, "redis") /\ j.call = "reserve" /\ redisUp
        /\ \/ /\ allowed
              /\ OnRedis(Books(j.who), j.held)
              /\ \/ Store(w, today) /\ Finish(w) /\ UNCHANGED faults
                 \/ Fault /\ Fallback(w) /\ UNCHANGED reservations \* reply lost
           \/ /\ ~allowed
              /\ \/ Finish(w) /\ UNCHANGED faults
                 \/ Fault /\ Fallback(w)
              /\ UNCHANGED <<redis, reservations>>
        /\ UNCHANGED <<today, redisUp, health, file, issued, outages>>
        /\ UNCHANGED bookkeeping

-----------------------------------------------------------------------------
(* Settling on Redis: one pipeline for the global bucket, one for the key. *)

\* What the auditor notes when account a of job j is settled today.
Settled(j, some) ==
    LET fresh == some \ j.applied IN
    /\ charged' = Add(charged, fresh, j.used)
    /\ over' = Add(over, some, FloorAtZero(j.used - j.held))
    /\ stray' = Add(stray, fresh, IF j.day = today THEN 0 ELSE j.held)

Pipeline(w, from, some, to) ==
    LET j == job[w] IN
    /\ At(w, from) /\ j.call = "settle" /\ redisUp
    /\ OnRedis(some, j.used - j.held)
    /\ Settled(j, some)
    /\ \/ to = "done" /\ Finish(w) /\ UNCHANGED faults
       \/ /\ to # "done"
          /\ job' = [job EXCEPT ![w].at = to, ![w].applied = @ \cup some]
          /\ UNCHANGED faults
       \/ /\ Fault                                              \* reply lost
          /\ job' = [job EXCEPT ![w].at = "load", ![w].applied = @ \cup some]
    /\ UNCHANGED <<today, redisUp, health, file, reservations, issued, outages>>

\* Mutant: no second pipeline.
SettleGlobalOnly(w) == Pipeline(w, "redis", {Global}, "done")

SettleGlobal(w) ==
    Pipeline(w, "redis", {Global}, IF job[w].who = Global THEN "done" ELSE "redis key")

SettleKey(w) == Pipeline(w, "redis key", {job[w].who}, "done")

\* Redis went away after the ping: the exception leads to the file.
RedisFails(w) ==
    /\ \E place \in {"redis", "redis key"} : At(w, place)
    /\ ~redisUp
    /\ Fallback(w)
    /\ UNCHANGED <<today, redisUp, health, redis, file, reservations, issued,
                   outages, faults>>
    /\ UNCHANGED bookkeeping

-----------------------------------------------------------------------------
(* The file, under the lock of one process.                                *)

\* _load_file_state; reserve then checks the caps.
FileLoad(w) ==
    /\ At(w, "load")
    /\ \/ /\ job[w].call = "reserve"
          /\ ~CapsAllow(Load(today), job[w].who, job[w].held)
          /\ Finish(w)
       \/ /\ job[w].call = "reserve" => CapsAllow(Load(today), job[w].who, job[w].held)
          /\ job' = [job EXCEPT ![w].at = "save",
                                ![w].draft = [day |-> today, spent |-> Load(today)]]
    /\ UNCHANGED <<today, redisUp, health, redis, file, reservations, issued,
                   outages, faults>>
    /\ UNCHANGED bookkeeping

\* What another process wrote since the load, or after midnight, is lost.
Overwritten(draft) ==
    [a \in Accounts |-> FloorAtZero(Load(today)[a] - (IF draft.day = today
                                                     THEN draft.spent[a] ELSE 0))]

\* _bump_file_state and _save_file_state
FileSave(w) ==
    LET j     == job[w]
        d     == j.draft
        fresh == IF d.day = today THEN Books(j.who) \ j.applied ELSE {}
        late  == IF j.day = today THEN 0 ELSE j.held
        twice == IF d.day = today THEN Books(j.who) \cap j.applied ELSE {}
        lost  == [a \in Accounts |-> stray[a] + Overwritten(d)[a]]
    IN  /\ At(w, "save")
        /\ \/ /\ j.call = "reserve"
              /\ file' = [day |-> d.day, spent |-> Bump(d.spent, j.who, j.held)]
              /\ Store(w, d.day)
              /\ stray' = lost
              /\ UNCHANGED <<charged, over>>
           \/ /\ j.call = "settle"
              /\ file' = [day   |-> d.day,
                          spent |-> Bump(d.spent, j.who, j.used - j.held)]
              /\ charged' = Add(charged, fresh, j.used)
              /\ over' = Add(over, IF d.day = today THEN Books(j.who) ELSE {},
                             FloorAtZero(j.used - j.held))
              /\ stray' = Add(Add(lost, fresh, late),
                              twice, FloorAtZero(j.held - j.used))
              /\ UNCHANGED reservations
        /\ Finish(w)
        /\ UNCHANGED <<today, redisUp, health, redis, issued, outages, faults>>

-----------------------------------------------------------------------------
(* The rest of the world.                                                  *)

\* GET /ready, and start: both look at RedisHealth.
Probe(w) ==
    /\ health[w] # Probed(w)
    /\ health' = [health EXCEPT ![w] = Probed(w)]
    /\ UNCHANGED <<today, redisUp, redis, file, reservations, job, issued,
                   outages, faults>>
    /\ UNCHANGED bookkeeping

Outage ==
    /\ redisUp /\ outages < MaxOutages
    /\ redisUp' = FALSE
    /\ outages' = outages + 1
    /\ UNCHANGED <<today, health, redis, file, reservations, job, issued, faults>>
    /\ UNCHANGED bookkeeping

Recover ==
    /\ ~redisUp
    /\ redisUp' = TRUE
    /\ UNCHANGED <<today, health, redis, file, reservations, job, issued,
                   outages, faults>>
    /\ UNCHANGED bookkeeping

\* A process dies and starts anew: its estimates stay on the books.
Crash(w) ==
    /\ Fault
    /\ job' = Without(job, w)
    /\ reservations' = [r \in {x \in DOMAIN reservations : reservations[x].worker # w}
                          |-> reservations[r]]
    /\ health' = [health EXCEPT ![w] = "unknown"]
    /\ UNCHANGED <<today, redisUp, redis, file, issued, outages>>
    /\ UNCHANGED bookkeeping

Midnight ==
    /\ today < MaxDay
    /\ today' = today + 1
    /\ charged' = Empty /\ over' = Empty /\ stray' = Empty
    /\ UNCHANGED <<redisUp, health, redis, file, reservations, job, issued,
                   outages, faults>>

Call(w) ==
    \/ \E r \in Rids, q \in Requests : StartReserve(w, r, q)
    \/ \E r \in Rids, used \in Uses \cup {0} : StartSettle(w, r, used)
    \/ \E r \in Rids, who \in Accounts, used \in Uses : StartBill(w, r, who, used)

Next ==
    \/ \E w \in Workers :
          \/ Call(w) \/ RedisReserve(w) \/ SettleGlobal(w) \/ SettleKey(w)
          \/ RedisFails(w) \/ FileLoad(w) \/ FileSave(w) \/ Probe(w) \/ Crash(w)
    \/ Outage \/ Recover \/ Midnight

Spec == Init /\ [][Next]_vars

-----------------------------------------------------------------------------
Ledger == [day : Nat, spent : [Accounts -> Nat]]

Reservation == [worker : Workers, who : Accounts, held : Nat, day : Nat]

Job == [call : {"reserve", "settle"}, at : {"redis", "redis key", "load", "save"},
        rid : Rids, who : Accounts, held : Nat, used : Nat, day : Nat,
        applied : SUBSET Accounts, draft : Ledger]

(* The type invariant: the file never shows a negative sum, a job reaches  *)
(* the second pipeline only for a key.                                     *)
TypeOK ==
    /\ today \in 1 .. MaxDay /\ redisUp \in BOOLEAN
    /\ health \in [Workers -> {"unknown", "up", "down"}]
    /\ redis \in [1 .. MaxDay -> [Accounts -> Int]]
    /\ file \in Ledger
    /\ DOMAIN reservations \subseteq issued /\ issued \subseteq Rids
    /\ reservations \in [DOMAIN reservations -> Reservation]
    /\ DOMAIN job \subseteq Workers
    /\ job \in [DOMAIN job -> Job]
    /\ \A w \in DOMAIN job : job[w].at = "redis key" => job[w].who \in Keys
    /\ charged \in [Accounts -> Nat] /\ over \in [Accounts -> Nat]
    /\ stray \in [Accounts -> Nat]

Owed(a)  == charged[a] + Outstanding(a)
Total(a) == redis[today][a] + Load(today)[a]

(* The Lua script keeps every bucket of Redis within its cap, whichever    *)
(* processes reserve and settle at the same time: what lies above is usage *)
(* in excess of estimates.  And an outage gives every cap a second time,   *)
(* by the file, and not a third.                                           *)
CapTwiceAtMost ==
    /\ TypeOK
    /\ \A a \in Accounts : Cap[a] > NoCap =>
          /\ redis[today][a] <= Cap[a] + over[a]
          /\ Owed(a) <= 2 * Cap[a] + over[a] + stray[a]

(* While Redis has always answered and no process died, its buckets show   *)
(* exactly what was used today and what is still reserved, at every moment *)
(* between two pipelines as well.                                          *)
Calm == /\ redisUp /\ today = 1 /\ outages = 0 /\ faults = 0
        /\ \A w \in Workers : health[w] # "down"

ExactWhileCalm ==
    Calm => \A a \in Accounts : redis[today][a] = Owed(a)

(* However calls switch between Redis and the file, the two ledgers        *)
(* together never show less than was used and reserved, but for what was   *)
(* taken off for another day, given back on both ledgers after a failed    *)
(* pipeline, or overwritten in the file by another process.                *)
NoUndercount == \A a \in Accounts : Owed(a) <= Total(a) + stray[a]

(* What the reliability page says of release, that it subtracts the        *)
(* reservation: once, and not from Redis and from the file as well.        *)
RefundedOnce ==
    \A w \in DOMAIN job :
        At(w, "save") /\ job[w].call = "settle" /\ job[w].used < job[w].held
          => job[w].applied = {}
=============================================================================
