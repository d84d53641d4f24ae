---------------------------- MODULE BudgetLedger ----------------------------
(***************************************************************************)
(* The file ledger of BudgetRuntime (app/infrastructure/budget.py) in one  *)
(* gateway process without Redis.                                          *)
(*                                                                         *)
(* A request reserves its estimate before the provider is called and       *)
(* settles it afterwards: record_usage replaces the estimate by the actual *)
(* usage, release and a cached answer give it back.  Reserving is one      *)
(* section under `_lock`; settling is two (take the reservation out of the *)
(* dictionary, then read-modify-write the file), and other threads, a      *)
(* midnight or a crash may come in between.                                *)
(*                                                                         *)
(* The ledger has one bucket per account and meter.  The account Global is *)
(* the process-wide total; a call without identity books on Global alone,  *)
(* a call of a key on Global and on the key.                               *)
(***************************************************************************)
EXTENDS Integers, FiniteSets

CONSTANTS
    Keys,           \* identity ids that send requests
    Global,         \* the account of the whole gateway
    Rids,           \* reservation ids secrets.token_hex may draw
    Threads,        \* the event loop and the memory workers
    Cap,            \* Cap[<<account, meter>>], NoCap where no budget is set
    InputLimit,     \* MAX_INPUT_TOKENS
    Requests,       \* the reserve calls that may be made
    Uses,           \* the actual usages a provider may report
    MaxDay,         \* bound: last day
    MaxUnreserved,  \* bound: usages recorded without a reservation
    MaxFaults       \* bound: crashes and failing file accesses

Meters   == {"tokens", "usd"}
Accounts == Keys \cup {Global}
Buckets  == Accounts \X Meters
Amount   == [Meters -> Nat]
NoCap    == -1
Nothing  == [m \in Meters |-> 0]

\* priced: the model has a price, so that estimated_input_usd is not None
Request == [who : Accounts, charge : Amount, priced : BOOLEAN]

ASSUME ConstantsAssumption ==
    /\ Global \notin Keys
    /\ Cap \in [Buckets -> Int]
    /\ InputLimit \in Nat
    /\ Requests \subseteq Request
    /\ \A q \in Requests : ~q.priced => q.charge["usd"] = 0
    /\ Uses \subseteq Amount
    /\ MaxDay \in Nat /\ MaxUnreserved \in Nat /\ MaxFaults \in Nat

VARIABLES
    today,          \* the current UTC day
    file,           \* budget-state.json: the day it was written for, the sums
    reservations,   \* _reservations: rid -> what was added for it
    applying,       \* thread -> the change it took out and has yet to write
    issued,         \* rids handed out so far (ids never repeat)
    unreserved,     \* bound: usages recorded without a reservation so far
    faults,         \* bound: faults so far
    \* History variables: today's books as an auditor would keep them.
    charged,        \* usage settled today, written or not
    lost,           \* part of it that a failed write or a crash kept out
    overrun,        \* part written, in excess of the call's estimate
    leaked,         \* estimates of today nobody is left to give back
    stray           \* taken off today for another day, or lost by a bad read

code    == <<today, file, reservations, applying, issued>>
history == <<charged, lost, overrun, leaked, stray>>
vars    == <<today, file, reservations, applying, issued,
             unreserved, faults, charged, lost, overrun, leaked, stray>>

-----------------------------------------------------------------------------
(* The ledger file.                                                        *)

Books(who) == {Global, who}

FloorAtZero(n) == IF n < 0 THEN 0 ELSE n

EmptyLedger == [b \in Buckets |-> 0]

\* Mutant: the day of the file is not looked at.
LoadAnyDay(day) == file.spent

\* _load_file_state: a file of another day counts for nothing.
Load(day) == IF file.day = day THEN file.spent ELSE EmptyLedger

\* ... and neither does one that cannot be read.
Read(readable) == IF readable THEN Load(today) ELSE EmptyLedger

\* Mutant: no clamp at zero.
BumpUnclamped(ledger, who, delta) ==
    [b \in Buckets |-> IF b[1] \in Books(who) THEN ledger[b] + delta[b[2]]
                                              ELSE ledger[b]]

\* _bump_file_state: every bucket is clamped on its own.
Bump(ledger, who, delta) ==
    [b \in Buckets |-> IF b[1] \in Books(who)
                       THEN FloorAtZero(ledger[b] + delta[b[2]])
                       ELSE ledger[b]]

\* Mutant: only the gateway's caps are checked.
CapsAllowGlobal(ledger, q) ==
    \A m \in Meters :
        \/ Cap[<<Global, m>>] <= NoCap
        \/ m = "usd" /\ ~q.priced
        \/ ledger[<<Global, m>>] + q.charge[m] <= Cap[<<Global, m>>]

\* _reject_caps: no dollar check for a model without a price.
CapsAllow(ledger, q) ==
    \A a \in Books(q.who), m \in Meters :
        \/ Cap[<<a, m>>] <= NoCap
        \/ m = "usd" /\ ~q.priced
        \/ ledger[<<a, m>>] + q.charge[m] <= Cap[<<a, m>>]

\* The auditor's counterpart of Bump, for history variables.
Tally(tally, who, amount) ==
    [b \in Buckets |-> IF b[1] \in Books(who) THEN tally[b] + amount[b[2]]
                                              ELSE tally[b]]

-----------------------------------------------------------------------------
(* What is still booked today for calls that have not settled: each unit   *)
(* of an estimate is a pair <<holder, number>>, so that the sum over all   *)
(* holders is the cardinality of a set.                                    *)

Holds(e, b, day) == e.day = day /\ b[1] \in Books(e.who)

Units(f, b, day) ==
    UNION {{x} \X (1 .. f[x].held[b[2]]) :
             x \in {y \in DOMAIN f : Holds(f[y], b, day)}}

Outstanding(b) == Cardinality(Units(reservations, b, today))
                    + Cardinality(Units(applying, b, today))

\* The usage of the settlements under way, counted in the same manner.  It
\* belongs to the day on which the gateway comes to write it.
UnwrittenUnits(b) ==
    UNION {{t} \X (1 .. applying[t].used[b[2]]) :
             t \in {s \in DOMAIN applying : b[1] \in Books(applying[s].who)}}

Unwritten(b) == Cardinality(UnwrittenUnits(b))

Spent == Load(today)

\* What the day's books amount to: usage, and estimates not given back.
Owed(b) == charged[b] + leaked[b] + Outstanding(b)

-----------------------------------------------------------------------------
Init ==
    /\ today = 1
    /\ file = [day |-> 0, spent |-> EmptyLedger]
    /\ reservations = <<>>
    /\ applying = <<>>
    /\ issued = {}
    /\ unreserved = 0
    /\ faults = 0
    /\ charged = EmptyLedger
    /\ lost = EmptyLedger
    /\ overrun = EmptyLedger
    /\ leaked = EmptyLedger
    /\ stray = EmptyLedger

\* A read or a write of the file fails, or the process dies.
Fault == faults < MaxFaults /\ faults' = faults + 1

\* Every file access goes well, or this read counts as an empty ledger.
ReadOutcome(readable) == IF readable THEN UNCHANGED faults ELSE Fault

With(f, x, e)  == [y \in DOMAIN f \cup {x} |-> IF y = x THEN e ELSE f[y]]
Without(f, x)  == [y \in DOMAIN f \ {x} |-> f[y]]
Free(t)        == t \notin DOMAIN applying

\* An unreadable file makes the next write forget what was booked.
Forget(tally, readable) ==
    IF readable THEN tally ELSE [b \in Buckets |-> tally[b] + Spent[b]]

(* reserve: check the caps and book the estimate, all under `_lock`.  A    *)
(* request over the limits raises and changes nothing.                     *)
Reserve(r, q, readable) ==
    /\ r \notin issued
    /\ q.charge["tokens"] <= InputLimit
    /\ ReadOutcome(readable)
    /\ CapsAllow(Read(readable), q)
    /\ file' = [day |-> today, spent |-> Bump(Read(readable), q.who, q.charge)]
    /\ reservations' =
         With(reservations, r, [who |-> q.who, held |-> q.charge, day |-> today])
    /\ issued' = issued \cup {r}
    /\ stray' = Forget(stray, readable)
    /\ UNCHANGED <<today, applying, unreserved, charged, lost, overrun, leaked>>

(* The first section of record_usage and release: whoever pops the         *)
(* reservation settles it; for all others it is gone.                      *)
Take(t, r, used) ==
    /\ Free(t)
    /\ r \in DOMAIN reservations
    /\ LET e == reservations[r]
       IN  applying' = With(applying, t, [who |-> e.who, held |-> e.held,
                                          used |-> used, day |-> e.day])
    /\ reservations' = Without(reservations, r)
    /\ UNCHANGED <<today, file, issued, unreserved, faults>>
    /\ UNCHANGED history

\* release, and record_usage of a cached answer
Release(t, r) == Take(t, r, Nothing)

\* record_usage of a provider's answer
RecordUsage(t, r) == \E used \in Uses : Take(t, r, used)

(* record_usage without a reservation: the guard's and the memory          *)
(* extractor's own model calls.                                            *)
RecordUnreserved(t, who, used) ==
    /\ Free(t)
    /\ unreserved < MaxUnreserved
    /\ unreserved' = unreserved + 1
    /\ applying' = With(applying, t, [who |-> who, held |-> Nothing,
                                      used |-> used, day |-> today])
    /\ UNCHANGED <<today, file, reservations, issued, faults>>
    /\ UNCHANGED history

(* The second section, _apply_delta: write actual minus reserved on the    *)
(* ledger of the day it is now.  A zero change writes nothing.             *)
Apply(t, readable) ==
    /\ t \in DOMAIN applying
    /\ LET e     == applying[t]
           delta == [m \in Meters |-> e.used[m] - e.held[m]]
       IN  /\ IF delta = Nothing
              THEN readable /\ UNCHANGED <<file, faults>>
              ELSE /\ ReadOutcome(readable)
                   /\ file' = [day   |-> today,
                               spent |-> Bump(Read(readable), e.who, delta)]
           /\ charged' = Tally(charged, e.who, e.used)
           /\ overrun' = Tally(overrun, e.who,
                               [m \in Meters |-> FloorAtZero(delta[m])])
           /\ stray' = LET s == Forget(stray, readable)
                       IN  IF e.day = today THEN s ELSE Tally(s, e.who, e.held)
    /\ applying' = Without(applying, t)
    /\ UNCHANGED <<today, reservations, issued, unreserved, lost, leaked>>

(* _save_file_state raises: the reservation is already out of the          *)
(* dictionary, so the later release finds nothing to give back, and the    *)
(* actual usage is written nowhere.                                        *)
ApplyFails(t) ==
    /\ t \in DOMAIN applying
    /\ applying[t].used # applying[t].held
    /\ Fault
    /\ LET e == applying[t]
       IN  /\ charged' = Tally(charged, e.who, e.used)
           /\ lost' = Tally(lost, e.who, e.used)
           /\ leaked' = IF e.day = today THEN Tally(leaked, e.who, e.held)
                        ELSE leaked
    /\ applying' = Without(applying, t)
    /\ UNCHANGED <<today, file, reservations, issued, unreserved,
                   overrun, stray>>

(* The process dies and starts again: the file stays, the rest is gone,    *)
(* with the usage of the settlements it interrupts.                        *)
Crash ==
    /\ Fault
    /\ charged' = [b \in Buckets |-> charged[b] + Unwritten(b)]
    /\ lost' = [b \in Buckets |-> lost[b] + Unwritten(b)]
    /\ leaked' = [b \in Buckets |-> leaked[b] + Outstanding(b)]
    /\ reservations' = <<>>
    /\ applying' = <<>>
    /\ UNCHANGED <<today, file, issued, unreserved, overrun, stray>>

\* UTC midnight: nothing is written, the old file no longer counts.
Midnight ==
    /\ today < MaxDay
    /\ today' = today + 1
    /\ charged' = EmptyLedger
    /\ lost' = EmptyLedger
    /\ overrun' = EmptyLedger
    /\ leaked' = EmptyLedger
    /\ stray' = EmptyLedger
    /\ UNCHANGED <<file, reservations, applying, issued, unreserved, faults>>

Next ==
    \/ \E r \in Rids, q \in Requests, readable \in BOOLEAN :
          Reserve(r, q, readable)
    \/ \E t \in Threads, r \in Rids : Release(t, r) \/ RecordUsage(t, r)
    \/ \E t \in Threads, who \in Accounts, used \in Uses :
          RecordUnreserved(t, who, used)
    \/ \E t \in Threads, readable \in BOOLEAN : Apply(t, readable)
    \/ \E t \in Threads : ApplyFails(t)
    \/ Crash
    \/ Midnight

Spec == Init /\ [][Next]_vars

-----------------------------------------------------------------------------
Held == [who : Accounts, held : Amount, day : Nat]
Due  == [who : Accounts, held : Amount, used : Amount, day : Nat]

(* The type invariant.  No bucket of the file is ever negative, and        *)
(* nothing is dated in the future.                                         *)
TypeOK ==
    /\ today \in Nat
    /\ file \in [day : Nat, spent : [Buckets -> Nat]]
    /\ file.day <= today
    /\ issued \in SUBSET Rids
    /\ DOMAIN reservations \subseteq issued
    /\ reservations \in [DOMAIN reservations -> Held]
    /\ \A r \in DOMAIN reservations : reservations[r].day <= today
    /\ DOMAIN applying \subseteq Threads
    /\ applying \in [DOMAIN applying -> Due]
    /\ \A t \in DOMAIN applying : applying[t].day <= today
    /\ unreserved \in Nat /\ faults \in Nat
    /\ charged \in [Buckets -> Nat] /\ lost \in [Buckets -> Nat]
    /\ overrun \in [Buckets -> Nat]
    /\ leaked \in [Buckets -> Nat] /\ stray \in [Buckets -> Nat]

(* Conservation.  In every bucket the ledger shows no more than the usage  *)
(* that was written today plus the estimates of calls that have not        *)
(* settled, or that a crash or a failed write left behind; and it shows    *)
(* less than all of today's usage and these estimates only by what was     *)
(* taken off for calls reserved on another day, what an unreadable file    *)
(* forgot, and the usage that a failed write or a crash kept out of it.    *)
(* In particular no estimate is given back twice, whichever threads        *)
(* settle, and clamping at zero hides nothing.                             *)
Conservation ==
    \A b \in Buckets : /\ Spent[b] + lost[b] <= Owed(b)
                       /\ Owed(b) <= Spent[b] + stray[b] + lost[b]

(* The cap.  Admitted estimates never carry a capped bucket over its cap,  *)
(* however reserve calls and settlements interleave: what lies above the   *)
(* cap is usage in excess of estimates.                                    *)
CapHonoured ==
    \A b \in Buckets :
        Cap[b] > NoCap => Spent[b] <= Cap[b] + overrun[b]

(* What the operator of a capped account is promised: today's real usage   *)
(* together with the estimates still out or left behind stays within the   *)
(* cap, but for overruns, the amounts Conservation names as strayed, and   *)
(* the usage lost by failed writes and crashes.  The last has no bound but *)
(* the number of faults: a guard call or a memory extraction that is lost  *)
(* leaves not even an estimate in the ledger.                              *)
UsageBounded ==
    \A b \in Buckets :
        Cap[b] > NoCap => Owed(b) <= Cap[b] + overrun[b] + stray[b] + lost[b]
=============================================================================
