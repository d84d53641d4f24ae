------------------------------ MODULE RateLimit ------------------------------
(***************************************************************************)
(* The requests-per-minute quota of one key: BudgetRuntime.assert_rpm.     *)
(* On Redis a counter per aligned window is shared by all processes;       *)
(* without Redis, and whenever a Redis command fails, each process keeps   *)
(* the times of the requests it admitted in the last Window ticks.         *)
(***************************************************************************)
EXTENDS Integers, FiniteSets

CONSTANTS
    Workers,        \* the gateway processes
    Redis,          \* the place of the shared counter
    Limit,          \* rpm_limit of the key
    Window,         \* _RPM_WINDOW_SECONDS, in ticks
    MaxTime,        \* bound: last tick
    MaxAsked        \* bound: requests

ASSUME RateAssumption ==
    /\ Redis \notin Workers
    /\ Limit \in Nat \ {0} /\ Window \in Nat \ {0}
    /\ MaxTime \in Nat /\ MaxAsked \in Nat

VARIABLES
    now,
    count,      \* aligned window -> requests counted on Redis
    hits,       \* _rpm_hits: worker -> tick -> admitted requests remembered
    asked,      \* bound: requests so far
    admitted    \* history: place -> tick -> admissions

rateVars == <<now, count, hits, asked, admitted>>

Times      == 0 .. MaxTime
Windows    == 0 .. (MaxTime \div Window)
Aligned(t) == t \div Window
None       == [t \in Times |-> 0]

\* How many requests stamps has at the times of S.
Stamps(stamps, S) == UNION {{t} \X (1 .. stamps[t]) : t \in S}
Number(stamps, S) == Cardinality(Stamps(stamps, S))

RateInit ==
    /\ now = 0
    /\ count = [n \in Windows |-> 0]
    /\ hits = [w \in Workers |-> None]
    /\ asked = 0
    /\ admitted = [p \in Workers \cup {Redis} |-> None]

Stamp(stamps)   == [stamps EXCEPT ![now] = @ + 1]
Granted(place)  == admitted' = [admitted EXCEPT ![place] = Stamp(@)]

\* Mutant: a request is forgotten one tick early.
CurrentShort(stamps) ==
    [t \in Times |-> IF now - t < Window - 1 THEN stamps[t] ELSE 0]

\* The requests that still count.
Current(stamps) ==
    [t \in Times |-> IF now - t < Window THEN stamps[t] ELSE 0]

\* Mutant: the limit itself is let through once more.
WithinLoose(n) == n <= Limit + 1

Within(n) == n <= Limit

\* INCR: a request that is then rejected has been counted.
Count == count' = [count EXCEPT ![Aligned(now)] = @ + 1]

AskRedis ==
    /\ Count
    /\ IF Within(count[Aligned(now)] + 1) THEN Granted(Redis) ELSE UNCHANGED admitted
    /\ UNCHANGED hits

\* The window in the process.
AskLocal(w) ==
    LET stamps == Current(hits[w]) IN
    IF Number(stamps, Times) >= Limit
    THEN hits' = [hits EXCEPT ![w] = stamps] /\ UNCHANGED admitted
    ELSE hits' = [hits EXCEPT ![w] = Stamp(stamps)] /\ Granted(w)

(* A request of the key at process w: Redis answers, or it is not there,   *)
(* or INCR goes through and EXPIRE fails.                                  *)
Ask(w) ==
    /\ asked < MaxAsked
    /\ asked' = asked + 1
    /\ \/ AskRedis
       \/ AskLocal(w) /\ UNCHANGED count
       \/ AskLocal(w) /\ Count
    /\ UNCHANGED now

Tick ==
    /\ now < MaxTime
    /\ now' = now + 1
    /\ UNCHANGED <<count, hits, asked, admitted>>

\* A restarted process remembers nothing; neither does the auditor of it.
Restart(w) ==
    /\ hits' = [hits EXCEPT ![w] = None]
    /\ admitted' = [admitted EXCEPT ![w] = None]
    /\ UNCHANGED <<now, count, asked>>

RateNext == \/ \E w \in Workers : Ask(w) \/ Restart(w)
            \/ Tick

RateSpec == RateInit /\ [][RateNext]_rateVars

-----------------------------------------------------------------------------
\* The ticks of the span of one window that starts at t.
Span(t) == {u \in Times : t <= u /\ u < t + Window}

(* The type invariant: a process never remembers more than the limit.      *)
RateTypeOK ==
    /\ now \in Times
    /\ count \in [Windows -> 0 .. MaxAsked]
    /\ hits \in [Workers -> [Times -> 0 .. MaxAsked]]
    /\ \A w \in Workers : Number(hits[w], Times) <= Limit
    /\ admitted \in [Workers \cup {Redis} -> [Times -> 0 .. MaxAsked]]

(* A process that lives on admits at most the limit on its own in every    *)
(* span of one window, however its requests are spaced and whether or not  *)
(* Redis comes and goes in between; and it remembers no more of them.      *)
LocalSpan ==
    /\ RateTypeOK
    /\ \A w \in Workers, t \in Times : Number(admitted[w], Span(t)) <= Limit

(* On Redis all processes together admit at most the limit in an aligned   *)
(* window, and so at most twice the limit in any span as long.             *)
SharedSpan ==
    /\ \A n \in Windows : Number(admitted[Redis], {t \in Times : Aligned(t) = n}) <= Limit
    /\ \A t \in Times : Number(admitted[Redis], Span(t)) <= 2 * Limit
=============================================================================
