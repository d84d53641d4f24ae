---------------------------- MODULE RefreshCache ----------------------------
(***************************************************************************)
(* The listing caches of ProviderCatalog (app/infrastructure/catalog.py:   *)
(* the providers' models) and PromptRepository (prompts.py: the names of   *)
(* remote prompts), which work alike.  Start fills the cache; from then on *)
(* a reader always gets the list at hand, and one who finds it expired     *)
(* starts a background thread, unless one is at work.  The thread asks     *)
(* page after page and provider after provider without the lock and        *)
(* installs what it has under it.                                          *)
(*                                                                         *)
(* A list is described by the upstream version it was taken from: Failed   *)
(* stands for what a failed listing yields (no names, a part of them, or   *)
(* the static model table).                                                *)
(***************************************************************************)
EXTENDS Integers, FiniteSets

CONSTANTS
    Threads,    \* the threads that may be started to refresh
    TTL,        \* _CACHE_TTL_SECONDS, in ticks
    MaxVersion  \* bound: last version of the upstream list

Failed == 0

ASSUME CacheAssumption ==
    /\ IsFiniteSet(Threads)
    /\ TTL \in Nat \ {0} /\ MaxVersion \in Nat \ {0}

VARIABLES
    up,         \* external: the provider answers
    version,    \* external: version of its list
    list,       \* _cache, _remote_names
    age,        \* ticks since it was installed, TTL once it has expired
    pending,    \* _refresh_pending
    at,         \* thread -> off, listing, holding an answer, or clearing
    got,        \* thread -> the version it has been given
    \* History variables.
    since,      \* thread -> the version upstream had when it set out
    fresh       \* the version upstream had when the listing of `list` set out

vars == <<up, version, list, age, pending, at, got, since, fresh>>

Expired == age >= TTL
Working == {t \in Threads : at[t] # "off"}
Answer  == IF up THEN version ELSE Failed

\* Start awaits a first listing; whatever it yields is installed.
Init ==
    /\ up \in BOOLEAN
    /\ version = 1
    /\ list = Answer
    /\ age = 0
    /\ pending = FALSE
    /\ at = [t \in Threads |-> "off"]
    /\ got = [t \in Threads |-> Failed]
    /\ since = [t \in Threads |-> 1]
    /\ fresh = version

-----------------------------------------------------------------------------
\* A new thread; which of those at hand stands for it does not matter.
Launch(t) ==
    /\ Working # Threads
    /\ t = CHOOSE idle \in Threads : at[idle] = "off"
    /\ at' = [at EXCEPT ![t] = "listing"]
    /\ since' = [since EXCEPT ![t] = version]
    /\ pending' = TRUE
    /\ UNCHANGED <<up, version, list, age, got, fresh>>

(* A reader finds the list expired: _schedule_refresh_unlocked.  All other *)
(* reads change nothing.                                                   *)
Schedule(t) ==
    /\ Expired /\ ~pending
    /\ Launch(t)

\* The provider answers the listing's requests, or fails one of them.
Ask(t) ==
    /\ at[t] = "listing"
    /\ at' = [at EXCEPT ![t] = "holding"]
    /\ got' = [got EXCEPT ![t] = Answer]
    /\ UNCHANGED <<up, version, list, age, pending, since, fresh>>

\* The listing is over, what it gave is installed or lost.
Over(t) ==
    /\ at' = [at EXCEPT ![t] = "clearing"]
    /\ got' = [got EXCEPT ![t] = Failed]
    /\ since' = [since EXCEPT ![t] = 1]

\* The result is installed, a failed one as well, and its time starts anew.
Install(t) ==
    /\ at[t] = "holding"
    /\ list' = got[t] /\ fresh' = since[t] /\ age' = 0
    /\ Over(t)
    /\ UNCHANGED <<up, version, pending>>

\* Mutant: no finally around the listing.
DieSilently(t) ==
    /\ at[t] = "listing"
    /\ at' = [at EXCEPT ![t] = "off"]
    /\ UNCHANGED <<up, version, list, age, pending, got, since, fresh>>

\* The listing raises: nothing is installed.
Raise(t) ==
    /\ at[t] = "listing"
    /\ Over(t)
    /\ UNCHANGED <<up, version, list, age, pending, fresh>>

\* The finally block, a section of its own.
Clear(t) ==
    /\ at[t] = "clearing"
    /\ at' = [at EXCEPT ![t] = "off"]
    /\ pending' = FALSE
    /\ UNCHANGED <<up, version, list, age, got, since, fresh>>

Tick ==
    /\ ~Expired
    /\ age' = age + 1
    /\ UNCHANGED <<up, version, list, pending, at, got, since, fresh>>

\* Models come and go, the network as well.
Upstream ==
    /\ \/ up' = ~up /\ UNCHANGED version
       \/ version < MaxVersion /\ version' = version + 1 /\ UNCHANGED up
    /\ UNCHANGED <<list, age, pending, at, got, since, fresh>>

Next ==
    \/ \E t \in Threads : Schedule(t) \/ Ask(t) \/ Install(t) \/ Raise(t) \/ Clear(t)
    \/ Tick \/ Upstream

Spec == Init /\ [][Next]_vars

-----------------------------------------------------------------------------
(* The type invariant.  At most one thread refreshes, and the flag is set  *)
(* exactly while it does: a flag without a thread would be the last        *)
(* refresh there is.                                                       *)
TypeOK ==
    /\ up \in BOOLEAN /\ version \in 1 .. MaxVersion
    /\ list \in Failed .. MaxVersion /\ fresh \in 1 .. MaxVersion
    /\ age \in 0 .. TTL
    /\ at \in [Threads -> {"off", "listing", "holding", "clearing"}]
    /\ got \in [Threads -> Failed .. MaxVersion]
    /\ since \in [Threads -> 1 .. MaxVersion]
    /\ Cardinality(Working) = IF pending THEN 1 ELSE 0
=============================================================================
