------------------------------ MODULE Routing ------------------------------
(***************************************************************************)
(* The way of a call from the name a client sends to a provider:           *)
(* ProviderCatalog.resolve_model and fallback_from (catalog.py), the       *)
(* fallbacks and the router of LiteLLMRouterRuntime (router.py) and their  *)
(* call sites in ChatService (chat.py).  A call reads the listing four     *)
(* times, in steps between which the refresh threads of RefreshCache may   *)
(* install another one: to resolve the name, to choose the fallbacks, to   *)
(* get the router and to name the model that answered.  The router is      *)
(* kept until the signature it was built from changes.                     *)
(*                                                                         *)
(* Of the signature only the listing can change in a running process: the  *)
(* settings are read once, and the Redis mode is probed once, by start.    *)
(* A model is its id; Name gives the last segment of an id, the short name *)
(* a client may send instead.  External, as LiteLLM does it: a Router      *)
(* makes a Redis cache when it caches and litellm.cache is not set, it     *)
(* answers from the model it is asked for or from one of the fallbacks it  *)
(* has, and an answer names its model by its id or by its short name.      *)
(***************************************************************************)
EXTENDS RefreshCache

CONSTANTS
    Calls,      \* the calls for a router
    Chats,      \* those that ask for a model; the others ask for the status
    Setups,     \* the settings of `fallbacks` and the Redis modes looked at
    Request,    \* the names that clients send
    Models,     \* model ids
    Provider,   \* id -> the provider before its first slash
    Name,       \* id -> its last segment
    ChatModels, \* is_chat_model
    Weak,       \* ids with one of _WEAK_FALLBACK_MARKERS
    Allowed,    \* the names in the setting `fallbacks`
    Listing,    \* version -> the ids listed, for Failed those of a failure
    CacheOn,    \* cache_enabled
    None

Policies == {"same-provider", "allowlist", "retry-only"}

ASSUME RoutingAssumption ==
    /\ Provider \in [Models -> STRING] /\ Name \in [Models -> STRING]
    /\ ChatModels \subseteq Models /\ Weak \subseteq Models
    /\ Allowed \subseteq Models \cup {Name[m] : m \in Models}
    /\ Listing \in [Failed .. MaxVersion -> SUBSET Models]
    /\ CacheOn \in BOOLEAN
    /\ None \notin Models \cup Calls /\ \A ids \in SUBSET Models : ids # None
    /\ Chats \subseteq Calls
    /\ \A m \in Models : Name[m] \notin Models   \* an id has a slash
    /\ Setups \subseteq Policies \X BOOLEAN
    /\ Request \subseteq Models \cup {Name[m] : m \in Models}

VARIABLES
    policy,     \* the setting: same-provider, allowlist or retry-only
    shared,     \* redis_mode, settled by start
    router,     \* _router: the ids of its signature, when they were listed
    cache,      \* litellm.cache: its kind, the ids of the router it is for
    lock,       \* the call that holds _lock
    open,       \* GatewayRuntime.close has not run
    pc,         \* call -> where it is
    asks,       \* call -> the model and the fallbacks it sends
    via,        \* call -> the router it was given, or is building
    \* History variables.
    moved,      \* calls during which the ids listed have changed
    lost        \* a build has failed since the router was made

setup   == <<policy, shared>>
routing == <<router, cache, lock, lost>>
calls   == <<pc, asks, via, moved>>
routingVars == <<vars, setup, routing, calls, open>>

Listed   == Listing[list]
Seen     == [ids |-> Listed, fresh |-> fresh]
NoRouter == [ids |-> None, fresh |-> 1]
NoCache  == [kind |-> "none", ids |-> None]
NoAsk    == [model |-> None, fallbacks |-> {}]

-----------------------------------------------------------------------------
(* Names and fallbacks.                                                    *)

Bare(q) == IF q \in Models THEN Name[q] ELSE q

\* The ids a name may stand for: itself when listed, else all that end in it.
Matches(q, ids) == IF q \in ids THEN {q} ELSE {m \in ids : Name[m] = Bare(q)}

\* resolve_model, _match_catalog_id: no model when none or several match.
Match(q, ids) ==
    IF \E m \in Models : Matches(q, ids) = {m}
    THEN CHOOSE m \in Models : Matches(q, ids) = {m}
    ELSE None

Explicit(ids) == {Match(q, ids) : q \in Allowed} \cap ChatModels

Candidates(ids) == (ids \cap ChatModels) \ Weak

\* Mutant: fallbacks may repeat the model that failed.
FallbacksWithSelf(m, ids) ==
    {x \in Candidates(ids) : Provider[x] = Provider[m]}

\* chat_fallback_ids.
Fallbacks(m, ids) ==
    CASE policy = "retry-only"    -> {}
      [] policy = "allowlist"     -> Explicit(ids) \ {m}
      [] policy = "same-provider" ->
           {x \in Candidates(ids) \ {m} : Provider[x] = Provider[m]}

\* _served_model: what the answer's name is taken for.
ServedName(m, by, full) ==
    IF full THEN by ELSE IF Name[by] = Name[m] THEN m ELSE Name[by]

\* Mutant: the listing is asked for the model requested.
ReportedSwapped(m, served) == IF m \in Listed THEN m ELSE served

\* fallback_from and the choice of `reported` after it.
Reported(m, served) == IF served \in Listed THEN served ELSE m

Answering(c) == ({asks[c].model} \cup asks[c].fallbacks) \cap via[c].ids

\* The model the client of a call is told when `by` answers now.
Told(c, by, full) ==
    Reported(asks[c].model, ServedName(asks[c].model, by, full))

-----------------------------------------------------------------------------
RoutingInit ==
    /\ Init
    /\ \E setting \in Setups : policy = setting[1] /\ shared = setting[2]
    /\ router = NoRouter /\ cache = NoCache /\ lock = None
    /\ lost = FALSE /\ open = TRUE /\ moved = {}
    /\ pc = [c \in Calls |-> "idle"]
    /\ asks = [c \in Calls |-> NoAsk]
    /\ via = [c \in Calls |-> NoRouter]

(* list_available_models with a cache: the list at hand is returned, and   *)
(* an expired one is refreshed in the background.                          *)
Read ==
    \/ \E t \in Threads : Schedule(t)
    \/ ~(Expired /\ ~pending) /\ UNCHANGED vars

Go(c, from, to) == pc[c] = from /\ pc' = [pc EXCEPT ![c] = to]

(* resolve_model.  A name without a model, or with several, ends the call. *)
(* An embedding goes on without fallbacks.                                 *)
Resolve(c) ==
    /\ open /\ c \in Chats
    /\ \E to \in {"resolved", "chosen"} : Go(c, "idle", to)
    /\ Read
    /\ \E q \in Request :
         /\ Match(q, Listed) # None
         /\ asks' = [asks EXCEPT ![c].model = Match(q, Listed)]
    /\ UNCHANGED <<setup, routing, via, moved, open>>

\* reliability_status: the router is asked for and not called.
Status(c) ==
    /\ open /\ c \notin Chats
    /\ Go(c, "idle", "chosen")
    /\ UNCHANGED <<vars, setup, routing, asks, via, moved, open>>

\* _completion_kwargs, generate_response.
Choose(c) ==
    /\ Go(c, "resolved", "chosen")
    /\ Read
    /\ asks' = [asks EXCEPT ![c].fallbacks = Fallbacks(asks[c].model, Listed)]
    /\ UNCHANGED <<setup, routing, via, moved, open>>

Same(ids) == router.ids = ids

\* get_router: the one at hand is of this listing.
Reuse(c) ==
    /\ lock = None /\ Same(Listed)
    /\ Go(c, "chosen", "sent")
    /\ Read
    /\ via' = [via EXCEPT ![c].ids = router.ids]
    /\ UNCHANGED <<setup, routing, asks, moved, open>>

SetOut(c) ==
    /\ ~Same(Listed)
    /\ Go(c, "chosen", "building")
    /\ Read
    /\ via' = [via EXCEPT ![c] = Seen]
    /\ lock' = c
    /\ UNCHANGED <<setup, router, lost, asks, moved, open>>

\* Mutants: no lock around the build, no clearing of the cache.
StartUnlocked(c) == SetOut(c) /\ cache' = NoCache
StartKeeping(c) == lock = None /\ SetOut(c) /\ UNCHANGED cache

\* get_router: another listing, for which one is built under the lock.
Start(c) ==
    /\ lock = None
    /\ SetOut(c)
    /\ cache' = NoCache

(* _build_router.  Without Redis the cache is a local one, made before the *)
(* router; with Redis the router makes it, if there is none.               *)
CacheFor(ids) ==
    CASE ~CacheOn            -> cache
      [] CacheOn /\ ~shared  -> [kind |-> "local", ids |-> ids]
      [] CacheOn /\ shared   ->
           IF cache = NoCache THEN [kind |-> "redis", ids |-> ids] ELSE cache

Build(c) ==
    /\ Go(c, "building", "sent")
    /\ router' = via[c] /\ cache' = CacheFor(via[c].ids)
    /\ via' = [via EXCEPT ![c].fresh = 1]
    /\ lock' = None /\ lost' = FALSE
    /\ UNCHANGED <<vars, setup, asks, moved, open>>

Forget(c) ==
    /\ pc' = [pc EXCEPT ![c] = "idle"]
    /\ asks' = [asks EXCEPT ![c] = NoAsk]
    /\ via' = [via EXCEPT ![c] = NoRouter]
    /\ moved' = moved \ {c}

(* The constructor of the router raises: the call fails, the router of the *)
(* former listing stays, the cache is gone or the new local one.           *)
BuildFails(c) ==
    /\ pc[c] = "building"
    /\ Forget(c)
    /\ cache' = IF shared THEN cache ELSE CacheFor(via[c].ids)
    /\ lock' = None /\ lost' = TRUE
    /\ UNCHANGED <<vars, setup, router, open>>

(* The provider answers, or fails.  The answer is given its name, by a     *)
(* last look at the listing (ToldWhoAnswered), and the call is over.       *)
End(c) ==
    /\ pc[c] = "sent"
    /\ Forget(c)
    /\ Read
    /\ UNCHANGED <<setup, routing, open>>

\* close: calls under way may still build a router after it.
Close ==
    /\ open /\ lock = None
    /\ open' = FALSE
    /\ router' = NoRouter /\ cache' = NoCache /\ lost' = FALSE
    /\ UNCHANGED <<vars, setup, lock, calls>>

Replace(t) ==
    /\ Install(t)
    /\ moved' = IF Listing[got[t]] = Listed THEN moved
                ELSE {c \in Calls : pc[c] # "idle"}
    /\ UNCHANGED <<setup, routing, pc, asks, via, open>>

Refresh ==
    /\ \/ \E t \in Threads : Schedule(t) \/ Ask(t) \/ Raise(t) \/ Clear(t)
       \/ Tick \/ Upstream
    /\ UNCHANGED <<setup, routing, calls, open>>

RoutingNext ==
    \/ \E c \in Calls : \/ Resolve(c) \/ Status(c) \/ Choose(c) \/ Reuse(c) \/ Start(c)
                         \/ Build(c) \/ BuildFails(c) \/ End(c)
    \/ \E t \in Threads : Replace(t)
    \/ Refresh \/ Close

RoutingSpec == RoutingInit /\ [][RoutingNext]_routingVars

(* Fairness.  Time passes, readers and calls keep coming and go on, every  *)
(* request for a listing is answered or times out, so that a listing ends, *)
(* and not always by raising; a router is built at last.                   *)
Background(A) == A /\ UNCHANGED <<setup, routing, calls, open>>

FairRoutingSpec ==
    /\ RoutingSpec
    /\ WF_routingVars(Background(Tick))
    /\ WF_routingVars(Background(\E t \in Threads : Schedule(t)))
    /\ WF_routingVars(Background(\E t \in Threads : Clear(t)))
    /\ WF_routingVars(\E t \in Threads : Replace(t))
    /\ SF_routingVars(Background(\E t \in Threads : Ask(t)))
    /\ WF_routingVars(\E c \in Calls : Resolve(c) \/ Status(c) \/ Choose(c) \/ End(c))
    /\ WF_routingVars(\E c \in Calls : Reuse(c) \/ Start(c))
    /\ SF_routingVars(\E c \in Calls : Build(c))

-----------------------------------------------------------------------------
(* The type invariant.  A call builds exactly while it holds the lock, and *)
(* it has a router from then on, or from the moment it is given one.       *)
RoutingTypeOK ==
    /\ TypeOK
    /\ policy \in Policies
    /\ {shared, open, lost} \subseteq BOOLEAN
    /\ router = NoRouter \/ router \in [ids : SUBSET Models, fresh : 1 .. MaxVersion]
    /\ cache = NoCache \/ cache \in [kind : {"local", "redis"}, ids : SUBSET Models]
    /\ lock \in Calls \cup {None}
    /\ \A c \in Calls :
         /\ c \in Chats => asks[c] = NoAsk <=> pc[c] = "idle"
         /\ pc[c] = "building" <=> lock = c
         /\ via[c] # NoRouter <=> pc[c] \in {"building", "sent"}
    /\ moved \subseteq {c \in Calls : pc[c] # "idle"}

(* A call that goes to LiteLLM offers it a model and fallbacks which the   *)
(* router it was given has, and no model twice, unless another listing was *)
(* installed between its reads.                                            *)
OfferedTogether ==
    /\ RoutingTypeOK
    /\ \A c \in Chats : pc[c] = "sent" =>
         /\ asks[c].model \notin asks[c].fallbacks
         /\ c \notin moved =>
              {asks[c].model} \cup asks[c].fallbacks \subseteq via[c].ids

(* While the listing stays the same, the client of a chat is told the      *)
(* model that answers, whichever it is; only an answer under a short name  *)
(* is told as the model asked for.                                         *)
ToldWhoAnswered ==
    \A c \in Chats : pc[c] = "sent" /\ c \notin moved =>
        \A by \in Answering(c), full \in BOOLEAN :
            Told(c, by, full) = IF full THEN by ELSE asks[c].model

(* While nobody builds, the process-wide response cache is the one made    *)
(* for the router in use, whatever rebuilds came before, and there is none *)
(* after close; only a build that failed may have taken it away.           *)
CacheOfRouter ==
    lock = None /\ ~lost =>
        cache = IF router = NoRouter \/ ~CacheOn THEN NoCache
                ELSE [kind |-> IF shared THEN "redis" ELSE "local", ids |-> router.ids]

(* Neither the list nor the router is replaced by one of a listing that    *)
(* set out earlier, however slow it was; so the list falls back behind     *)
(* what it has shown only by a failed listing.                             *)
NeverOlder ==
    [][/\ fresh' >= fresh
       /\ list' < list => list' = Failed
       /\ router # NoRouter /\ router' # NoRouter
            => router'.fresh >= router.fresh]_routingVars

(* Once the provider is up, its list stays as it is and the gateway is not *)
(* closed, that list is shown and calls are routed by it, whatever         *)
(* failures, raised errors and stale readers came before.                  *)
CatchesUp ==
    \A v \in 1 .. MaxVersion :
        <>[](open /\ up /\ version = v) => <>[](list = v /\ router.ids = Listing[v])
=============================================================================
