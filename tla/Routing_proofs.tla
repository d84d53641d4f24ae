--------------------------- MODULE Routing_proofs ---------------------------
(***************************************************************************)
(* Proofs about Routing and the RefreshCache it reads, for every set of    *)
(* models, listings, calls, threads and settings.                          *)
(***************************************************************************)
EXTENDS Routing, FiniteSetTheorems, TLAPS

-----------------------------------------------------------------------------
(* The listing cache.                                                      *)

\* The flag is set exactly while a thread is at work, and it is alone.
Flagged ==
    \/ ~pending /\ Working = {}
    \/ pending /\ \E t \in Threads : Working = {t}

ListTypes ==
    /\ up \in BOOLEAN /\ version \in 1 .. MaxVersion
    /\ list \in Failed .. MaxVersion /\ fresh \in 1 .. MaxVersion
    /\ age \in 0 .. TTL /\ pending \in BOOLEAN
    /\ at \in [Threads -> {"off", "listing", "holding", "clearing"}]
    /\ got \in [Threads -> Failed .. MaxVersion]
    /\ since \in [Threads -> 1 .. MaxVersion]

\* A thread set out when the list at hand was there already.
Ordered ==
    /\ fresh <= version /\ list <= version
    /\ \A t \in Threads : at[t] \in {"listing", "holding"} =>
         fresh <= since[t] /\ list <= since[t] /\ since[t] <= version
    /\ \A t \in Threads : at[t] = "holding" =>
         got[t] = Failed \/ (since[t] <= got[t] /\ got[t] <= version)

ListInv == ListTypes /\ Flagged /\ Ordered

LEMMA ListTypeOK ==
    ASSUME ListInv
    PROVE  TypeOK
<1>1. Cardinality(Working) = IF pending THEN 1 ELSE 0
  <2>1. CASE ~pending /\ Working = {}
    BY <2>1, FS_EmptySet
  <2>2. CASE pending /\ \E t \in Threads : Working = {t}
    BY <2>2, FS_Singleton
  <2> QED
    BY <2>1, <2>2 DEF ListInv, Flagged
<1> QED
  BY <1>1 DEF ListInv, ListTypes, TypeOK

LEMMA ListInitially ==
    ASSUME Init
    PROVE  ListInv
<1>1. MaxVersion \in Nat /\ MaxVersion >= 1 /\ TTL \in Nat
  BY CacheAssumption
<1>2. ListTypes
  <2>1. list \in Failed .. MaxVersion /\ 1 \in 1 .. MaxVersion /\ 0 \in 0 .. TTL
    BY <1>1 DEF Init, Answer, Failed
  <2>2. Failed \in Failed .. MaxVersion
    BY <1>1 DEF Failed
  <2> QED
    BY <2>1, <2>2 DEF Init, ListTypes
<1>3. Flagged
  BY DEF Init, Flagged, Working
<1>4. Ordered
  BY <1>1 DEF Init, Ordered, Answer, Failed
<1> QED
  BY <1>2, <1>3, <1>4 DEF ListInv

(* The thread that is started is one of those at hand.                     *)
LEMMA Launched ==
    ASSUME ListInv, NEW t, Schedule(t)
    PROVE  /\ t \in Threads /\ Working = {} /\ ~pending /\ pending'
           /\ at' = [at EXCEPT ![t] = "listing"]
           /\ since' = [since EXCEPT ![t] = version]
           /\ UNCHANGED <<up, version, list, age, got, fresh>>
<1>1. \E idle \in Threads : at[idle] = "off"
  BY DEF Schedule, Launch, Working
<1>2. t \in Threads
  BY <1>1 DEF Schedule, Launch
<1> QED
  BY <1>2 DEF Schedule, Launch, ListInv, Flagged

\* The one thread that is not off.
LEMMA Alone ==
    ASSUME ListInv, NEW t \in Threads, at[t] # "off"
    PROVE  pending /\ Working = {t} /\ \A u \in Threads : u # t => at[u] = "off"
<1>1. t \in Working
  BY DEF Working
<1>2. PICK u \in Threads : Working = {u} /\ pending
  BY <1>1 DEF ListInv, Flagged
<1>3. Working = {t}
  BY <1>1, <1>2
<1> QED
  BY <1>2, <1>3 DEF Working

(* The list is replaced by none that set out earlier, and falls back only  *)
(* to a failed listing.                                                    *)
ListStepUp == fresh' >= fresh /\ (list' < list => list' = Failed)

LEMMA ListStep ==
    ASSUME ListInv, [Next]_vars
    PROVE  ListInv' /\ ListStepUp
<1>1. ListTypes /\ Flagged /\ Ordered /\ MaxVersion \in Nat /\ MaxVersion >= 1 /\ TTL \in Nat
  BY CacheAssumption DEF ListInv
<1>2. ASSUME NEW t \in Threads, Schedule(t)
      PROVE  ListInv' /\ ListStepUp
  <2>1. /\ Working = {} /\ pending'
        /\ at' = [at EXCEPT ![t] = "listing"]
        /\ since' = [since EXCEPT ![t] = version]
        /\ UNCHANGED <<up, version, list, age, got, fresh>>
    BY <1>2, Launched
  <2>2. ListTypes'
    BY <1>1, <1>2, <2>1 DEF ListTypes, Schedule, Launch
  <2>3. Working' = {t}
    BY <1>1, <2>1 DEF Working, ListTypes
  <2>4. Flagged'
    BY <2>1, <2>3 DEF Flagged
  <2>5. Ordered'
    BY <1>1, <2>1 DEF Ordered, ListTypes, Working
  <2>6. ListStepUp
    BY <1>1, <2>1 DEF ListStepUp, ListTypes, Failed
  <2> QED
    BY <2>2, <2>4, <2>5, <2>6 DEF ListInv
<1>3. ASSUME NEW t \in Threads, Ask(t)
      PROVE  ListInv' /\ ListStepUp
  <2>1. Working' = Working
    BY <1>1, <1>3 DEF Ask, Working, ListTypes
  <2>2. ListTypes'
    BY <1>1, <1>3 DEF Ask, ListTypes, Answer, Failed
  <2>3. Flagged'
    BY <1>1, <1>3, <2>1 DEF Flagged, Ask
  <2>4. Ordered'
    BY <1>1, <1>3 DEF Ordered, Ask, ListTypes, Answer, Failed
  <2>5. ListStepUp
    BY <1>1, <1>3 DEF ListStepUp, Ask, ListTypes, Failed
  <2> QED
    BY <2>2, <2>3, <2>4, <2>5 DEF ListInv
<1>4. ASSUME NEW t \in Threads, Install(t)
      PROVE  ListInv' /\ ListStepUp
  <2>1. \A u \in Threads : u # t => at[u] = "off"
    BY <1>4, Alone DEF Install
  <2>2. Working' = Working
    BY <1>1, <1>4 DEF Install, Over, Working, ListTypes
  <2>3. ListTypes'
    BY <1>1, <1>4 DEF Install, Over, ListTypes, Failed
  <2>4. Flagged'
    BY <1>1, <1>4, <2>2 DEF Flagged, Install
  <2>5. Ordered'
    BY <1>1, <1>4, <2>1 DEF Ordered, Install, Over, ListTypes, Failed
  <2>6. ListStepUp
    BY <1>1, <1>4 DEF ListStepUp, Install, Ordered, ListTypes, Failed
  <2> QED
    BY <2>3, <2>4, <2>5, <2>6 DEF ListInv
<1>5. ASSUME NEW t \in Threads, Raise(t)
      PROVE  ListInv' /\ ListStepUp
  <2>1. Working' = Working
    BY <1>1, <1>5 DEF Raise, Over, Working, ListTypes
  <2>2. ListTypes'
    BY <1>1, <1>5 DEF Raise, Over, ListTypes, Failed
  <2>3. Flagged'
    BY <1>1, <1>5, <2>1 DEF Flagged, Raise
  <2>4. Ordered'
    BY <1>1, <1>5 DEF Ordered, Raise, Over, ListTypes
  <2>5. ListStepUp
    BY <1>1, <1>5 DEF ListStepUp, Raise, ListTypes, Failed
  <2> QED
    BY <2>2, <2>3, <2>4, <2>5 DEF ListInv
<1>6. ASSUME NEW t \in Threads, Clear(t)
      PROVE  ListInv' /\ ListStepUp
  <2>1. \A u \in Threads : u # t => at[u] = "off"
    BY <1>6, Alone DEF Clear
  <2>2. Working' = {}
    BY <1>1, <1>6, <2>1 DEF Clear, Working, ListTypes
  <2>3. ListTypes'
    BY <1>1, <1>6 DEF Clear, ListTypes
  <2>4. Flagged'
    BY <1>6, <2>2 DEF Flagged, Clear
  <2>5. Ordered'
    BY <1>1, <1>6 DEF Ordered, Clear, ListTypes
  <2>6. ListStepUp
    BY <1>1, <1>6 DEF ListStepUp, Clear, ListTypes, Failed
  <2> QED
    BY <2>3, <2>4, <2>5, <2>6 DEF ListInv
<1>7. CASE Tick
  <2>1. ListTypes'
    BY <1>1, <1>7 DEF Tick, ListTypes, Expired
  <2>2. Flagged' /\ Ordered'
    BY <1>1, <1>7 DEF Tick, Flagged, Ordered, Working
  <2>3. ListStepUp
    BY <1>1, <1>7 DEF ListStepUp, Tick, ListTypes, Failed
  <2> QED
    BY <2>1, <2>2, <2>3 DEF ListInv
<1>8. CASE Upstream
  <2>0. version' \in 1 .. MaxVersion /\ version <= version' /\ up' \in BOOLEAN
    <3>1. CASE up' = ~up /\ UNCHANGED version
      <4>1. version \in 1 .. MaxVersion /\ version <= version'
        BY <1>1, <3>1 DEF ListTypes
      <4>2. up' \in BOOLEAN
        BY <3>1
      <4> QED
        BY <3>1, <4>1, <4>2
    <3>2. CASE version < MaxVersion /\ version' = version + 1 /\ UNCHANGED up
      BY <1>1, <3>2 DEF ListTypes
    <3> QED
      BY <1>8, <3>1, <3>2 DEF Upstream
  <2>1. ListTypes' /\ version <= version'
    BY <1>1, <1>8, <2>0 DEF Upstream, ListTypes
  <2>2. Flagged'
    BY <1>1, <1>8 DEF Upstream, Flagged, Working
  <2>3. Ordered'
    BY <1>1, <1>8, <2>1 DEF Upstream, Ordered, ListTypes, Failed
  <2>4. ListStepUp
    BY <1>1, <1>8 DEF ListStepUp, Upstream, ListTypes, Failed
  <2> QED
    BY <2>1, <2>2, <2>3, <2>4 DEF ListInv
<1>9. CASE UNCHANGED vars
  BY <1>1, <1>9 DEF vars, ListInv, ListTypes, Flagged, Working, Ordered, ListStepUp, Failed
<1> QED
  BY <1>2, <1>3, <1>4, <1>5, <1>6, <1>7, <1>8, <1>9 DEF Next

-----------------------------------------------------------------------------
(* Names.                                                                  *)

LEMMA MatchListed ==
    ASSUME NEW q, NEW ids \in SUBSET Models
    PROVE  Match(q, ids) \in ids \cup {None}
<1>1. CASE \E m \in Models : Matches(q, ids) = {m}
  <2>1. Matches(q, ids) \subseteq ids
    BY DEF Matches
  <2>2. \E m \in Models : Matches(q, ids) = {m} /\ Match(q, ids) = m
    BY <1>1 DEF Match
  <2> QED
    BY <2>1, <2>2
<1>2. CASE ~\E m \in Models : Matches(q, ids) = {m}
  BY <1>2 DEF Match
<1> QED
  BY <1>1, <1>2

LEMMA FallbacksListed ==
    ASSUME NEW m \in Models, NEW ids \in SUBSET Models, policy \in Policies
    PROVE  Fallbacks(m, ids) \subseteq ids \ {m}
<1>1. Explicit(ids) \subseteq ids
  <2>1. None \notin ChatModels
    BY RoutingAssumption
  <2> QED
    BY <2>1, MatchListed DEF Explicit
<1>2. Candidates(ids) \subseteq ids
  BY DEF Candidates
<1>3. CASE policy = "retry-only"
  BY <1>3 DEF Fallbacks
<1>4. CASE policy = "allowlist"
  BY <1>1, <1>4 DEF Fallbacks
<1>5. CASE policy = "same-provider"
  BY <1>2, <1>5 DEF Fallbacks
<1> QED
  BY <1>3, <1>4, <1>5 DEF Policies

(* The model that answers from the listing is told by its id, and by the   *)
(* id of the model that was asked for when it is told by a short name.     *)
LEMMA ToldFromListing ==
    ASSUME NEW m \in Models, NEW by \in Listed, NEW full \in BOOLEAN, Listed \subseteq Models
    PROVE  Reported(m, ServedName(m, by, full)) = IF full THEN by ELSE m
<1>1. CASE full
  BY <1>1 DEF ServedName, Reported
<1>2. CASE ~full
  <2>1. Name[by] \notin Listed
    BY RoutingAssumption
  <2> QED
    BY <1>2, <2>1 DEF ServedName, Reported
<1> QED
  BY <1>1, <1>2

-----------------------------------------------------------------------------
(* The calls and the router.                                               *)

Stages == {"idle", "resolved", "chosen", "building", "sent"}

CallTypes ==
    /\ policy \in Policies /\ shared \in BOOLEAN /\ open \in BOOLEAN /\ lost \in BOOLEAN
    /\ router = NoRouter \/ router \in [ids : SUBSET Models, fresh : 1 .. MaxVersion]
    /\ cache = NoCache \/ cache \in [kind : {"local", "redis"}, ids : SUBSET Models]
    /\ lock \in Calls \cup {None}
    /\ pc \in [Calls -> Stages]
    /\ asks \in [Calls -> [model : Models \cup {None}, fallbacks : SUBSET Models]]
    /\ via \in [Calls -> [ids : (SUBSET Models) \cup {None}, fresh : 1 .. MaxVersion]]
    /\ moved \in SUBSET Calls

\* What a call has at each stage.
Carried ==
    \A c \in Calls :
        /\ pc[c] = "idle" => asks[c] = NoAsk /\ c \notin moved
        /\ c \in Chats /\ pc[c] # "idle" => asks[c].model \in Models
        /\ c \in Chats => asks[c].model \notin asks[c].fallbacks
        /\ pc[c] = "resolved" => c \in Chats
        /\ pc[c] = "building" <=> lock = c
        /\ IF pc[c] \in {"building", "sent"} THEN via[c].ids \in SUBSET Models
                                             ELSE via[c] = NoRouter

\* What has not moved is all of the one listing.
Agreed ==
    \A c \in Calls : c \notin moved =>
        /\ c \in Chats /\ pc[c] # "idle" =>
             {asks[c].model} \cup asks[c].fallbacks \subseteq Listed
        /\ pc[c] \in {"building", "sent"} => via[c].ids = Listed

\* The router, and the one that is being built, are of known listings.
Dated ==
    /\ router.fresh <= fresh
    /\ \A c \in Calls : pc[c] = "building" =>
         router.fresh <= via[c].fresh /\ via[c].fresh <= fresh

(* Whoever builds a router starts without a cache.                         *)
CacheInv == (lock # None => cache = NoCache) /\ CacheOfRouter

IInv == ListInv /\ CallTypes /\ Carried /\ Agreed /\ Dated /\ CacheInv

LEMMA Typing ==
    ASSUME IInv
    PROVE  /\ Listed \in SUBSET Models
           /\ Seen \in [ids : SUBSET Models, fresh : 1 .. MaxVersion]
           /\ NoRouter \in [ids : (SUBSET Models) \cup {None}, fresh : 1 .. MaxVersion]
           /\ NoAsk \in [model : Models \cup {None}, fallbacks : SUBSET Models]
           /\ None \notin Models /\ None \notin SUBSET Models /\ None \notin Calls
<1>1. MaxVersion \in Nat /\ MaxVersion >= 1
  BY CacheAssumption
<1>2. Listed \in SUBSET Models /\ fresh \in 1 .. MaxVersion
  BY RoutingAssumption DEF IInv, ListInv, ListTypes, Listed
<1>3. None \notin Models /\ None \notin SUBSET Models /\ None \notin Calls
  BY RoutingAssumption
<1>4. Seen \in [ids : SUBSET Models, fresh : 1 .. MaxVersion]
  BY <1>2 DEF Seen
<1>5. NoRouter \in [ids : (SUBSET Models) \cup {None}, fresh : 1 .. MaxVersion]
  <2>1. 1 \in 1 .. MaxVersion
    BY <1>1
  <2> QED
    BY <2>1 DEF NoRouter
<1>6. NoAsk \in [model : Models \cup {None}, fallbacks : SUBSET Models]
  BY DEF NoAsk
<1> QED
  BY <1>2, <1>3, <1>4, <1>5, <1>6

(* What happens to the listing in a step of the calls is a step of it.     *)
LEMMA ListingSteps ==
    ASSUME [RoutingNext]_routingVars
    PROVE  [Next]_vars
<1>1. Read => [Next]_vars
  BY DEF Read, Next
<1>2. ASSUME NEW c \in Calls,
             \/ Resolve(c) \/ Status(c) \/ Choose(c) \/ Reuse(c) \/ Start(c)
             \/ Build(c) \/ BuildFails(c) \/ End(c)
      PROVE  [Next]_vars
  BY <1>1, <1>2 DEF Resolve, Status, Choose, Reuse, Start, SetOut, Build, BuildFails, End
<1>3. ASSUME NEW t \in Threads, Replace(t) PROVE [Next]_vars
  BY <1>3 DEF Replace, Next
<1>4. CASE Refresh
  BY <1>4 DEF Refresh, Next
<1>5. CASE Close
  BY <1>5 DEF Close
<1>6. CASE UNCHANGED routingVars
  BY <1>6 DEF routingVars
<1> QED
  BY <1>2, <1>3, <1>4, <1>5, <1>6 DEF RoutingNext

\* A reader may start a thread; what is listed stays.
LEMMA ReadKeeps ==
    ASSUME Read, ListInv
    PROVE  UNCHANGED <<list, fresh>>
BY Launched DEF Read, vars

LEMMA ResolveStep ==
    ASSUME IInv, NEW c \in Calls, Resolve(c)
    PROVE  CallTypes' /\ Carried' /\ Agreed' /\ Dated' /\ CacheInv'
<1>1. UNCHANGED <<list, fresh>>
  BY ReadKeeps DEF Resolve, IInv
<1>2. PICK q \in Request : /\ Match(q, Listed) # None
                           /\ asks' = [asks EXCEPT ![c].model = Match(q, Listed)]
  BY DEF Resolve
<1>3. Match(q, Listed) \in Listed /\ Listed \subseteq Models /\ Listed' = Listed
  BY <1>1, <1>2, MatchListed, Typing DEF Listed
<1>4. PICK to \in {"resolved", "chosen"} : pc[c] = "idle" /\ pc' = [pc EXCEPT ![c] = to]
  BY DEF Resolve, Go
<1>5. /\ UNCHANGED <<policy, shared, router, cache, lock, lost, via, moved, open>>
      /\ c \in Chats
  BY DEF Resolve, setup, routing
<1>6. /\ pc \in [Calls -> Stages] /\ asks[c] = NoAsk
      /\ asks \in [Calls -> [model : Models \cup {None}, fallbacks : SUBSET Models]]
  BY <1>4 DEF IInv, CallTypes, Carried
<1>7. /\ pc'[c] = to /\ asks'[c].model = Match(q, Listed) /\ asks'[c].fallbacks = {}
      /\ \A d \in Calls : d # c => pc'[d] = pc[d] /\ asks'[d] = asks[d]
  BY <1>2, <1>4, <1>6 DEF NoAsk
<1>8. CallTypes'
  <2>1. pc' \in [Calls -> Stages]
    BY <1>4, <1>6 DEF Stages
  <2>2. asks' \in [Calls -> [model : Models \cup {None}, fallbacks : SUBSET Models]]
    BY <1>2, <1>3, <1>6
  <2> QED
    BY <1>5, <2>1, <2>2 DEF IInv, CallTypes
<1>9. Carried'
  BY <1>3, <1>4, <1>5, <1>7 DEF IInv, Carried
<1>10. Agreed'
  BY <1>3, <1>4, <1>5, <1>7 DEF IInv, Agreed
<1>11. Dated'
  BY <1>1, <1>4, <1>5, <1>7 DEF IInv, Dated
<1>12. CacheInv'
  BY <1>5 DEF IInv, CacheInv, CacheOfRouter
<1> QED
  BY <1>8, <1>9, <1>10, <1>11, <1>12

LEMMA StatusStep ==
    ASSUME IInv, NEW c \in Calls, Status(c)
    PROVE  CallTypes' /\ Carried' /\ Agreed' /\ Dated' /\ CacheInv'
<1>1. /\ UNCHANGED <<list, fresh, policy, shared, router, cache, lock, lost>>
      /\ UNCHANGED <<asks, via, moved, open>>
      /\ pc[c] = "idle" /\ pc' = [pc EXCEPT ![c] = "chosen"] /\ c \notin Chats
  BY DEF Status, Go, setup, routing, vars
<1>2. pc \in [Calls -> Stages]
  BY DEF IInv, CallTypes
<1>3. pc'[c] = "chosen" /\ \A d \in Calls : d # c => pc'[d] = pc[d]
  BY <1>1, <1>2
<1>4. CallTypes'
  <2>1. pc' \in [Calls -> Stages]
    BY <1>1, <1>2 DEF Stages
  <2> QED
    BY <1>1, <2>1 DEF IInv, CallTypes
<1>5. Carried'
  BY <1>1, <1>3 DEF IInv, Carried
<1>6. Agreed'
  BY <1>1, <1>3 DEF IInv, Agreed, Listed
<1>7. Dated'
  BY <1>1, <1>3 DEF IInv, Dated
<1>8. CacheInv'
  BY <1>1 DEF IInv, CacheInv, CacheOfRouter
<1> QED
  BY <1>4, <1>5, <1>6, <1>7, <1>8

LEMMA ChooseStep ==
    ASSUME IInv, NEW c \in Calls, Choose(c)
    PROVE  CallTypes' /\ Carried' /\ Agreed' /\ Dated' /\ CacheInv'
<1>1. UNCHANGED <<list, fresh>>
  BY ReadKeeps DEF Choose, IInv
<1>2. /\ asks' = [asks EXCEPT ![c].fallbacks = Fallbacks(asks[c].model, Listed)]
      /\ pc[c] = "resolved" /\ pc' = [pc EXCEPT ![c] = "chosen"]
      /\ UNCHANGED <<policy, shared, router, cache, lock, lost, via, moved, open>>
  BY DEF Choose, Go, setup, routing
<1>3. /\ pc \in [Calls -> Stages] /\ policy \in Policies
      /\ asks \in [Calls -> [model : Models \cup {None}, fallbacks : SUBSET Models]]
      /\ c \in Chats /\ asks[c].model \in Models
  BY <1>2 DEF IInv, CallTypes, Carried
<1>4. /\ Fallbacks(asks[c].model, Listed) \subseteq Listed \ {asks[c].model}
      /\ Listed \subseteq Models /\ Listed' = Listed
  BY <1>1, <1>3, FallbacksListed, Typing DEF Listed
<1>5. /\ pc'[c] = "chosen" /\ asks'[c].model = asks[c].model
      /\ asks'[c].fallbacks \subseteq Listed \ {asks[c].model}
      /\ \A d \in Calls : d # c => pc'[d] = pc[d] /\ asks'[d] = asks[d]
  BY <1>2, <1>3, <1>4
<1>6. CallTypes'
  <2>1. pc' \in [Calls -> Stages]
    BY <1>2, <1>3 DEF Stages
  <2>2. asks' \in [Calls -> [model : Models \cup {None}, fallbacks : SUBSET Models]]
    BY <1>2, <1>3, <1>4
  <2> QED
    BY <1>2, <2>1, <2>2 DEF IInv, CallTypes
<1>7. Carried'
  BY <1>2, <1>3, <1>5 DEF IInv, Carried
<1>8. Agreed'
  BY <1>2, <1>3, <1>4, <1>5 DEF IInv, Agreed
<1>9. Dated'
  BY <1>1, <1>2, <1>5 DEF IInv, Dated
<1>10. CacheInv'
  BY <1>2 DEF IInv, CacheInv, CacheOfRouter
<1> QED
  BY <1>6, <1>7, <1>8, <1>9, <1>10

LEMMA ReuseStep ==
    ASSUME IInv, NEW c \in Calls, Reuse(c)
    PROVE  CallTypes' /\ Carried' /\ Agreed' /\ Dated' /\ CacheInv'
<1>1. UNCHANGED <<list, fresh>>
  BY ReadKeeps DEF Reuse, IInv
<1>2. /\ via' = [via EXCEPT ![c].ids = router.ids] /\ router.ids = Listed
      /\ pc[c] = "chosen" /\ pc' = [pc EXCEPT ![c] = "sent"]
      /\ UNCHANGED <<policy, shared, router, cache, lock, lost, asks, moved, open>>
  BY DEF Reuse, Go, Same, setup, routing
<1>3. /\ pc \in [Calls -> Stages]
      /\ via \in [Calls -> [ids : (SUBSET Models) \cup {None}, fresh : 1 .. MaxVersion]]
      /\ Listed \in SUBSET Models /\ Listed' = Listed
  BY <1>1, <1>2, Typing DEF IInv, CallTypes, Listed
<1>4. /\ pc'[c] = "sent" /\ via'[c].ids = Listed
      /\ \A d \in Calls : d # c => pc'[d] = pc[d] /\ via'[d] = via[d]
  BY <1>2, <1>3
<1>5. CallTypes'
  <2>1. pc' \in [Calls -> Stages]
    BY <1>2, <1>3 DEF Stages
  <2>2. via' \in [Calls -> [ids : (SUBSET Models) \cup {None}, fresh : 1 .. MaxVersion]]
    BY <1>2, <1>3
  <2> QED
    BY <1>2, <2>1, <2>2 DEF IInv, CallTypes
<1>6. Carried'
  BY <1>2, <1>3, <1>4 DEF IInv, Carried
<1>7. Agreed'
  BY <1>2, <1>3, <1>4 DEF IInv, Agreed
<1>8. Dated'
  BY <1>1, <1>2, <1>4 DEF IInv, Dated
<1>9. CacheInv'
  BY <1>2 DEF IInv, CacheInv, CacheOfRouter
<1> QED
  BY <1>5, <1>6, <1>7, <1>8, <1>9

LEMMA StartStep ==
    ASSUME IInv, NEW c \in Calls, Start(c)
    PROVE  CallTypes' /\ Carried' /\ Agreed' /\ Dated' /\ CacheInv'
<1>1. UNCHANGED <<list, fresh>>
  BY ReadKeeps DEF Start, SetOut, IInv
<1>2. /\ via' = [via EXCEPT ![c] = Seen]
      /\ pc[c] = "chosen" /\ pc' = [pc EXCEPT ![c] = "building"]
      /\ lock = None /\ lock' = c /\ cache' = NoCache
      /\ UNCHANGED <<policy, shared, router, lost, asks, moved, open>>
  BY DEF Start, SetOut, Go, setup, routing
<1>3. /\ pc \in [Calls -> Stages]
      /\ via \in [Calls -> [ids : (SUBSET Models) \cup {None}, fresh : 1 .. MaxVersion]]
      /\ Listed \in SUBSET Models /\ Listed' = Listed /\ c # None
      /\ Seen \in [ids : SUBSET Models, fresh : 1 .. MaxVersion]
      /\ \A d \in Calls : d # None /\ pc[d] # "building"
  BY <1>1, <1>2, Typing DEF IInv, CallTypes, Listed, Carried
<1>4. /\ pc'[c] = "building" /\ via'[c].ids = Listed /\ via'[c].fresh = fresh
      /\ \A d \in Calls : d # c => pc'[d] = pc[d] /\ via'[d] = via[d]
  BY <1>2, <1>3 DEF Seen
<1>5. CallTypes'
  <2>1. pc' \in [Calls -> Stages]
    BY <1>2, <1>3 DEF Stages
  <2>2. via' \in [Calls -> [ids : (SUBSET Models) \cup {None}, fresh : 1 .. MaxVersion]]
    BY <1>2, <1>3
  <2> QED
    BY <1>2, <2>1, <2>2 DEF IInv, CallTypes
<1>6. Carried'
  BY <1>2, <1>3, <1>4 DEF IInv, Carried
<1>7. Agreed'
  BY <1>2, <1>3, <1>4 DEF IInv, Agreed
<1>8. Dated'
  BY <1>1, <1>2, <1>3, <1>4 DEF IInv, Dated, ListInv, ListTypes
<1>9. CacheInv'
  BY <1>2, <1>3 DEF CacheInv, CacheOfRouter
<1> QED
  BY <1>5, <1>6, <1>7, <1>8, <1>9

(* A router of the ids it was listed for, and the cache that goes with it. *)
LEMMA BuildStep ==
    ASSUME IInv, NEW c \in Calls, Build(c)
    PROVE  CallTypes' /\ Carried' /\ Agreed' /\ Dated' /\ CacheInv'
<1>1. /\ router' = via[c] /\ cache' = CacheFor(via[c].ids)
      /\ via' = [via EXCEPT ![c].fresh = 1]
      /\ pc[c] = "building" /\ pc' = [pc EXCEPT ![c] = "sent"]
      /\ lock' = None /\ lost' = FALSE
      /\ UNCHANGED <<list, fresh, policy, shared, asks, moved, open>>
  BY DEF Build, Go, setup, vars
<1>2. /\ pc \in [Calls -> Stages] /\ MaxVersion \in Nat /\ MaxVersion >= 1
      /\ via \in [Calls -> [ids : (SUBSET Models) \cup {None}, fresh : 1 .. MaxVersion]]
      /\ via[c].ids \in SUBSET Models /\ lock = c /\ Listed' = Listed
      /\ \A d \in Calls : d # None /\ (d # c => pc[d] # "building")
  BY <1>1, Typing, CacheAssumption DEF IInv, CallTypes, Carried, Listed
<1>3. /\ pc'[c] = "sent" /\ via'[c].ids = via[c].ids
      /\ \A d \in Calls : d # c => pc'[d] = pc[d] /\ via'[d] = via[d]
  BY <1>1, <1>2
<1>4. via[c] \in [ids : SUBSET Models, fresh : 1 .. MaxVersion]
  BY <1>2
<1>5. cache = NoCache /\ lock # None
  BY <1>2, Typing DEF IInv, CacheInv
<1>6. cache' = IF ~CacheOn THEN NoCache
               ELSE [kind |-> IF shared THEN "redis" ELSE "local", ids |-> via[c].ids]
  BY <1>1, <1>5, RoutingAssumption DEF CacheFor, IInv, CallTypes
<1>7. CallTypes'
  <2>1. pc' \in [Calls -> Stages]
    BY <1>1, <1>2 DEF Stages
  <2>2. via' \in [Calls -> [ids : (SUBSET Models) \cup {None}, fresh : 1 .. MaxVersion]]
    BY <1>1, <1>2
  <2>3. cache' = NoCache \/ cache' \in [kind : {"local", "redis"}, ids : SUBSET Models]
    BY <1>2, <1>6
  <2> QED
    BY <1>1, <1>4, <2>1, <2>2, <2>3 DEF IInv, CallTypes
<1>8. Carried'
  BY <1>1, <1>2, <1>3 DEF IInv, Carried
<1>9. Agreed'
  BY <1>1, <1>2, <1>3 DEF IInv, Agreed
<1>10. Dated'
  BY <1>1, <1>2, <1>3 DEF IInv, Dated
<1>11. CacheInv'
  <2>1. router' # NoRouter
    BY <1>1, <1>2, Typing DEF NoRouter
  <2>2. router'.ids = via[c].ids
    BY <1>1
  <2> QED
    BY <1>1, <1>6, <2>1, <2>2 DEF CacheInv, CacheOfRouter
<1> QED
  BY <1>7, <1>8, <1>9, <1>10, <1>11

\* A call that is over has nothing.
LEMMA Forgets ==
    ASSUME IInv, NEW c \in Calls, Forget(c)
    PROVE  /\ pc' \in [Calls -> Stages]
           /\ asks' \in [Calls -> [model : Models \cup {None}, fallbacks : SUBSET Models]]
           /\ via' \in [Calls -> [ids : (SUBSET Models) \cup {None}, fresh : 1 .. MaxVersion]]
           /\ moved' \in SUBSET Calls /\ moved' = moved \ {c}
           /\ pc'[c] = "idle" /\ asks'[c] = NoAsk /\ via'[c] = NoRouter
           /\ \A d \in Calls : d # c =>
                pc'[d] = pc[d] /\ asks'[d] = asks[d] /\ via'[d] = via[d]
BY Typing DEF IInv, CallTypes, Forget, Stages

LEMMA BuildFailsStep ==
    ASSUME IInv, NEW c \in Calls, BuildFails(c)
    PROVE  CallTypes' /\ Carried' /\ Agreed' /\ Dated' /\ CacheInv'
<1>1. /\ cache' = IF shared THEN cache ELSE CacheFor(via[c].ids)
      /\ pc[c] = "building" /\ lock' = None /\ lost' = TRUE
      /\ UNCHANGED <<list, fresh, policy, shared, router, open>>
  BY DEF BuildFails, setup, vars
<1>2. /\ pc' \in [Calls -> Stages]
      /\ asks' \in [Calls -> [model : Models \cup {None}, fallbacks : SUBSET Models]]
      /\ via' \in [Calls -> [ids : (SUBSET Models) \cup {None}, fresh : 1 .. MaxVersion]]
      /\ moved' \in SUBSET Calls /\ moved' = moved \ {c}
      /\ pc'[c] = "idle" /\ asks'[c] = NoAsk /\ via'[c] = NoRouter
      /\ \A d \in Calls : d # c =>
           pc'[d] = pc[d] /\ asks'[d] = asks[d] /\ via'[d] = via[d]
  BY Forgets DEF BuildFails
<1>3. /\ lock = c /\ Listed' = Listed /\ via[c].ids \in SUBSET Models
      /\ \A d \in Calls : d # None /\ (d # c => pc[d] # "building")
  BY <1>1, Typing DEF IInv, CallTypes, Carried, Listed
<1>4. CallTypes'
  <2>1. cache' = NoCache \/ cache' \in [kind : {"local", "redis"}, ids : SUBSET Models]
    BY <1>1, <1>3, RoutingAssumption DEF CacheFor, IInv, CallTypes
  <2> QED
    BY <1>1, <1>2, <2>1 DEF IInv, CallTypes
<1>5. Carried'
  <2>1. None \notin {} /\ NoAsk.model \notin NoAsk.fallbacks
    BY DEF NoAsk
  <2> QED
    BY <1>1, <1>2, <1>3, <2>1 DEF IInv, Carried
<1>6. Agreed'
  BY <1>1, <1>2, <1>3 DEF IInv, Agreed
<1>7. Dated'
  BY <1>1, <1>2, <1>3 DEF IInv, Dated
<1>8. CacheInv'
  BY <1>1 DEF CacheInv, CacheOfRouter
<1> QED
  BY <1>4, <1>5, <1>6, <1>7, <1>8

LEMMA EndStep ==
    ASSUME IInv, NEW c \in Calls, End(c)
    PROVE  CallTypes' /\ Carried' /\ Agreed' /\ Dated' /\ CacheInv'
<1>1. UNCHANGED <<list, fresh>>
  BY ReadKeeps DEF End, IInv
<1>2. /\ pc[c] = "sent"
      /\ UNCHANGED <<policy, shared, router, cache, lock, lost, open>>
  BY DEF End, setup, routing
<1>3. /\ pc' \in [Calls -> Stages]
      /\ asks' \in [Calls -> [model : Models \cup {None}, fallbacks : SUBSET Models]]
      /\ via' \in [Calls -> [ids : (SUBSET Models) \cup {None}, fresh : 1 .. MaxVersion]]
      /\ moved' \in SUBSET Calls /\ moved' = moved \ {c}
      /\ pc'[c] = "idle" /\ asks'[c] = NoAsk /\ via'[c] = NoRouter
      /\ \A d \in Calls : d # c =>
           pc'[d] = pc[d] /\ asks'[d] = asks[d] /\ via'[d] = via[d]
  BY Forgets DEF End
<1>4. Listed' = Listed
  BY <1>1 DEF Listed
<1>5. CallTypes'
  BY <1>2, <1>3 DEF IInv, CallTypes
<1>6. Carried'
  <2>1. NoAsk.model \notin NoAsk.fallbacks
    BY DEF NoAsk
  <2> QED
    BY <1>2, <1>3, <2>1 DEF IInv, Carried
<1>7. Agreed'
  BY <1>2, <1>3, <1>4 DEF IInv, Agreed
<1>8. Dated'
  BY <1>1, <1>2, <1>3 DEF IInv, Dated
<1>9. CacheInv'
  BY <1>2 DEF IInv, CacheInv, CacheOfRouter
<1> QED
  BY <1>5, <1>6, <1>7, <1>8, <1>9

LEMMA ReplaceStep ==
    ASSUME IInv, NEW t \in Threads, Replace(t)
    PROVE  CallTypes' /\ Carried' /\ Agreed' /\ Dated' /\ CacheInv'
<1>1. /\ list' = got[t]
      /\ moved' = IF Listing[got[t]] = Listed THEN moved
                  ELSE {c \in Calls : pc[c] # "idle"}
      /\ UNCHANGED <<policy, shared, router, cache, lock, lost, pc, asks, via, open>>
  BY DEF Replace, Install, setup, routing
<1>2. fresh <= fresh' /\ fresh \in Nat /\ fresh' \in Nat
  <2>1. ListInv' /\ ListStepUp
    BY ListStep DEF Replace, IInv, Next
  <2> QED
    BY <2>1 DEF ListStepUp, IInv, ListInv, ListTypes
<1>3. CallTypes'
  BY <1>1 DEF IInv, CallTypes
<1>4. Carried'
  BY <1>1 DEF IInv, Carried
<1>5. Agreed'
  <2>1. CASE Listing[got[t]] = Listed
    <3>1. Listed' = Listed
      BY <1>1, <2>1 DEF Listed
    <3> QED
      BY <1>1, <2>1, <3>1 DEF IInv, Agreed
  <2>2. CASE Listing[got[t]] # Listed
    BY <1>1, <2>2 DEF Agreed
  <2> QED
    BY <2>1, <2>2
<1>6. Dated'
  <2>1. router.fresh \in Nat /\ \A c \in Calls : via[c].fresh \in Nat
    BY DEF IInv, CallTypes, NoRouter
  <2> QED
    BY <1>1, <1>2, <2>1 DEF IInv, Dated
<1>7. CacheInv'
  BY <1>1 DEF IInv, CacheInv, CacheOfRouter
<1> QED
  BY <1>3, <1>4, <1>5, <1>6, <1>7

\* Everything else leaves the calls and what is listed alone.
LEMMA RestStep ==
    ASSUME IInv, Refresh \/ Close \/ UNCHANGED routingVars
    PROVE  CallTypes' /\ Carried' /\ Agreed' /\ Dated' /\ CacheInv'
<1>1. UNCHANGED <<list, fresh>>
  <2>1. CASE Refresh
    BY <2>1, Launched DEF Refresh, Ask, Raise, Clear, Tick, Upstream, IInv
  <2>2. CASE Close \/ UNCHANGED routingVars
    BY <2>2 DEF Close, routingVars, vars
  <2> QED
    BY <2>1, <2>2
<1>2. Listed' = Listed /\ UNCHANGED <<policy, shared, lock, pc, asks, via, moved>>
  BY <1>1 DEF Listed, Refresh, Close, routingVars, setup, routing, calls
<1>3. CASE UNCHANGED <<router, cache, lost, open>>
  <2>1. CallTypes' /\ Carried' /\ Agreed'
    BY <1>2, <1>3 DEF IInv, CallTypes, Carried, Agreed
  <2>2. Dated' /\ CacheInv'
    BY <1>1, <1>2, <1>3 DEF IInv, Dated, CacheInv, CacheOfRouter
  <2> QED
    BY <2>1, <2>2
<1>4. CASE Close
  <2>1. /\ lock = None /\ open' = FALSE
        /\ router' = NoRouter /\ cache' = NoCache /\ lost' = FALSE
    BY <1>4 DEF Close
  <2>2. CallTypes' /\ Carried' /\ Agreed'
    BY <1>2, <2>1 DEF IInv, CallTypes, Carried, Agreed
  <2>3. \A c \in Calls : pc[c] # "building"
    BY <2>1, Typing DEF IInv, Carried
  <2>4. NoRouter.fresh <= fresh
    BY DEF NoRouter, IInv, ListInv, ListTypes
  <2>5. Dated' /\ CacheInv'
    BY <1>1, <1>2, <2>1, <2>3, <2>4 DEF Dated, CacheInv, CacheOfRouter
  <2> QED
    BY <2>2, <2>5
<1> QED
  BY <1>3, <1>4 DEF Refresh, routingVars, routing

-----------------------------------------------------------------------------
(* The theorems.                                                           *)

LEMMA Step ==
    ASSUME IInv, [RoutingNext]_routingVars
    PROVE  IInv'
<1>1. ListInv'
  BY ListingSteps, ListStep DEF IInv
<1>2. CallTypes' /\ Carried' /\ Agreed' /\ Dated' /\ CacheInv'
  BY ResolveStep, StatusStep, ChooseStep, ReuseStep, StartStep, BuildStep,
     BuildFailsStep, EndStep, ReplaceStep, RestStep DEF RoutingNext
<1> QED
  BY <1>1, <1>2 DEF IInv

(* The inductive invariant holds in every state.                           *)
THEOREM Inductive == RoutingSpec => []IInv
<1>1. ASSUME RoutingInit PROVE IInv
  <2>1. ListInv
    BY <1>1, ListInitially DEF RoutingInit
  <2>2. fresh >= 1 /\ MaxVersion \in Nat /\ MaxVersion >= 1
    BY <2>1, CacheAssumption DEF ListInv, ListTypes
  <2>3. policy \in Policies /\ shared \in BOOLEAN
    BY <1>1, RoutingAssumption DEF RoutingInit
  <2>4. None \notin Calls /\ NoRouter.fresh = 1 /\ NoAsk.model \notin NoAsk.fallbacks
    BY RoutingAssumption DEF NoRouter, NoAsk
  <2>5. CallTypes
    <3>1. 1 \in 1 .. MaxVersion
      BY <2>2
    <3>2. NoRouter \in [ids : (SUBSET Models) \cup {None}, fresh : 1 .. MaxVersion]
      BY <3>1 DEF NoRouter
    <3>3. NoAsk \in [model : Models \cup {None}, fallbacks : SUBSET Models]
      BY DEF NoAsk
    <3> QED
      BY <1>1, <2>3, <3>2, <3>3 DEF RoutingInit, CallTypes, Stages
  <2>6. Carried /\ Agreed
    BY <1>1, <2>4 DEF RoutingInit, Carried, Agreed
  <2>7. Dated /\ CacheInv
    BY <1>1, <2>2, <2>4 DEF RoutingInit, Dated, CacheInv, CacheOfRouter, ListInv, ListTypes
  <2> QED
    BY <2>1, <2>5, <2>6, <2>7 DEF IInv
<1>2. ASSUME IInv, [RoutingNext]_routingVars PROVE IInv'
  BY <1>2, Step
<1> HIDE DEF IInv
<1> QED
  BY <1>1, <1>2, PTL DEF RoutingSpec

(* What a call offers LiteLLM is in the router it was given, and no model  *)
(* is its own fallback, unless another listing came between.               *)
THEOREM Offers == RoutingSpec => []OfferedTogether
<1>1. ASSUME IInv PROVE OfferedTogether
  <2>1. RoutingTypeOK
    <3>1. TypeOK
      BY <1>1, ListTypeOK DEF IInv
    <3>2. \A c \in Calls : via[c] # NoRouter <=> pc[c] \in {"building", "sent"}
      BY <1>1, Typing DEF IInv, Carried, NoRouter
    <3>3. \A c \in Chats : asks[c] = NoAsk <=> pc[c] = "idle"
      <4>1. Chats \subseteq Calls /\ None \notin Models
        BY RoutingAssumption
      <4>2. \A c \in Chats : /\ pc[c] = "idle" => asks[c] = NoAsk
                             /\ pc[c] # "idle" => asks[c].model \in Models
        BY <1>1, <4>1 DEF IInv, Carried
      <4>3. NoAsk.model \notin Models
        BY <4>1 DEF NoAsk
      <4>4. SUFFICES ASSUME NEW c \in Chats
                     PROVE  asks[c] = NoAsk <=> pc[c] = "idle"
        OBVIOUS
      <4>5. pc[c] # "idle" => asks[c] # NoAsk
        BY <4>2, <4>3
      <4>6. pc[c] = "idle" => asks[c] = NoAsk
        BY <4>2
      <4> QED
        BY <4>5, <4>6
    <3>4. moved \subseteq {c \in Calls : pc[c] # "idle"}
      BY <1>1 DEF IInv, Carried, CallTypes
    <3>5. \A c \in Calls : pc[c] = "building" <=> lock = c
      BY <1>1 DEF IInv, Carried
    <3> QED
      BY <1>1, <3>1, <3>2, <3>3, <3>4, <3>5 DEF IInv, CallTypes, RoutingTypeOK
  <2>2. ASSUME NEW c \in Chats, pc[c] = "sent"
        PROVE  /\ asks[c].model \notin asks[c].fallbacks
               /\ c \notin moved => {asks[c].model} \cup asks[c].fallbacks \subseteq via[c].ids
    <3>1. c \in Calls
      BY RoutingAssumption
    <3> QED
      BY <1>1, <2>2, <3>1 DEF IInv, Carried, Agreed
  <2> QED
    BY <2>1, <2>2 DEF OfferedTogether
<1> QED
  BY <1>1, Inductive, PTL

(* The calls use the listing cache as its own module has it: whatever they *)
(* do, its list, its flag and its threads take the steps of RefreshCache.  *)
THEOREM CacheIsUsed == RoutingSpec => Spec
<1>1. RoutingInit => Init
  BY DEF RoutingInit
<1>2. [RoutingNext]_routingVars => [Next]_vars
  BY ListingSteps
<1> QED
  BY <1>1, <1>2, PTL DEF RoutingSpec, Spec

(* The client is told the model that answers, or under a short name the    *)
(* one it asked for, while the listing stays the same.                     *)
THEOREM AnswerIsNamed == RoutingSpec => []ToldWhoAnswered
<1>1. ASSUME IInv PROVE ToldWhoAnswered
  <2> SUFFICES ASSUME NEW c \in Chats, pc[c] = "sent", c \notin moved,
                      NEW by \in Answering(c), NEW full \in BOOLEAN
               PROVE  Told(c, by, full) = IF full THEN by ELSE asks[c].model
    BY DEF ToldWhoAnswered
  <2>1. c \in Calls
    BY RoutingAssumption
  <2>2. by \in Listed /\ asks[c].model \in Models
    BY <1>1, <2>1 DEF Answering, IInv, Carried, Agreed
  <2>3. Listed \subseteq Models
    BY <1>1, Typing
  <2> QED
    BY <2>2, <2>3, ToldFromListing DEF Told
<1> QED
  BY <1>1, Inductive, PTL

(* The process-wide cache is that of the router in use.                    *)
THEOREM CacheFollows == RoutingSpec => []CacheOfRouter
<1>1. IInv => CacheOfRouter
  BY DEF IInv, CacheInv
<1> QED
  BY <1>1, Inductive, PTL

(* No older list and no router of an older listing comes back.             *)
THEOREM NothingOlder == RoutingSpec => NeverOlder
<1> DEFINE Newer == /\ fresh' >= fresh
                    /\ list' < list => list' = Failed
                    /\ router # NoRouter /\ router' # NoRouter
                         => router'.fresh >= router.fresh
<1>1. ASSUME IInv, [RoutingNext]_routingVars PROVE [Newer]_routingVars
  <2>1. ListStepUp
    BY <1>1, ListingSteps, ListStep DEF IInv
  <2>2. router.fresh \in Nat
    BY <1>1 DEF IInv, CallTypes, NoRouter
  <2>3. router' = router \/ router' = NoRouter \/ \E c \in Calls : Build(c)
    BY <1>1 DEF RoutingNext, Resolve, Status, Choose, Reuse, Start, SetOut, BuildFails, End,
             Replace, Refresh, Close, routingVars, routing
  <2>4. ASSUME NEW c \in Calls, Build(c) PROVE router'.fresh >= router.fresh
    <3>1. router' = via[c] /\ pc[c] = "building"
      BY <2>4 DEF Build, Go
    <3>2. via[c].fresh \in Nat
      BY <1>1 DEF IInv, CallTypes
    <3> QED
      BY <1>1, <2>2, <3>1, <3>2 DEF IInv, Dated
  <2> QED
    BY <2>1, <2>2, <2>3, <2>4 DEF ListStepUp
<1> HIDE DEF IInv, Newer
<1>2. RoutingSpec => [][Newer]_routingVars
  BY <1>1, Inductive, PTL DEF RoutingSpec
<1> QED
  BY <1>2 DEF NeverOlder, Newer
=============================================================================
