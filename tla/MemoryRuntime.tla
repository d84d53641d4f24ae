--------------------------- MODULE MemoryRuntime ---------------------------
(***************************************************************************)
(* MemoryRuntime (app/infrastructure/memory.py): one Mem0 instance, shared *)
(* by the operations of all callers.  Each runs in a thread of the pool    *)
(* behind asyncio.to_thread.  The instance is built by whoever comes first *)
(* (`_lock`); afterwards an operation binds the extractor to its caller's  *)
(* identity and works on the instance under `_ops_lock`, the model calls   *)
(* of an extraction included: RouterLLM bills each answer to whatever      *)
(* identity is bound when it arrives.                                      *)
(*                                                                         *)
(* Exchanges of chat turns are added by background tasks, which drain      *)
(* awaits and then cancels at shutdown; a thread that has begun goes on.   *)
(***************************************************************************)
EXTENDS Integers, FiniteSets

CONSTANTS
    Ops,        \* the operations
    Kind,       \* Ops -> record (background), add, search or delete
    Caller,     \* Ops -> the identity it is made for
    Target,     \* Ops -> the fact a delete names
    Facts,      \* ids of facts; an id is never used again
    Nobody,     \* no operation, no identity
    Pool,       \* threads of the default executor
    MaxCalls    \* bound: model calls of one extraction

Identities == {Caller[o] : o \in Ops}

ASSUME MemoryAssumption ==
    /\ Kind \in [Ops -> {"record", "add", "search", "delete"}]
    /\ Target \in [Ops -> Facts]
    /\ Nobody \notin Ops \cup Identities
    /\ Pool \in Nat \ {0} /\ MaxCalls \in Nat \ {0}

VARIABLES
    pc,         \* operation -> where it is
    initLock,   \* holder of _lock
    opsLock,    \* holder of _ops_lock
    ready,      \* _memory is set
    bound,      \* RouterLLM.identity_id
    calls,      \* operation -> model calls made
    facts,      \* external: fact -> owner; unwritten and deleted ones to Nobody
    used,       \* external: fact ids given out
    seen,       \* delete -> the owner its first section read
    background, \* _background
    accepting,  \* _accepting
    drain,      \* open, draining or drained
    \* History variables.
    built,      \* instances built
    billed      \* <<operation, identity billed for one of its calls>>

store == <<facts, used>>
tasks == <<background, accepting, drain>>
vars  == <<pc, initLock, opsLock, ready, bound, calls, facts, used, seen,
           background, accepting, drain, built, billed>>

Inside  == {"inside", "calling"}
Running == {"running", "waiting", "building", "opening"} \cup Inside
Ended   == {"done", "failed", "cancelled"}
Places  == {"idle", "queued", "checking"} \cup Running \cup Ended

Goto(o, from, to) == pc[o] = from /\ pc' = [pc EXCEPT ![o] = to]

\* The task behind a background operation ends with it.
End(o, from, to) == Goto(o, from, to) /\ background' = background \ {o}

Owned(who) == {f \in Facts : facts[f] = who}

Init ==
    /\ pc = [o \in Ops |-> "idle"]
    /\ initLock = Nobody /\ opsLock = Nobody
    /\ ready = FALSE /\ built = 0
    /\ bound = Nobody
    /\ calls = [o \in Ops |-> 0]
    /\ facts \in [Facts -> Identities \cup {Nobody}]
    /\ used = {f \in Facts : facts[f] # Nobody}
    /\ seen = [o \in Ops |-> Nobody]
    /\ background = {} /\ accepting = TRUE /\ drain = "open"
    /\ billed = {}

-----------------------------------------------------------------------------
(* On the event loop.                                                      *)

\* Mutant: tasks are taken on after shutdown has begun.
ScheduleAlways(o) ==
    /\ Kind[o] = "record"
    /\ Goto(o, "idle", "queued")
    /\ background' = background \cup {o}
    /\ UNCHANGED <<initLock, opsLock, ready, bound, calls, store, seen,
                   accepting, drain, built, billed>>

\* schedule_record
Schedule(o) ==
    /\ Kind[o] = "record" /\ accepting
    /\ Goto(o, "idle", "queued")
    /\ background' = background \cup {o}
    /\ UNCHANGED <<initLock, opsLock, ready, bound, calls, store, seen,
                   accepting, drain, built, billed>>

\* attach, search, add and delete await their thread.
Submit(o) ==
    /\ Kind[o] # "record"
    /\ Goto(o, "idle", "queued")
    /\ UNCHANGED <<initLock, opsLock, ready, bound, calls, store, seen,
                   tasks, built, billed>>

\* Mutant: the owner is not looked at.
CheckAny(o) ==
    /\ Goto(o, "checking", "queued")
    /\ UNCHANGED <<initLock, opsLock, ready, bound, calls, store, seen,
                   tasks, built, billed>>

\* Between the two sections of delete: only the owner goes on.
CheckOwner(o) ==
    /\ Goto(o, "checking", IF seen[o] = Caller[o] THEN "queued" ELSE "failed")
    /\ UNCHANGED <<initLock, opsLock, ready, bound, calls, store, seen,
                   tasks, built, billed>>

\* drain closes the door and waits for the tasks it finds.
BeginDrain ==
    /\ drain = "open"
    /\ accepting' = FALSE
    /\ drain' = "draining"
    /\ UNCHANGED <<pc, initLock, opsLock, ready, bound, calls, store, seen,
                   background, built, billed>>

DrainDone ==
    /\ drain = "draining" /\ background = {}
    /\ drain' = "drained"
    /\ UNCHANGED <<pc, initLock, opsLock, ready, bound, calls, store, seen,
                   background, accepting, built, billed>>

(* The timeout cancels what is left.  A call still in the executor's queue *)
(* never runs; a thread at work does not notice.                           *)
DrainTimeout ==
    /\ drain = "draining" /\ background # {}
    /\ pc' = [o \in Ops |-> IF o \in background /\ pc[o] = "queued"
                            THEN "cancelled" ELSE pc[o]]
    /\ background' = {}
    /\ drain' = "drained"
    /\ UNCHANGED <<initLock, opsLock, ready, bound, calls, store, seen,
                   accepting, built, billed>>

-----------------------------------------------------------------------------
(* get_memory, in a thread.                                                *)

Start(o) ==
    /\ Cardinality({p \in Ops : pc[p] \in Running}) < Pool
    /\ Goto(o, "queued", "running")
    /\ UNCHANGED <<initLock, opsLock, ready, bound, calls, store, seen,
                   tasks, built, billed>>

\* The first look at _memory is without the lock.
Peek(o) ==
    /\ Goto(o, "running", IF ready THEN "opening" ELSE "waiting")
    /\ UNCHANGED <<initLock, opsLock, ready, bound, calls, store, seen,
                   tasks, built, billed>>

\* Mutant: no second look under the lock.
BuildUnseen(o) ==
    /\ initLock = Nobody
    /\ Goto(o, "waiting", "building")
    /\ initLock' = o
    /\ UNCHANGED <<opsLock, ready, bound, calls, store, seen, tasks, built, billed>>

\* The second look is under it.
LookAgain(o) ==
    /\ initLock = Nobody
    /\ \/ ready /\ Goto(o, "waiting", "opening") /\ UNCHANGED initLock
       \/ ~ready /\ Goto(o, "waiting", "building") /\ initLock' = o
    /\ UNCHANGED <<opsLock, ready, bound, calls, store, seen, tasks, built, billed>>

Build(o) ==
    /\ Goto(o, "building", "opening")
    /\ ready' = TRUE /\ built' = built + 1
    /\ initLock' = Nobody
    /\ UNCHANGED <<opsLock, bound, calls, store, seen, tasks, billed>>

\* No chat model, no embedder key, or Mem0 does not start.
BuildFails(o) ==
    /\ End(o, "building", "failed")
    /\ initLock' = Nobody
    /\ UNCHANGED <<opsLock, ready, bound, calls, store, seen, accepting, drain,
                   built, billed>>

-----------------------------------------------------------------------------
(* Under _ops_lock.                                                        *)

Bind(o) == bound' = IF Kind[o] = "delete" THEN bound ELSE Caller[o]

\* Mutant: a search takes no lock, as it changes nothing in the store.
OpenUnlocked(o) ==
    /\ Kind[o] = "search" \/ opsLock = Nobody
    /\ Goto(o, "opening", "inside")
    /\ opsLock' = IF Kind[o] = "search" THEN opsLock ELSE o
    /\ Bind(o)
    /\ UNCHANGED <<initLock, ready, calls, store, seen, tasks, built, billed>>

Open(o) ==
    /\ opsLock = Nobody
    /\ Goto(o, "opening", "inside")
    /\ opsLock' = o
    /\ Bind(o)
    /\ UNCHANGED <<initLock, ready, calls, store, seen, tasks, built, billed>>

\* The operation is over, well or not, and the lock is free.
Leave(o, from, to) == End(o, from, to) /\ opsLock' = Nobody

\* memory.search calls no model.
Search(o) ==
    /\ Kind[o] = "search"
    /\ Leave(o, "inside", "done")
    /\ UNCHANGED <<initLock, ready, bound, calls, store, seen, accepting, drain,
                   built, billed>>

\* memory.add asks the extractor ...
Extract(o) ==
    /\ Kind[o] \in {"record", "add"} /\ calls[o] < MaxCalls
    /\ Goto(o, "inside", "calling")
    /\ calls' = [calls EXCEPT ![o] = @ + 1]
    /\ UNCHANGED <<initLock, opsLock, ready, bound, store, seen, tasks, built, billed>>

\* ... whose answer is billed to the identity bound by now.
Answer(o) ==
    /\ Goto(o, "calling", "inside")
    /\ billed' = billed \cup {<<o, bound>>}
    /\ UNCHANGED <<initLock, opsLock, ready, bound, calls, store, seen, tasks, built>>

\* Mem0 writes a new fact of the caller, drops an old one, or does neither.
Add(o) ==
    /\ Kind[o] \in {"record", "add"} /\ calls[o] > 0
    /\ Leave(o, "inside", "done")
    /\ \/ UNCHANGED store
       \/ \E f \in Facts \ used :
             facts' = [facts EXCEPT ![f] = Caller[o]] /\ used' = used \cup {f}
       \/ \E f \in Owned(Caller[o]) :
             facts' = [facts EXCEPT ![f] = Nobody] /\ UNCHANGED used
    /\ UNCHANGED <<initLock, ready, bound, calls, seen, accepting, drain, built, billed>>

\* Mutant: the lock is not given back on the error path.
FailLocked(o) ==
    /\ \E from \in Inside : End(o, from, "failed")
    /\ UNCHANGED <<initLock, opsLock, ready, bound, calls, store, seen, accepting,
                   drain, built, billed>>

\* Mem0, the provider or the ledger raises.
Fail(o) ==
    /\ \E from \in Inside : Leave(o, from, "failed")
    /\ UNCHANGED <<initLock, ready, bound, calls, store, seen, accepting, drain,
                   built, billed>>

\* The first section of delete reads the record and its owner.
Get(o) ==
    /\ Kind[o] = "delete" /\ seen[o] = Nobody
    /\ Leave(o, "inside", IF facts[Target[o]] = Nobody THEN "failed" ELSE "checking")
    /\ seen' = [seen EXCEPT ![o] = facts[Target[o]]]
    /\ UNCHANGED <<initLock, ready, bound, calls, store, accepting, drain, built, billed>>

\* The second deletes by id; somebody else may have done so meanwhile.
Delete(o) ==
    /\ Kind[o] = "delete" /\ seen[o] # Nobody
    /\ Leave(o, "inside", IF facts[Target[o]] = Nobody THEN "failed" ELSE "done")
    /\ facts' = [facts EXCEPT ![Target[o]] = Nobody]
    /\ UNCHANGED <<initLock, ready, bound, calls, used, seen, accepting, drain,
                   built, billed>>

InThread(o) ==
    \/ Start(o) \/ Peek(o) \/ LookAgain(o) \/ Build(o) \/ BuildFails(o)
    \/ Open(o) \/ Search(o) \/ Extract(o) \/ Answer(o) \/ Add(o) \/ Fail(o)
    \/ Get(o) \/ Delete(o)

Next ==
    \/ \E o \in Ops : Schedule(o) \/ Submit(o) \/ CheckOwner(o) \/ InThread(o)
    \/ BeginDrain \/ DrainDone \/ DrainTimeout

Spec == Init /\ [][Next]_vars

(* The loop and the threads run; a model call is answered or times out.    *)
FairSpec == Spec /\ \A o \in Ops : WF_vars(InThread(o)) /\ WF_vars(CheckOwner(o))
                 /\ WF_vars(DrainDone \/ DrainTimeout)

-----------------------------------------------------------------------------
(* The type invariant.  Exactly the holder of a lock is in its section.    *)
TypeOK ==
    /\ pc \in [Ops -> Places]
    /\ \A o \in Ops : /\ pc[o] = "building" <=> initLock = o
                      /\ pc[o] \in Inside <=> opsLock = o
    /\ ready \in BOOLEAN /\ accepting \in BOOLEAN
    /\ bound \in Identities \cup {Nobody}
    /\ calls \in [Ops -> 0 .. MaxCalls]
    /\ facts \in [Facts -> Identities \cup {Nobody}]
    /\ \A f \in Facts : facts[f] # Nobody => f \in used
    /\ seen \in [Ops -> Identities \cup {Nobody}]
    /\ background \subseteq {o \in Ops : Kind[o] = "record"}
    /\ drain \in {"open", "draining", "drained"}

(* Every model call of an extraction is billed to the caller whose text    *)
(* is extracted, also when other callers search, add and fail meanwhile.   *)
BilledToCaller == \A bill \in billed : bill[2] = Caller[bill[1]]

(* However many operations come first together and however many builds     *)
(* fail, the on-disk store is opened by one instance, and exactly the      *)
(* holder of a lock is in its section.                                     *)
OneInstance == TypeOK /\ built = IF ready THEN 1 ELSE 0

(* A fact disappears only by an operation of its owner, whoever names its  *)
(* id in a delete.                                                         *)
OnlyOwnerRemoves ==
    [][\A f \in Facts : facts[f] # Nobody /\ facts'[f] = Nobody
          => \E o \in Ops : /\ Caller[o] = facts[f]
                            /\ pc[o] = "inside" /\ pc'[o] = "done"]_vars

(* Once drain has returned no background task is left and none appears;    *)
(* what was still queued never starts.                                     *)
DrainedForGood ==
    drain = "drained" =>
        /\ background = {}
        /\ \A o \in Ops : Kind[o] = "record" => pc[o] # "queued"

(* Every operation comes to an end, and so does drain: no order of the two *)
(* locks and the pool blocks anybody for ever.                             *)
AllEnd ==
    /\ \A o \in Ops : pc[o] = "queued" ~> pc[o] \in Ended
    /\ drain = "draining" ~> drain = "drained"
=============================================================================
