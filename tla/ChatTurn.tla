------------------------------ MODULE ChatTurn ------------------------------
(***************************************************************************)
(* Turns of ChatService (complete and stream, app/application/chat.py) and *)
(* of the embeddings route, interleaved on the event loop of one process   *)
(* and composed with the file ledger of BudgetLedger.                      *)
(*                                                                         *)
(* A turn can be overtaken where its coroutine awaits (preflight,          *)
(* provider, outbound checks) or, when it streams, where its generator is  *)
(* suspended at a yield; between these points it runs to the next one.     *)
(* A client that disconnects closes the generator where it is suspended.   *)
(* Memory extraction runs in a worker thread and bills on its own.         *)
(***************************************************************************)
EXTENDS Integers, FiniteSets

CONSTANTS
    Turns,          \* the turns; a turn's reservation carries its name
    Kinds,          \* Turns -> the kinds it may be: complete, stream, embed
    Want,           \* Turns -> the request it reserves
    FlagSettings,   \* the runtime flags an administrator may set
    Loop, Worker,   \* the event loop and a memory worker thread
    Keys, Global, Cap, InputLimit, Uses, MaxDay, MaxUnreserved, MaxFaults

Flags == [pii : BOOLEAN, guard : BOOLEAN, memory : BOOLEAN]

ASSUME TurnAssumption ==
    /\ Kinds \in [Turns -> SUBSET {"complete", "stream", "embed"}]
    /\ FlagSettings \subseteq Flags
    /\ Loop # Worker

VARIABLES
    today, file, reservations, applying, issued, unreserved, faults,
    charged, lost, overrun, leaked, stray,  \* see BudgetLedger
    flags,      \* RuntimeFlagStore: the current layer flags
    pc,         \* turn -> where its coroutine is
    snap,       \* turn -> its kind and the flags it started with
    shown,      \* turn -> none, part or all of the text is with the client
    remember,   \* turns whose exchange waits for the memory worker
    \* History variables.
    vetted,     \* turns whose final text passed redaction and outbound guard
    recorded,   \* turns handed to memory
    money       \* turn -> what became of its estimate

ledger == <<today, file, reservations, applying, issued, unreserved, faults,
            charged, lost, overrun, leaked, stray>>
turn   == <<pc, snap, shown, remember, vetted, recorded, money>>
vars   == <<today, file, reservations, applying, issued, unreserved, faults,
            charged, lost, overrun, leaked, stray,
            flags, pc, snap, shown, remember, vetted, recorded, money>>

Ledger == INSTANCE BudgetLedger WITH
            Rids <- Turns, Threads <- {Loop, Worker},
            Requests <- {Want[t] : t \in Turns}

\* What BudgetLedger assumes of its constants, for the turns' requests.
ASSUME LedgerAssumption ==
    /\ Want \in [Turns -> Ledger!Request]
    /\ \A t \in Turns : ~Want[t].priced => Want[t].charge["usd"] = 0
    /\ Global \notin Keys
    /\ Cap \in [Ledger!Buckets -> Int]
    /\ InputLimit \in Nat
    /\ Uses \subseteq Ledger!Amount
    /\ MaxDay \in Nat /\ MaxUnreserved \in Nat /\ MaxFaults \in Nat

-----------------------------------------------------------------------------
(* Where a turn may be.                                                    *)

\* Suspended, with its estimate held.
Holding  == {"started", "calling", "emitting", "unwinding"}
\* Inside record_usage or release: the loop does nothing else meanwhile.
Settling == {"billing", "crediting", "failing", "leaving"}
Ended    == {"answered", "failed", "refused", "gone", "dropped"}
Places   == {"idle", "preflight", "checking", "delivering"}
              \cup Holding \cup Settling \cup Ended

LoopFree == Ledger!Free(Loop)

Goto(t, place) == pc' = [pc EXCEPT ![t] = place]

\* From one place to another, while the loop is free to run the turn.
Step(t, from, to) == LoopFree /\ pc[t] = from /\ Goto(t, to)

Pays(t, how) == money' = [money EXCEPT ![t] = how]

Kind(t) == snap[t].kind
Snap(t) == snap[t].flags

\* Mutant: buffering decided by the flags of the moment.
BufferedNow(t) == Kind(t) # "stream" \/ flags.pii \/ flags.guard

\* buffer_output: deltas are held back until the outbound checks passed.
Buffered(t) == Kind(t) # "stream" \/ Snap(t).pii \/ Snap(t).guard

\* schedule_record; embeddings are not remembered.
ScheduleRecord(t) ==
    IF Snap(t).memory
    THEN remember' = remember \cup {t} /\ recorded' = recorded \cup {t}
    ELSE UNCHANGED <<remember, recorded>>

Init ==
    /\ Ledger!Init
    /\ flags \in FlagSettings
    /\ pc = [t \in Turns |-> "idle"]
    /\ snap = [t \in Turns |-> [kind |-> "none", flags |-> flags]]
    /\ shown = [t \in Turns |-> "none"]
    /\ remember = {} /\ recorded = {} /\ vetted = {}
    /\ money = [t \in Turns |-> "none"]

-----------------------------------------------------------------------------
(* Before the provider is called.                                          *)

\* The flags are read once, when the turn arrives.
Arrive(t) ==
    /\ Step(t, "idle", "preflight")
    /\ \E kind \in Kinds[t] :
          snap' = [snap EXCEPT ![t] = [kind |-> kind, flags |-> flags]]
    /\ UNCHANGED <<ledger, flags, shown, remember, vetted, recorded, money>>

\* A guard, an unknown model, the rate limit or a budget turns it away.
Refuse(t) ==
    /\ Step(t, "preflight", "refused")
    /\ UNCHANGED <<ledger, flags, snap, shown, remember, vetted, recorded, money>>

(* reserve; a stream then yields StreamStarted before it enters the try    *)
(* block whose finally releases the reservation.                           *)
Admit(t, readable) ==
    /\ Step(t, "preflight", IF Kind(t) = "stream" THEN "started" ELSE "calling")
    /\ Ledger!Reserve(t, Want[t], readable)
    /\ Pays(t, "held")
    /\ UNCHANGED <<flags, snap, shown, remember, vetted, recorded>>

(* The guard's own model calls are billed to the key, without a            *)
(* reservation.  They run side by side: the first to raise refuses the     *)
(* turn, the others go on and are billed when they answer.                 *)
Scan(t) ==
    /\ LoopFree
    /\ pc[t] \in {"preflight", "checking", "refused"}
    /\ Kind(t) # "embed" /\ Snap(t).guard
    /\ \E used \in Uses : Ledger!RecordUnreserved(Loop, Want[t].who, used)
    /\ UNCHANGED <<flags, turn>>

-----------------------------------------------------------------------------
(* The provider's answer.                                                  *)

\* The client has taken the pending event and the generator goes on.
Resume(t) ==
    /\ \/ Step(t, "started", "calling") \/ Step(t, "emitting", "calling")
    /\ UNCHANGED <<ledger, flags, snap, shown, remember, vetted, recorded, money>>

(* A delta goes to the client as it arrives, the last one of the answer    *)
(* too, before record_usage; a buffered stream only collects it.           *)
Chunk(t) ==
    /\ ~Buffered(t) /\ shown[t] # "all"
    /\ Step(t, "calling", "emitting")
    /\ \E much \in {"part", "all"} : shown' = [shown EXCEPT ![t] = much]
    /\ UNCHANGED <<ledger, flags, snap, remember, vetted, recorded, money>>

\* The stream of the provider has ended; "none" is an answer without text.
AllCame(t) == Buffered(t) \/ shown[t] # "part"

\* Mutant: whatever the turn, its text goes out before the usage is written.
ShowThenBill(t) ==
    /\ AllCame(t)
    /\ Step(t, "calling", "billing")
    /\ Ledger!RecordUsage(Loop, t)
    /\ shown' = [shown EXCEPT ![t] = "all"]
    /\ UNCHANGED <<flags, snap, remember, vetted, recorded, money>>

\* The answer is complete: record_usage.
ProviderAnswers(t) ==
    /\ AllCame(t)
    /\ Step(t, "calling", "billing")
    /\ Ledger!RecordUsage(Loop, t)
    /\ UNCHANGED <<flags, snap, shown, remember, vetted, recorded, money>>

\* A cached completion gives the estimate back; streams do not use the cache.
CacheAnswers(t) ==
    /\ Kind(t) = "complete"
    /\ Step(t, "calling", "crediting")
    /\ Ledger!Release(Loop, t)
    /\ UNCHANGED <<flags, snap, shown, remember, vetted, recorded, money>>

\* Mutant: no finally block around the provider call.
FailWithoutRelease(t) ==
    /\ Step(t, "calling", "failed")
    /\ Pays(t, "lost")
    /\ UNCHANGED <<ledger, flags, snap, shown, remember, vetted, recorded>>

\* An error or a timeout of the router: the finally block releases.
ProviderFails(t) ==
    /\ Step(t, "calling", "failing")
    /\ Ledger!Release(Loop, t)
    /\ UNCHANGED <<flags, snap, shown, remember, vetted, recorded, money>>

\* Where a settled turn goes on, and what became of its estimate.
After(t) ==
    CASE pc[t] = "failing" -> "failed"
      [] pc[t] = "leaving" -> "gone"
      [] OTHER             -> IF Kind(t) = "embed" THEN "answered" ELSE "checking"

Outcome(t) ==
    CASE pc[t] = "billing"   -> "charged"
      [] pc[t] = "crediting" -> "free"
      [] OTHER               -> "returned"

\* The second half of record_usage or release of a turn.
Settle(t, readable) ==
    /\ pc[t] \in Settling
    /\ Ledger!Apply(Loop, readable)
    /\ Goto(t, After(t))
    /\ Pays(t, Outcome(t))
    /\ shown' = IF After(t) = "answered" THEN [shown EXCEPT ![t] = "all"] ELSE shown
    /\ UNCHANGED <<flags, snap, remember, vetted, recorded>>

\* The ledger cannot be written: the exception ends the turn.
SettleFails(t) ==
    /\ pc[t] \in Settling
    /\ Ledger!ApplyFails(Loop)
    /\ Goto(t, IF pc[t] = "leaving" THEN "gone" ELSE "failed")
    /\ Pays(t, "lost")
    /\ UNCHANGED <<flags, snap, shown, remember, vetted, recorded>>

\* The same for a guard call's usage; a failed write blocks the turn.
BillScan(readable) ==
    /\ \A t \in Turns : pc[t] \notin Settling
    /\ Ledger!Apply(Loop, readable)
    /\ UNCHANGED <<flags, turn>>

BillScanFails(t) ==
    /\ \A s \in Turns : pc[s] \notin Settling
    /\ pc[t] \in {"preflight", "checking", "refused"}
    /\ Kind(t) # "embed" /\ Snap(t).guard
    /\ Ledger!ApplyFails(Loop)
    /\ Goto(t, IF pc[t] = "checking" THEN "failed" ELSE "refused")
    /\ UNCHANGED <<flags, snap, shown, remember, vetted, recorded, money>>

-----------------------------------------------------------------------------
(* After the provider's answer: redaction, the outbound guard, delivery.   *)

\* Mutant: a buffered stream is remembered before its client has the text.
VetAndRecord(t) ==
    /\ vetted' = vetted \cup {t}
    /\ shown' = [shown EXCEPT ![t] = "all"]
    /\ Step(t, "checking", IF Kind(t) = "stream" /\ Buffered(t)
                           THEN "delivering" ELSE "answered")
    /\ ScheduleRecord(t)
    /\ UNCHANGED <<ledger, flags, snap, money>>

\* The checks pass.  A buffered stream yields its text now; every other
\* turn hands the exchange to memory and ends.
Vet(t) ==
    /\ vetted' = vetted \cup {t}
    /\ shown' = [shown EXCEPT ![t] = "all"]
    /\ \/ /\ Kind(t) = "stream" /\ Buffered(t)
          /\ Step(t, "checking", "delivering")
          /\ UNCHANGED <<remember, recorded>>
       \/ /\ ~(Kind(t) = "stream" /\ Buffered(t))
          /\ Step(t, "checking", "answered")
          /\ ScheduleRecord(t)
    /\ UNCHANGED <<ledger, flags, snap, money>>

\* The outbound guard, the redaction or the output schema says no.
Block(t) ==
    /\ Step(t, "checking", "failed")
    /\ UNCHANGED <<ledger, flags, snap, shown, remember, vetted, recorded, money>>

\* The client took the buffered text; the exchange goes to memory.
Finish(t) ==
    /\ Step(t, "delivering", "answered")
    /\ ScheduleRecord(t)
    /\ UNCHANGED <<ledger, flags, snap, shown, vetted, money>>

-----------------------------------------------------------------------------
(* The client of a stream disconnects: GeneratorExit or CancelledError     *)
(* where the generator is suspended.                                       *)

\* Mutant: nothing is done for a client that leaves during the answer.
DisconnectDropped(t) ==
    /\ Kind(t) = "stream"
    /\ \E from \in {"calling", "emitting"} : Step(t, from, "gone")
    /\ UNCHANGED <<ledger, flags, snap, shown, remember, vetted, recorded, money>>

\* Inside the try block the finally is still to come.
Disconnect(t) ==
    /\ Kind(t) = "stream"
    /\ \E from \in {"calling", "emitting"} : Step(t, from, "unwinding")
    /\ UNCHANGED <<ledger, flags, snap, shown, remember, vetted, recorded, money>>

\* Before the reservation, or after it was settled, nothing is left to do.
DisconnectIdle(t) ==
    /\ Kind(t) = "stream"
    /\ \E from \in {"preflight", "checking", "delivering"} : Step(t, from, "gone")
    /\ UNCHANGED <<ledger, flags, snap, shown, remember, vetted, recorded, money>>

\* Mutant: the reservation is forgotten, its estimate stays booked.
ForgetReservation(t) ==
    /\ Step(t, "started", "gone")
    /\ Pays(t, "lost")
    /\ reservations' = Ledger!Without(reservations, t)
    /\ UNCHANGED <<today, file, applying, issued, unreserved, faults>>
    /\ UNCHANGED <<charged, lost, overrun, leaked, stray>>
    /\ UNCHANGED <<flags, snap, shown, remember, vetted, recorded>>

\* At StreamStarted the reservation exists and no finally covers it.
DisconnectAtStart(t) ==
    /\ Step(t, "started", "dropped")
    /\ Pays(t, "lost")
    /\ UNCHANGED <<ledger, flags, snap, shown, remember, vetted, recorded>>

\* The finally block: release.
Unwind(t) ==
    /\ Step(t, "unwinding", "leaving")
    /\ Ledger!Release(Loop, t)
    /\ UNCHANGED <<flags, snap, shown, remember, vetted, recorded, money>>

-----------------------------------------------------------------------------
(* The rest of the process.                                                *)

\* The memory worker extracts an exchange and bills it to the turn's key.
Extract(t) ==
    /\ t \in remember
    /\ \E used \in Uses : Ledger!RecordUnreserved(Worker, Want[t].who, used)
    /\ remember' = remember \ {t}
    /\ UNCHANGED <<flags, pc, snap, shown, vetted, recorded, money>>

BillExtract(readable) ==
    Ledger!Apply(Worker, readable) /\ UNCHANGED <<flags, turn>>

\* schedule_record's task swallows the exception.
BillExtractFails ==
    Ledger!ApplyFails(Worker) /\ UNCHANGED <<flags, turn>>

SetFlags ==
    /\ LoopFree
    /\ flags' \in FlagSettings \ {flags}
    /\ UNCHANGED <<ledger, turn>>

Midnight == Ledger!Midnight /\ UNCHANGED <<flags, turn>>

Underway == {t \in Turns : pc[t] \notin Ended \cup {"idle"}}

Crash ==
    /\ Ledger!Crash
    /\ pc' = [t \in Turns |-> IF t \in Underway THEN "gone" ELSE pc[t]]
    /\ money' = [t \in Turns |-> IF t \in Underway /\ money[t] = "held"
                                 THEN "lost" ELSE money[t]]
    /\ remember' = {}
    /\ UNCHANGED <<flags, snap, shown, vetted, recorded>>

TurnStep(t) ==
    \/ Arrive(t) \/ Refuse(t) \/ Scan(t) \/ Resume(t) \/ Chunk(t)
    \/ ProviderAnswers(t) \/ CacheAnswers(t) \/ ProviderFails(t)
    \/ SettleFails(t) \/ BillScanFails(t) \/ Vet(t) \/ Block(t) \/ Finish(t)
    \/ Disconnect(t) \/ DisconnectIdle(t) \/ DisconnectAtStart(t) \/ Unwind(t)
    \/ Extract(t)
    \/ \E readable \in BOOLEAN : Admit(t, readable) \/ Settle(t, readable)

Next ==
    \/ \E t \in Turns : TurnStep(t)
    \/ \E readable \in BOOLEAN : BillScan(readable) \/ BillExtract(readable)
    \/ BillExtractFails
    \/ SetFlags \/ Midnight \/ Crash

Spec == Init /\ [][Next]_vars

(* Fairness.  The event loop runs every callback that is ready; the router *)
(* bounds every provider call by its timeout; a client reads on or its     *)
(* connection is closed; a stream does not go on for ever.                 *)
ProviderDone(t) == ProviderAnswers(t) \/ CacheAnswers(t) \/ ProviderFails(t)

Fairness ==
    /\ \A t \in Turns : /\ WF_vars(ProviderDone(t) \/ Disconnect(t))
                        /\ WF_vars(Resume(t) \/ Disconnect(t) \/ DisconnectAtStart(t))
                        /\ WF_vars(Unwind(t))
                        /\ WF_vars(Vet(t) \/ Block(t) \/ DisconnectIdle(t))
                        /\ WF_vars(Finish(t) \/ DisconnectIdle(t))
                        /\ WF_vars(Settle(t, TRUE) \/ SettleFails(t))
    /\ WF_vars(BillScan(TRUE))
    /\ WF_vars(BillExtract(TRUE) \/ BillExtractFails)

FairSpec == Spec /\ Fairness

-----------------------------------------------------------------------------
(* The ledger invariants of BudgetLedger hold here as well, by the         *)
(* refinement LedgerSpec; this is the type of what ChatTurn adds, and the  *)
(* auditor's note of a held estimate agrees with the turn's place.         *)
TypeOK ==
    /\ flags \in Flags
    /\ pc \in [Turns -> Places]
    /\ snap \in [Turns -> [kind  : {"none", "complete", "stream", "embed"},
                         flags : Flags]]
    /\ shown \in [Turns -> {"none", "part", "all"}]
    /\ remember \subseteq recorded /\ recorded \subseteq Turns
    /\ vetted \subseteq Turns
    /\ money \in [Turns -> {"none", "held", "charged", "free", "returned", "lost"}]
    /\ \A t \in Turns : money[t] = "held" <=> pc[t] \in Holding \cup Settling

(* The state has its type, and reservations and turns agree: a turn holds  *)
(* its reservation exactly while it is under way between reserve and       *)
(* settlement; the one reservation nobody will release is that of a client *)
(* that left at StreamStarted.                                             *)
HeldByTurn ==
    /\ TypeOK
    /\ DOMAIN reservations \subseteq {t \in Turns : pc[t] \in Holding \cup {"dropped"}}
    /\ \A t \in Turns : pc[t] \in Holding => t \in DOMAIN reservations

(* A turn that started under redaction or the outbound guard shows its     *)
(* client no text that has not passed them, whatever the administrator     *)
(* switches meanwhile and wherever the client breaks off.                  *)
NothingUnvetted ==
    \A t \in Turns :
        /\ Kind(t) # "embed" /\ (Snap(t).pii \/ Snap(t).guard)
        /\ shown[t] # "none"
        => t \in vetted

(* Memory learns only from exchanges that were paid for, vetted and        *)
(* answered to the end.                                                    *)
RememberedHonestly ==
    \A t \in recorded : /\ pc[t] = "answered" /\ shown[t] = "all"
                        /\ t \in vetted
                        /\ money[t] \in {"charged", "free"}

(* The composition uses the ledger as BudgetLedger specifies it, so what   *)
(* is proved of BudgetLedger holds under these turns.                      *)
LedgerSpec == Ledger!Spec

Promise == INSTANCE TurnPromise WITH
    text  <- shown,
    live  <- {t \in Turns : ~Buffered(t)},
    phase <- [t \in Turns |->
                CASE pc[t] \in {"idle", "preflight"} -> "waiting"
                  [] pc[t] = "dropped"               -> "gone"
                  [] pc[t] \in Ended \ {"dropped"}   -> pc[t]
                  [] OTHER                           -> "running"]

(* Every turn keeps what TurnPromise says: an answer is complete only when *)
(* it is paid; but for an unbuffered stream, whose client has the deltas   *)
(* and may have the whole text before record_usage, no text is shown       *)
(* before it is paid; a paid turn stays paid, an unpaid one gives its      *)
(* estimate back or loses it.                                              *)
KeepsPromise == Promise!Spec

(* Every estimate is settled in the end, unless the client left at         *)
(* StreamStarted.                                                          *)
EventuallySettled ==
    \A t \in Turns : (t \in DOMAIN reservations)
                       ~> (t \notin DOMAIN reservations \/ pc[t] = "dropped")

(* What the walkthrough says of failed calls: once a turn is over its      *)
(* estimate is no longer held.                                             *)
ReleasedWhenOver ==
    \A t \in Turns : pc[t] \in Ended => t \notin DOMAIN reservations
=============================================================================
