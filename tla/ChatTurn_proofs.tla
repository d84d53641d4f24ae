-------------------------- MODULE ChatTurn_proofs --------------------------
(***************************************************************************)
(* Proofs about ChatTurn, for every set of turns, kinds of turn, requests, *)
(* flag settings and limits of the ledger, and about the quota per minute  *)
(* that a turn passes before it reserves (RateLimit), for every set of     *)
(* processes, every limit and every window.                                *)
(***************************************************************************)
EXTENDS ChatTurn, RateLimit, FiniteSetTheorems, TLAPS

-----------------------------------------------------------------------------
(* The inductive invariant.                                                *)

(* The loop is inside a settlement while a turn settles, and of one turn.  *)
OneSettles ==
    \A t \in Turns : pc[t] \in Settling =>
        /\ ~LoopFree
        /\ \A s \in Turns : pc[s] \in Settling => s = t

(* What a turn has behind it at each place.                                *)
Stages ==
    \A t \in Turns :
        /\ pc[t] = "idle" => shown[t] = "none"
        /\ pc[t] = "crediting" => Kind(t) = "complete"
        /\ pc[t] \in {"checking", "delivering", "answered"}
             => money[t] \in {"charged", "free"}
        /\ pc[t] = "delivering" => shown[t] = "all" /\ t \in vetted

(* The second and the third part of HeldByTurn.                            *)
Reserved ==
    /\ DOMAIN reservations \subseteq {t \in Turns : pc[t] \in Holding \cup {"dropped"}}
    /\ \A t \in Turns : pc[t] \in Holding => t \in DOMAIN reservations

IInv == /\ TypeOK /\ Reserved /\ OneSettles /\ Stages
        /\ NothingUnvetted /\ RememberedHonestly

-----------------------------------------------------------------------------
(* What the turns need to know of the ledger's operations.                 *)

LEMMA ReserveEffect ==
    ASSUME NEW t, NEW q, NEW readable, Ledger!Reserve(t, q, readable)
    PROVE  /\ DOMAIN reservations' = DOMAIN reservations \cup {t}
           /\ DOMAIN applying' = DOMAIN applying
BY DEF Ledger!Reserve, Ledger!With

LEMMA TakeEffect ==
    ASSUME NEW thread, NEW t,
           Ledger!Release(thread, t) \/ Ledger!RecordUsage(thread, t)
    PROVE  /\ t \in DOMAIN reservations
           /\ DOMAIN reservations' = DOMAIN reservations \ {t}
           /\ DOMAIN applying' = DOMAIN applying \cup {thread}
<1>1. PICK used : Ledger!Take(thread, t, used)
  BY DEF Ledger!Release, Ledger!RecordUsage
<1> QED
  BY <1>1 DEF Ledger!Take, Ledger!With, Ledger!Without

LEMMA UnreservedEffect ==
    ASSUME NEW thread, NEW who, NEW used,
           Ledger!RecordUnreserved(thread, who, used)
    PROVE  /\ DOMAIN reservations' = DOMAIN reservations
           /\ DOMAIN applying' = DOMAIN applying \cup {thread}
BY DEF Ledger!RecordUnreserved, Ledger!With

LEMMA ApplyEffect ==
    ASSUME NEW thread, NEW readable,
           Ledger!Apply(thread, readable) \/ Ledger!ApplyFails(thread)
    PROVE  /\ thread \in DOMAIN applying
           /\ DOMAIN reservations' = DOMAIN reservations
           /\ DOMAIN applying' = DOMAIN applying \ {thread}
BY DEF Ledger!Apply, Ledger!ApplyFails, Ledger!Without

\* What the steps that call it need.
LEMMA ScanEffect ==
    ASSUME NEW t, Scan(t)
    PROVE  /\ DOMAIN reservations' = DOMAIN reservations
           /\ DOMAIN applying' = DOMAIN applying \cup {Loop}
BY UnreservedEffect DEF Scan

LEMMA CacheEffect ==
    ASSUME NEW t, CacheAnswers(t)
    PROVE  /\ t \in DOMAIN reservations
           /\ DOMAIN reservations' = DOMAIN reservations \ {t}
           /\ DOMAIN applying' = DOMAIN applying \cup {Loop}
BY TakeEffect DEF CacheAnswers

LEMMA BillFailsEffect ==
    ASSUME NEW t, BillScanFails(t)
    PROVE  /\ Loop \in DOMAIN applying
           /\ DOMAIN reservations' = DOMAIN reservations
           /\ DOMAIN applying' = DOMAIN applying \ {Loop}
BY ApplyEffect DEF BillScanFails

LEMMA CrashEffect ==
    ASSUME Ledger!Crash
    PROVE  DOMAIN reservations' = {} /\ DOMAIN applying' = {}
BY DEF Ledger!Crash

LEMMA InitInductive == Init => IInv
<1> SUFFICES ASSUME Init PROVE IInv
  OBVIOUS
<1>1. TypeOK
  BY TurnAssumption DEF Init, TypeOK, Places, Holding, Settling, Ended
<1>2. Reserved
  BY <1>1 DEF Init, Reserved, Ledger!Init, Holding
<1>3. OneSettles /\ Stages /\ NothingUnvetted /\ RememberedHonestly
  BY DEF Init, OneSettles, Stages, NothingUnvetted, RememberedHonestly, Settling
<1> QED
  BY <1>1, <1>2, <1>3 DEF IInv

LEMMA NextInductive ==
    ASSUME IInv, [Next]_vars
    PROVE  IInv'
<1> USE TurnAssumption DEF IInv, TypeOK, Reserved, OneSettles, Stages,
        NothingUnvetted, RememberedHonestly, Goto, Step, Pays, Kind, Snap, LoopFree,
        Ledger!Free, Places, Holding, Settling, Ended, ledger, turn
<1>1. ASSUME NEW t \in Turns, Arrive(t) PROVE IInv'
  BY <1>1 DEF Arrive
<1>2. ASSUME NEW t \in Turns, Refuse(t) PROVE IInv'
  BY <1>2 DEF Refuse
<1>3. ASSUME NEW t \in Turns, NEW readable \in BOOLEAN,
              Admit(t, readable)
       PROVE  IInv'
  <2>1. /\ DOMAIN reservations' = DOMAIN reservations \cup {t}
        /\ DOMAIN applying' = DOMAIN applying
    BY <1>3, ReserveEffect DEF Admit
  <2>2. TypeOK'
    BY <1>3 DEF Admit
  <2>3. Reserved' /\ OneSettles'
    BY <1>3, <2>1 DEF Admit
  <2>4. Stages' /\ NothingUnvetted' /\ RememberedHonestly'
    BY <1>3 DEF Admit
  <2> QED
    BY <2>2, <2>3, <2>4
<1>4. ASSUME NEW t \in Turns, Scan(t) PROVE IInv'
  <2>1. /\ DOMAIN reservations' = DOMAIN reservations
        /\ DOMAIN applying' = DOMAIN applying \cup {Loop}
    BY <1>4, ScanEffect
  <2>2. TypeOK'
    BY <1>4 DEF Scan
  <2>3. Reserved' /\ OneSettles'
    BY <1>4, <2>1 DEF Scan
  <2>4. Stages' /\ NothingUnvetted' /\ RememberedHonestly'
    BY <1>4 DEF Scan
  <2> QED
    BY <2>2, <2>3, <2>4
<1>5. ASSUME NEW t \in Turns, Resume(t) PROVE IInv'
  <2> DEFINE from == pc[t]
  <2>4. /\ from \in {"started", "emitting"} /\ pc' = [pc EXCEPT ![t] = "calling"]
        /\ UNCHANGED <<ledger, flags, snap, shown, remember, vetted, recorded, money>>
    BY <1>5 DEF Resume
  <2>1. TypeOK'
    BY <2>4
  <2>2. Reserved' /\ OneSettles'
    BY <2>4
  <2>3. Stages' /\ NothingUnvetted' /\ RememberedHonestly'
    BY <2>4
  <2> QED
    BY <2>1, <2>2, <2>3
<1>6. ASSUME NEW t \in Turns, Chunk(t) PROVE IInv'
  BY <1>6 DEF Chunk, Buffered
<1>7. ASSUME NEW t \in Turns, ProviderAnswers(t) PROVE IInv'
  <2>1. /\ t \in DOMAIN reservations
        /\ DOMAIN reservations' = DOMAIN reservations \ {t}
        /\ DOMAIN applying' = DOMAIN applying \cup {Loop}
    BY <1>7, TakeEffect DEF ProviderAnswers
  <2>2. TypeOK'
    BY <1>7 DEF ProviderAnswers
  <2>3. Reserved' /\ OneSettles'
    BY <1>7, <2>1 DEF ProviderAnswers
  <2>4. Stages' /\ NothingUnvetted' /\ RememberedHonestly'
    BY <1>7 DEF ProviderAnswers
  <2> QED
    BY <2>2, <2>3, <2>4
<1>8. ASSUME NEW t \in Turns, CacheAnswers(t) PROVE IInv'
  <2>1. /\ t \in DOMAIN reservations
        /\ DOMAIN reservations' = DOMAIN reservations \ {t}
        /\ DOMAIN applying' = DOMAIN applying \cup {Loop}
    BY <1>8, CacheEffect
  <2>2. TypeOK'
    BY <1>8 DEF CacheAnswers
  <2>3. Reserved' /\ OneSettles'
    BY <1>8, <2>1 DEF CacheAnswers
  <2>4. Stages' /\ NothingUnvetted' /\ RememberedHonestly'
    BY <1>8 DEF CacheAnswers
  <2> QED
    BY <2>2, <2>3, <2>4
<1>9. ASSUME NEW t \in Turns, ProviderFails(t) PROVE IInv'
  <2>1. /\ t \in DOMAIN reservations
        /\ DOMAIN reservations' = DOMAIN reservations \ {t}
        /\ DOMAIN applying' = DOMAIN applying \cup {Loop}
    BY <1>9, TakeEffect DEF ProviderFails
  <2>2. TypeOK'
    BY <1>9 DEF ProviderFails
  <2>3. Reserved' /\ OneSettles'
    BY <1>9, <2>1 DEF ProviderFails
  <2>4. Stages' /\ NothingUnvetted' /\ RememberedHonestly'
    BY <1>9 DEF ProviderFails
  <2> QED
    BY <2>2, <2>3, <2>4
<1>10. ASSUME NEW t \in Turns, NEW readable \in BOOLEAN,
              Settle(t, readable)
       PROVE  IInv'
  <2>1. /\ Loop \in DOMAIN applying
        /\ DOMAIN reservations' = DOMAIN reservations
        /\ DOMAIN applying' = DOMAIN applying \ {Loop}
    BY <1>10, ApplyEffect DEF Settle, After, Outcome
  <2>2. TypeOK'
    BY <1>10 DEF Settle, After, Outcome
  <2>3. Reserved' /\ OneSettles'
    BY <1>10, <2>1 DEF Settle, After, Outcome
  <2>4. Stages' /\ NothingUnvetted' /\ RememberedHonestly'
    BY <1>10 DEF Settle, After, Outcome
  <2> QED
    BY <2>2, <2>3, <2>4
<1>11. ASSUME NEW t \in Turns, SettleFails(t) PROVE IInv'
  <2>1. /\ Loop \in DOMAIN applying
        /\ DOMAIN reservations' = DOMAIN reservations
        /\ DOMAIN applying' = DOMAIN applying \ {Loop}
    BY <1>11, ApplyEffect DEF SettleFails
  <2>2. TypeOK'
    BY <1>11 DEF SettleFails
  <2>3. Reserved' /\ OneSettles'
    BY <1>11, <2>1 DEF SettleFails
  <2>4. Stages' /\ NothingUnvetted' /\ RememberedHonestly'
    BY <1>11 DEF SettleFails
  <2> QED
    BY <2>2, <2>3, <2>4
<1>12. ASSUME NEW readable \in BOOLEAN, BillScan(readable) PROVE IInv'
  <2>1. /\ Loop \in DOMAIN applying
        /\ DOMAIN reservations' = DOMAIN reservations
        /\ DOMAIN applying' = DOMAIN applying \ {Loop}
    BY <1>12, ApplyEffect DEF BillScan
  <2>2. TypeOK'
    BY <1>12 DEF BillScan
  <2>3. Reserved' /\ OneSettles'
    BY <1>12, <2>1 DEF BillScan
  <2>4. Stages' /\ NothingUnvetted' /\ RememberedHonestly'
    BY <1>12 DEF BillScan
  <2> QED
    BY <2>2, <2>3, <2>4
<1>13. ASSUME NEW t \in Turns, BillScanFails(t) PROVE IInv'
  <2>1. /\ Loop \in DOMAIN applying
        /\ DOMAIN reservations' = DOMAIN reservations
        /\ DOMAIN applying' = DOMAIN applying \ {Loop}
    BY <1>13, BillFailsEffect
  <2>2. TypeOK'
    BY <1>13 DEF BillScanFails
  <2>3. Reserved' /\ OneSettles'
    BY <1>13, <2>1 DEF BillScanFails
  <2>4. Stages' /\ NothingUnvetted' /\ RememberedHonestly'
    BY <1>13 DEF BillScanFails
  <2> QED
    BY <2>2, <2>3, <2>4
<1>14. ASSUME NEW t \in Turns, Vet(t) PROVE IInv'
  <2>1. TypeOK'
    <3>1. /\ pc[t] = "checking"
          /\ pc' = [pc EXCEPT ![t] = "delivering"] \/ pc' = [pc EXCEPT ![t] = "answered"]
          /\ shown' = [shown EXCEPT ![t] = "all"] /\ vetted' = vetted \cup {t}
          /\ UNCHANGED <<flags, snap, money>>
      BY <1>14 DEF Vet
    <3>2. \/ remember' = remember \cup {t} /\ recorded' = recorded \cup {t}
          \/ UNCHANGED <<remember, recorded>>
      BY <1>14 DEF Vet, ScheduleRecord
    <3> QED
      BY <3>1, <3>2
  <2>2. Reserved' /\ OneSettles'
    <3>1. /\ pc[t] = "checking"
          /\ pc' = [pc EXCEPT ![t] = "delivering"] \/ pc' = [pc EXCEPT ![t] = "answered"]
          /\ UNCHANGED ledger
      BY <1>14 DEF Vet
    <3> QED
      BY <3>1
  <2>3. Stages' /\ NothingUnvetted' /\ RememberedHonestly'
    BY <1>14 DEF Vet, ScheduleRecord
  <2> QED
    BY <2>1, <2>2, <2>3
<1>15. ASSUME NEW t \in Turns, Block(t) PROVE IInv'
  BY <1>15 DEF Block
<1>16. ASSUME NEW t \in Turns, Finish(t) PROVE IInv'
  BY <1>16 DEF Finish, ScheduleRecord
<1>17. ASSUME NEW t \in Turns, Disconnect(t) PROVE IInv'
  BY <1>17 DEF Disconnect
<1>18. ASSUME NEW t \in Turns, DisconnectIdle(t) PROVE IInv'
  BY <1>18 DEF DisconnectIdle
<1>19. ASSUME NEW t \in Turns, DisconnectAtStart(t) PROVE IInv'
  BY <1>19 DEF DisconnectAtStart
<1>20. ASSUME NEW t \in Turns, Unwind(t) PROVE IInv'
  <2>1. /\ t \in DOMAIN reservations
        /\ DOMAIN reservations' = DOMAIN reservations \ {t}
        /\ DOMAIN applying' = DOMAIN applying \cup {Loop}
    BY <1>20, TakeEffect DEF Unwind
  <2>2. TypeOK'
    BY <1>20 DEF Unwind
  <2>3. Reserved' /\ OneSettles'
    BY <1>20, <2>1 DEF Unwind
  <2>4. Stages' /\ NothingUnvetted' /\ RememberedHonestly'
    BY <1>20 DEF Unwind
  <2> QED
    BY <2>2, <2>3, <2>4
<1>21. ASSUME NEW t \in Turns, Extract(t) PROVE IInv'
  <2>1. /\ DOMAIN reservations' = DOMAIN reservations
        /\ DOMAIN applying' = DOMAIN applying \cup {Worker}
    BY <1>21, UnreservedEffect DEF Extract
  <2>2. TypeOK'
    BY <1>21 DEF Extract
  <2>3. Reserved' /\ OneSettles'
    BY <1>21, <2>1 DEF Extract
  <2>4. Stages' /\ NothingUnvetted' /\ RememberedHonestly'
    BY <1>21 DEF Extract
  <2> QED
    BY <2>2, <2>3, <2>4
<1>22. ASSUME NEW readable \in BOOLEAN,
              BillExtract(readable) \/ BillExtractFails
       PROVE  IInv'
  <2>1. /\ Worker \in DOMAIN applying
        /\ DOMAIN reservations' = DOMAIN reservations
        /\ DOMAIN applying' = DOMAIN applying \ {Worker}
    BY <1>22, ApplyEffect DEF BillExtract, BillExtractFails
  <2>2. TypeOK'
    BY <1>22 DEF BillExtract, BillExtractFails
  <2>3. Reserved' /\ OneSettles'
    BY <1>22, <2>1 DEF BillExtract, BillExtractFails
  <2>4. Stages' /\ NothingUnvetted' /\ RememberedHonestly'
    BY <1>22 DEF BillExtract, BillExtractFails
  <2> QED
    BY <2>2, <2>3, <2>4
<1>23. CASE SetFlags
  BY <1>23 DEF SetFlags
<1>24. CASE Midnight
  BY <1>24 DEF Midnight, Ledger!Midnight
<1>25. CASE Crash
  <2>1. DOMAIN reservations' = {} /\ DOMAIN applying' = {}
    BY <1>25, CrashEffect DEF Crash, Underway
  <2>2. TypeOK'
    BY <1>25 DEF Crash, Underway
  <2>3. Reserved' /\ OneSettles'
    BY <1>25, <2>1 DEF Crash, Underway
  <2>4. Stages' /\ NothingUnvetted' /\ RememberedHonestly'
    BY <1>25 DEF Crash, Underway
  <2> QED
    BY <2>2, <2>3, <2>4
<1>26. CASE UNCHANGED vars
  BY <1>26 DEF vars
<1> HIDE DEF IInv
<1> QED
  BY <1>1, <1>2, <1>3, <1>4, <1>5, <1>6, <1>7, <1>8, <1>9, <1>10, <1>11, <1>12,
     <1>13, <1>14, <1>15, <1>16, <1>17, <1>18, <1>19, <1>20, <1>21, <1>22,
     <1>23, <1>24, <1>25, <1>26 DEF Next, TurnStep

(* The inductive invariant holds in every state of the turns.              *)
THEOREM Inductive == Spec => []IInv
<1>1. IInv /\ [Next]_vars => IInv'
  BY NextInductive
<1> QED
  BY InitInductive, <1>1, PTL DEF Spec

(* A turn holds its reservation exactly between reserve and settlement,    *)
(* wherever it is overtaken, fails or loses its client; only a client that *)
(* leaves at StreamStarted leaves one behind.                              *)
THEOREM Reservations == Spec => []HeldByTurn
<1>1. IInv => HeldByTurn
  BY DEF IInv, Reserved, HeldByTurn
<1> QED
  BY Inductive, <1>1, PTL

(* No text that has not passed redaction and the outbound guard reaches    *)
(* the client of a turn that started under them.                           *)
THEOREM ShownIsVetted == Spec => []NothingUnvetted
<1>1. IInv => NothingUnvetted
  BY DEF IInv
<1> QED
  BY Inductive, <1>1, PTL

(* Memory is handed only exchanges that were paid, vetted and answered.    *)
THEOREM MemoryIsHonest == Spec => []RememberedHonestly
<1>1. IInv => RememberedHonestly
  BY DEF IInv
<1> QED
  BY Inductive, <1>1, PTL

-----------------------------------------------------------------------------
(* Turns and guard calls touch the ledger only by its own operations.      *)

(* Every step of the turns is a step of the ledger or leaves it alone.     *)
LEMMA LedgerStep ==
    ASSUME [Next]_vars
    PROVE  [Ledger!Next]_Ledger!vars
<1> USE DEF Ledger!Next, Ledger!vars, ledger
<1>1. ASSUME NEW t \in Turns, NEW readable \in BOOLEAN, Admit(t, readable)
      PROVE  Ledger!Next
  BY <1>1 DEF Admit
<1>2. ASSUME NEW t \in Turns,
             Ledger!Release(Loop, t) \/ Ledger!RecordUsage(Loop, t)
      PROVE  Ledger!Next
  BY <1>2
<1>3. ASSUME NEW t \in Turns, Scan(t) \/ Extract(t)
      PROVE  Ledger!Next
  <2>1. Want[t].who \in Ledger!Accounts
    BY LedgerAssumption DEF Ledger!Request
  <2>2. PICK used \in Uses, thread \in {Loop, Worker} :
           Ledger!RecordUnreserved(thread, Want[t].who, used)
    BY <1>3 DEF Scan, Extract
  <2> QED
    BY <2>1, <2>2
<1>4. ASSUME NEW thread \in {Loop, Worker}, NEW readable \in BOOLEAN,
             Ledger!Apply(thread, readable) \/ Ledger!ApplyFails(thread)
      PROVE  Ledger!Next
  BY <1>4
<1> HIDE DEF Ledger!Next
<1>5. ASSUME NEW t \in Turns, TurnStep(t)
      PROVE  Ledger!Next \/ UNCHANGED ledger
  BY <1>1, <1>2, <1>3, <1>4, <1>5
     DEF TurnStep, Arrive, Refuse, Resume, Chunk, ProviderAnswers, CacheAnswers,
         ProviderFails, Settle, SettleFails, BillScanFails, Vet, Block, Finish,
         Disconnect, DisconnectIdle, DisconnectAtStart, Unwind
<1>6. ASSUME NEW readable \in BOOLEAN, BillScan(readable) \/ BillExtract(readable)
      PROVE  Ledger!Next
  BY <1>4, <1>6 DEF BillScan, BillExtract
<1>7. CASE BillExtractFails
  BY <1>4, <1>7 DEF BillExtractFails
<1>8. CASE SetFlags
  BY <1>8 DEF SetFlags
<1>9. CASE Midnight \/ Crash
  BY <1>9 DEF Midnight, Crash, Ledger!Next
<1>10. CASE UNCHANGED vars
  BY <1>10 DEF vars
<1> QED
  BY <1>5, <1>6, <1>7, <1>8, <1>9, <1>10 DEF Next

(* The composition implements BudgetLedger: Spec => LedgerSpec.            *)
THEOREM UsesTheLedger == Spec => LedgerSpec
<1>1. Init => Ledger!Init
  BY DEF Init
<1>2. [Next]_vars => [Ledger!Next]_Ledger!vars
  BY LedgerStep
<1> QED
  BY <1>1, <1>2, PTL DEF Spec, LedgerSpec, Ledger!Spec

-----------------------------------------------------------------------------
(* What is proved of BudgetLedger holds under the turns.                   *)

Proved == INSTANCE BudgetLedger_proofs WITH
            Rids <- Turns, Threads <- {Loop, Worker},
            Requests <- {Want[t] : t \in Turns}

(* The two instances of BudgetLedger are the same specification.           *)
LEMMA SameLedger ==
    /\ Ledger!Init <=> Proved!Init
    /\ [Ledger!Next]_Ledger!vars <=> [Proved!Next]_Proved!vars
    /\ Ledger!Conservation <=> Proved!Conservation
    /\ Ledger!CapHonoured <=> Proved!CapHonoured
    /\ Ledger!UsageBounded <=> Proved!UsageBounded
<1> USE DEF Ledger!Meters, Proved!Meters, Ledger!Accounts, Proved!Accounts,
        Ledger!Buckets, Proved!Buckets, Ledger!EmptyLedger, Proved!EmptyLedger,
        Ledger!NoCap, Proved!NoCap, Ledger!Nothing, Proved!Nothing,
        Ledger!Load, Proved!Load, Ledger!Spent, Proved!Spent,
        Ledger!Books, Proved!Books, Ledger!Holds, Proved!Holds,
        Ledger!Units, Proved!Units, Ledger!Outstanding, Proved!Outstanding,
        Ledger!Owed, Proved!Owed,
        Ledger!UnwrittenUnits, Proved!UnwrittenUnits,
        Ledger!Unwritten, Proved!Unwritten, Ledger!Cardinality, Proved!Cardinality
<1>1. Ledger!Init <=> Proved!Init
  BY DEF Ledger!Init, Proved!Init
<1>2. [Ledger!Next]_Ledger!vars <=> [Proved!Next]_Proved!vars
  BY DEF Ledger!vars, Proved!vars, Ledger!Next, Proved!Next,
         Ledger!Reserve, Proved!Reserve, Ledger!Release, Proved!Release,
         Ledger!RecordUsage, Proved!RecordUsage, Ledger!Take, Proved!Take,
         Ledger!RecordUnreserved, Proved!RecordUnreserved,
         Ledger!Apply, Proved!Apply, Ledger!ApplyFails, Proved!ApplyFails,
         Ledger!Crash, Proved!Crash, Ledger!Midnight, Proved!Midnight,
         Ledger!ReadOutcome, Proved!ReadOutcome, Ledger!Fault, Proved!Fault,
         Ledger!CapsAllow, Proved!CapsAllow, Ledger!Read, Proved!Read,
         Ledger!Bump, Proved!Bump, Ledger!FloorAtZero, Proved!FloorAtZero,
         Ledger!Tally, Proved!Tally, Ledger!Forget, Proved!Forget,
         Ledger!With, Proved!With, Ledger!Without, Proved!Without,
         Ledger!Free, Proved!Free, Ledger!history, Proved!history
<1>3. Ledger!Conservation <=> Proved!Conservation
  BY DEF Ledger!Conservation, Proved!Conservation
<1>4. Ledger!CapHonoured <=> Proved!CapHonoured
  BY DEF Ledger!CapHonoured, Proved!CapHonoured
<1>5. Ledger!UsageBounded <=> Proved!UsageBounded
  BY DEF Ledger!UsageBounded, Proved!UsageBounded
<1> QED
  BY <1>1, <1>2, <1>3, <1>4, <1>5

(* Under any interleaving of turns, guard calls, memory workers, crashes   *)
(* and midnights the books of the ledger are kept, no cap is passed by     *)
(* admission, and what is used and still held today stays within it.       *)
THEOREM LedgerUnderTurns ==
    Spec => [](Ledger!Conservation /\ Ledger!CapHonoured /\ Ledger!UsageBounded)
<1>1. /\ Global \notin Keys
      /\ Cap \in [Proved!Buckets -> Int]
      /\ InputLimit \in Nat
      /\ {Want[t] : t \in Turns} \subseteq Proved!Request
      /\ \A q \in {Want[t] : t \in Turns} : ~q.priced => q.charge["usd"] = 0
      /\ Uses \subseteq Proved!Amount
      /\ MaxDay \in Nat /\ MaxUnreserved \in Nat /\ MaxFaults \in Nat
  <2> USE LedgerAssumption
      DEF Ledger!Meters, Proved!Meters, Ledger!Accounts, Proved!Accounts,
          Ledger!Buckets, Proved!Buckets, Ledger!Amount, Proved!Amount,
          Ledger!Request, Proved!Request
  <2>1. {Want[t] : t \in Turns} \subseteq Proved!Request
    OBVIOUS
  <2> QED
    BY <2>1
<1>2. /\ Proved!Spec => []Proved!Conservation
      /\ Proved!Spec => []Proved!CapHonoured
      /\ Proved!Spec => []Proved!UsageBounded
  BY <1>1, Proved!LedgerConserved, Proved!CapRespected, Proved!UsageWithinCap
<1> QED
  BY <1>2, SameLedger, UsesTheLedger, PTL DEF LedgerSpec, Ledger!Spec, Proved!Spec

-----------------------------------------------------------------------------
(* Every turn keeps the promise.                                           *)

\* The phase of TurnPromise for a place.
PhaseOf(place) ==
    CASE place \in {"idle", "preflight"}    -> "waiting"
      [] place = "dropped"                  -> "gone"
      [] place \in Ended \ {"dropped"}      -> place
      [] OTHER                              -> "running"

Phases == [t \in Turns |-> PhaseOf(pc[t])]

LEMMA PhaseOfPlace ==
    /\ \A place \in {"idle", "preflight"} : PhaseOf(place) = "waiting"
    /\ PhaseOf("dropped") = "gone"
    /\ \A place \in {"answered", "failed", "refused", "gone"} :
          PhaseOf(place) = place
    /\ \A place \in {"checking", "delivering"} \cup Holding \cup Settling :
          PhaseOf(place) = "running"
BY DEF PhaseOf, Ended, Holding, Settling

LEMMA PhaseMoves ==
    ASSUME TypeOK, NEW t \in Turns, NEW place, Goto(t, place)
    PROVE  Phases' = [Phases EXCEPT ![t] = PhaseOf(place)]
BY DEF TypeOK, Goto, Phases

LEMMA PhaseStays ==
    ASSUME TypeOK, NEW t \in Turns, NEW place, Goto(t, place),
           PhaseOf(place) = PhaseOf(pc[t])
    PROVE  Phases' = Phases
<1>1. \A s \in Turns : PhaseOf(pc[s])' = PhaseOf(pc[s])
  BY DEF TypeOK, Goto
<1> QED
  BY <1>1 DEF Phases

\* The turns whose text is passed on as it is produced: unbuffered streams.
LiveTurns == {t \in Turns : ~Buffered(t)}

LEMMA LiveStays ==
    ASSUME snap' = snap
    PROVE  LiveTurns' = LiveTurns
BY DEF LiveTurns, Buffered, Kind, Snap

\* TurnPromise over the phases; Promise maps the same function and set.
Kept == INSTANCE TurnPromise WITH
          text <- shown, phase <- Phases, live <- LiveTurns

LEMMA SamePromise ==
    /\ Kept!Init <=> Promise!Init
    /\ [Kept!Next]_Kept!vars <=> [Promise!Next]_Promise!vars
<1> USE DEF Phases, PhaseOf, LiveTurns
<1>1. Kept!Init <=> Promise!Init
  BY DEF Kept!Init, Promise!Init
<1>2. [Kept!Next]_Kept!vars <=> [Promise!Next]_Promise!vars
  BY DEF Kept!vars, Promise!vars, Kept!Next, Promise!Next,
         Kept!Begin, Promise!Begin, Kept!Refuse, Promise!Refuse, Kept!Admit, Promise!Admit,
         Kept!Show, Promise!Show, Kept!Pay, Promise!Pay,
         Kept!Answer, Promise!Answer, Kept!BreakOff, Promise!BreakOff,
         Kept!Crash, Promise!Crash, Kept!Paid, Promise!Paid
<1> QED
  BY <1>1, <1>2

(* Every step of the turns is one of the promise, or shows nothing of it.  *)
LEMMA PromiseStep ==
    ASSUME IInv, [Next]_vars
    PROVE  [Kept!Next]_Kept!vars
<1> USE PhaseOfPlace, LiveStays
        DEF IInv, TypeOK, Step, Pays, Kind, Holding, Settling, ledger, turn,
            Kept!vars, Kept!Paid
<1>1. \A t \in Turns : Phases[t] = PhaseOf(pc[t])
  BY DEF Phases
<1>2. ASSUME NEW t \in Turns, Arrive(t) PROVE Kept!Begin(t)
  <2>1. Phases' = Phases /\ Phases[t] = "waiting"
    BY <1>1, <1>2, PhaseStays DEF Arrive
  <2>2. \A s \in Turns \ {t} : (s \in LiveTurns)' <=> s \in LiveTurns
    BY <1>2 DEF Arrive, LiveTurns, Buffered, Snap
  <2>3. LiveTurns' \in {LiveTurns \cup {t}, LiveTurns \ {t}}
    BY <2>2 DEF LiveTurns
  <2> QED
    BY <1>2, <2>1, <2>3 DEF Arrive, Kept!Begin
<1>3. ASSUME NEW t \in Turns, Refuse(t) PROVE Kept!Refuse(t)
  <2>1. Phases' = [Phases EXCEPT ![t] = "refused"]
    BY <1>3, PhaseMoves DEF Refuse
  <2> QED
    BY <1>1, <1>3, <2>1 DEF Refuse, Kept!Refuse
<1>4. ASSUME NEW t \in Turns, NEW readable \in BOOLEAN, Admit(t, readable)
      PROVE  Kept!Admit(t)
  <2>1. Phases' = [Phases EXCEPT ![t] = "running"]
    BY <1>4, PhaseMoves DEF Admit
  <2> QED
    BY <1>1, <1>4, <2>1 DEF Admit, Kept!Admit
<1>5. ASSUME NEW t \in Turns,
             Resume(t) \/ ProviderAnswers(t) \/ CacheAnswers(t)
               \/ ProviderFails(t) \/ Disconnect(t) \/ Unwind(t)
      PROVE  UNCHANGED Kept!vars
  <2>1. Phases' = Phases
    BY <1>5, PhaseStays DEF Resume, ProviderAnswers, CacheAnswers,
       ProviderFails, Disconnect, Unwind
  <2> QED
    BY <1>5, <2>1 DEF Resume, ProviderAnswers, CacheAnswers, ProviderFails,
       Disconnect, Unwind
<1>6. ASSUME NEW t \in Turns, Chunk(t) PROVE Kept!Show(t)
  <2>1. Phases[t] = "running"
    BY <1>1, <1>6 DEF Chunk
  <2>2. Phases' = Phases
    BY <1>6, PhaseStays DEF Chunk
  <2> QED
    BY <1>6, <2>1, <2>2 DEF Chunk, LiveTurns, Kept!Show
<1>7. ASSUME NEW t \in Turns, NEW readable \in BOOLEAN, Settle(t, readable)
      PROVE  Kept!Pay(t) \/ Kept!Answer(t) \/ Kept!BreakOff(t)
  <2>1. Phases[t] = "running" /\ money[t] = "held"
    BY <1>1, <1>7 DEF Settle
  <2>2. Phases' = [Phases EXCEPT ![t] = PhaseOf(After(t))]
    BY <1>7, PhaseMoves DEF Settle
  <2>3. CASE After(t) = "checking"
    <3>1. Phases' = Phases
      BY <1>7, <2>3, PhaseStays DEF Settle
    <3> QED
      BY <1>7, <2>1, <2>3, <3>1 DEF Settle, After, Outcome, Kept!Pay
  <2>4. CASE After(t) = "answered"
    BY <1>7, <2>1, <2>2, <2>4 DEF Settle, After, Outcome, Stages, Kept!Answer
  <2>5. CASE After(t) \in {"failed", "gone"}
    BY <1>7, <2>1, <2>2, <2>5 DEF Settle, After, Outcome, Kept!BreakOff
  <2> QED
    BY <1>7, <2>3, <2>4, <2>5 DEF Settle, After
<1>8. ASSUME NEW t \in Turns, SettleFails(t) PROVE Kept!BreakOff(t)
  <2>1. Phases[t] = "running" /\ money[t] = "held"
    BY <1>1, <1>8 DEF SettleFails
  <2>2. \E end \in {"failed", "gone"} : Phases' = [Phases EXCEPT ![t] = end]
    BY <1>8, PhaseMoves DEF SettleFails
  <2> QED
    BY <1>8, <2>1, <2>2 DEF SettleFails, Kept!BreakOff
<1>9. ASSUME NEW t \in Turns, BillScanFails(t)
      PROVE  Kept!Refuse(t) \/ Kept!BreakOff(t) \/ UNCHANGED Kept!vars
  <2>1. CASE pc[t] = "checking"
    <3>1. Phases[t] = "running" /\ Phases' = [Phases EXCEPT ![t] = "failed"]
      BY <1>1, <1>9, <2>1, PhaseMoves DEF BillScanFails
    <3> QED
      BY <1>9, <2>1, <3>1 DEF BillScanFails, Stages, Kept!BreakOff
  <2>2. CASE pc[t] = "preflight"
    <3>1. Phases[t] = "waiting" /\ Phases' = [Phases EXCEPT ![t] = "refused"]
      BY <1>1, <1>9, <2>2, PhaseMoves DEF BillScanFails
    <3> QED
      BY <1>9, <2>2, <3>1 DEF BillScanFails, Kept!Refuse
  <2>3. CASE pc[t] = "refused"
    <3>1. Phases' = Phases
      BY <1>9, <2>3, PhaseStays DEF BillScanFails
    <3> QED
      BY <1>9, <3>1 DEF BillScanFails
  <2> QED
    BY <1>9, <2>1, <2>2, <2>3 DEF BillScanFails
<1>10. ASSUME NEW t \in Turns, Vet(t) PROVE Kept!Show(t) \/ Kept!Answer(t)
  <2>1. Phases[t] = "running" /\ money[t] \in {"charged", "free"}
    BY <1>1, <1>10 DEF Vet, Stages
  <2>2. CASE Step(t, "checking", "delivering")
    <3>1. Phases' = Phases
      BY <2>2, PhaseStays
    <3> QED
      BY <1>10, <2>1, <3>1 DEF Vet, Kept!Show
  <2>3. CASE Step(t, "checking", "answered")
    <3>1. Phases' = [Phases EXCEPT ![t] = "answered"]
      BY <2>3, PhaseMoves
    <3> QED
      BY <1>10, <2>1, <3>1 DEF Vet, Kept!Answer
  <2> QED
    BY <1>10, <2>2, <2>3 DEF Vet
<1>11. ASSUME NEW t \in Turns, Block(t) PROVE Kept!BreakOff(t)
  <2>1. Phases[t] = "running" /\ Phases' = [Phases EXCEPT ![t] = "failed"]
    BY <1>1, <1>11, PhaseMoves DEF Block
  <2> QED
    BY <1>11, <2>1 DEF Block, Stages, Kept!BreakOff
<1>12. ASSUME NEW t \in Turns, Finish(t) PROVE Kept!Answer(t)
  <2>1. Phases[t] = "running" /\ Phases' = [Phases EXCEPT ![t] = "answered"]
    BY <1>1, <1>12, PhaseMoves DEF Finish
  <2>2. shown' = [shown EXCEPT ![t] = "all"]
    BY <1>12 DEF Finish, Stages
  <2> QED
    BY <1>12, <2>1, <2>2 DEF Finish, Stages, Kept!Answer
<1>13. ASSUME NEW t \in Turns, DisconnectIdle(t)
       PROVE  Kept!Refuse(t) \/ Kept!BreakOff(t)
  <2>1. Phases' = [Phases EXCEPT ![t] = "gone"]
    BY <1>13, PhaseMoves DEF DisconnectIdle
  <2> QED
    BY <1>1, <1>13, <2>1
       DEF DisconnectIdle, Stages, Kept!Refuse, Kept!BreakOff
<1>14. ASSUME NEW t \in Turns, DisconnectAtStart(t) PROVE Kept!BreakOff(t)
  <2>1. Phases[t] = "running" /\ Phases' = [Phases EXCEPT ![t] = "gone"]
    BY <1>1, <1>14, PhaseMoves DEF DisconnectAtStart
  <2> QED
    BY <1>14, <2>1 DEF DisconnectAtStart, Kept!BreakOff
<1>15. CASE Crash
  <2> DEFINE waiting == {t \in Turns : pc[t] = "preflight"}
  <2>1. \A t \in Turns : Phases[t] = "running" <=> t \in Underway \ waiting
    BY <1>1 DEF Underway, Ended, Places
  <2>2. waiting \in SUBSET {t \in Turns : Phases[t] = "waiting"}
    BY <1>1
  <2>3. Phases' = [t \in Turns |->
                     IF Phases[t] = "running" \/ t \in waiting THEN "gone"
                                                              ELSE Phases[t]]
    <3>1. \A t \in Turns : PhaseOf(pc[t])' =
             IF t \in Underway THEN "gone" ELSE PhaseOf(pc[t])
      BY <1>15 DEF Crash
    <3>2. waiting \subseteq Underway
      BY DEF Underway, Ended
    <3> QED
      BY <1>1, <2>1, <3>1, <3>2 DEF Phases
  <2>4. money' = [t \in Turns |-> IF Phases[t] = "running" /\ money[t] = "held"
                                  THEN "lost" ELSE money[t]]
    BY <1>15, <2>1 DEF Crash
  <2> HIDE DEF waiting
  <2> QED
    BY <1>15, <2>2, <2>3, <2>4 DEF Crash, Kept!Crash, Kept!Next
<1>16. ASSUME \/ \E t \in Turns : Scan(t) \/ Extract(t)
              \/ \E readable \in BOOLEAN : BillScan(readable) \/ BillExtract(readable)
              \/ BillExtractFails \/ SetFlags \/ Midnight
              \/ UNCHANGED vars
       PROVE  UNCHANGED Kept!vars
  BY <1>16 DEF Scan, Extract, BillScan, BillExtract, BillExtractFails,
     SetFlags, Midnight, vars, Phases
<1> HIDE DEF IInv, Kept!vars
<1> QED
  BY <1>2, <1>3, <1>4, <1>5, <1>6, <1>7, <1>8, <1>9, <1>10, <1>11, <1>12,
     <1>13, <1>14, <1>15, <1>16 DEF Next, TurnStep, Kept!Next

(* The turns implement TurnPromise: what a client is shown and what its    *)
(* budget is charged fit together in every interleaving, with crashes,     *)
(* failed writes and clients that leave.                                   *)
THEOREM PromiseKept == Spec => KeepsPromise
<1>1. Init => Kept!Init
  <2> SUFFICES ASSUME Init PROVE Kept!Init
    OBVIOUS
  <2>1. LiveTurns = {}
    BY DEF Init, LiveTurns, Buffered, Kind
  <2> QED
    BY <2>1, PhaseOfPlace DEF Init, Kept!Init, Phases
<1>2. IInv /\ [Next]_vars => [Kept!Next]_Kept!vars
  BY PromiseStep
<1> QED
  BY <1>1, <1>2, Inductive, SamePromise, PTL DEF Spec, KeepsPromise, Promise!Spec

-----------------------------------------------------------------------------
(* The quota per minute that a turn passes before it reserves: RateLimit.  *)

(* Any number of stamps at any times is a natural number.                  *)
LEMMA NumberProperty ==
    ASSUME NEW f \in [Times -> Nat], NEW top \in Nat, \A t \in Times : f[t] <= top
    PROVE  \A S \in SUBSET Times : IsFiniteSet(Stamps(f, S)) /\ Number(f, S) \in Nat
<1>1. IsFiniteSet(Times) /\ IsFiniteSet(1 .. top)
  BY RateAssumption, FS_Interval DEF Times
<1>2. IsFiniteSet(Times \X (1 .. top))
  BY <1>1, FS_Product
<1> TAKE S \in SUBSET Times
<1>3. ASSUME NEW x \in Stamps(f, S) PROVE x \in Times \X (1 .. top)
  <2>1. PICK t \in S : x \in {t} \X (1 .. f[t])
    BY DEF Stamps
  <2>2. t \in Times /\ f[t] \in Nat /\ f[t] <= top
    OBVIOUS
  <2>3. \A k \in 1 .. f[t] : k \in 1 .. top
    BY <2>2
  <2> QED
    BY <2>1, <2>2, <2>3
<1>4. IsFiniteSet(Stamps(f, S))
  BY <1>2, <1>3, FS_Subset
<1> QED
  BY <1>4, FS_CardinalityType DEF Number

(* Fewer stamps at fewer times are not more.                               *)
LEMMA NumberFewer ==
    ASSUME NEW f \in [Times -> Nat], NEW g \in [Times -> Nat], NEW top \in Nat,
           \A t \in Times : g[t] <= top,
           NEW S \in SUBSET Times, NEW T \in SUBSET Times,
           \A t \in S : f[t] > 0 => t \in T /\ f[t] <= g[t]
    PROVE  Number(f, S) <= Number(g, T)
<1>1. IsFiniteSet(Stamps(g, T))
  BY NumberProperty
<1>2. ASSUME NEW x \in Stamps(f, S) PROVE x \in Stamps(g, T)
  <2>1. PICK t \in S : x \in {t} \X (1 .. f[t])
    BY DEF Stamps
  <2>2. PICK k \in 1 .. f[t] : x = <<t, k>>
    BY <2>1
  <2>3. t \in Times /\ f[t] \in Nat /\ g[t] \in Nat
    OBVIOUS
  <2>4. f[t] > 0
    BY <2>2, <2>3
  <2>5. t \in T /\ k \in 1 .. g[t]
    BY <2>2, <2>3, <2>4
  <2>6. x \in {t} \X (1 .. g[t])
    BY <2>2, <2>5
  <2> QED
    BY <2>5, <2>6 DEF Stamps
<1>3. Stamps(f, S) \in SUBSET Stamps(g, T)
  BY <1>2
<1> QED
  BY <1>1, <1>3, FS_Subset DEF Number

(* One more stamp at a time of the set.                                    *)
LEMMA NumberStamp ==
    ASSUME NEW f \in [Times -> Nat], NEW top \in Nat, \A t \in Times : f[t] <= top,
           NEW S \in SUBSET Times, now \in Times
    PROVE  /\ Stamp(f) \in [Times -> Nat]
           /\ \A t \in Times : Stamp(f)[t] = IF t = now THEN f[t] + 1 ELSE f[t]
           /\ now \in S => Number(Stamp(f), S) = Number(f, S) + 1
           /\ now \notin S => Number(Stamp(f), S) = Number(f, S)
<1> DEFINE g == Stamp(f)
           one == <<now, f[now] + 1>>
<1>1. g \in [Times -> Nat] /\ \A t \in Times : g[t] = IF t = now THEN f[t] + 1 ELSE f[t]
  BY DEF Stamp
<1>2. IsFiniteSet(Stamps(f, S)) /\ Number(f, S) \in Nat
  BY NumberProperty
<1> HIDE DEF g
<1>3. ASSUME now \in S PROVE Stamps(g, S) = Stamps(f, S) \cup {one} /\ one \notin Stamps(f, S)
  <2>1. f[now] \in Nat /\ g[now] = f[now] + 1
    BY <1>1
  <2>2. 1 .. g[now] = 1 .. f[now] \cup {f[now] + 1} /\ f[now] + 1 \notin 1 .. f[now]
    BY <2>1
  <2>3. \A t, k : <<t, k>> \in Stamps(f, S) <=> t \in S /\ k \in 1 .. f[t]
    BY DEF Stamps
  <2>4. \A t, k : <<t, k>> \in Stamps(g, S) <=> t \in S /\ k \in 1 .. g[t]
    BY DEF Stamps
  <2>5. one \notin Stamps(f, S) /\ one \in Stamps(g, S)
    BY <1>3, <2>1, <2>2, <2>3, <2>4
  <2>6. \A x \in Stamps(f, S) : \E t, k : x = <<t, k>>
    BY DEF Stamps
  <2>7. \A x \in Stamps(g, S) : \E t, k : x = <<t, k>>
    BY DEF Stamps
  <2>8. ASSUME NEW x \in Stamps(g, S) PROVE x \in Stamps(f, S) \cup {one}
    <3>1. PICK t, k : x = <<t, k>>
      BY <2>7
    <3>2. t \in S /\ k \in 1 .. g[t]
      BY <2>4, <3>1
    <3>3. CASE t = now
      BY <2>2, <2>3, <3>1, <3>2, <3>3
    <3>4. CASE t # now
      BY <1>1, <2>3, <3>1, <3>2, <3>4
    <3> QED
      BY <3>3, <3>4
  <2>9. ASSUME NEW x \in Stamps(f, S) PROVE x \in Stamps(g, S)
    <3>1. PICK t, k : x = <<t, k>>
      BY <2>6
    <3>2. t \in S /\ k \in 1 .. f[t]
      BY <2>3, <3>1
    <3>3. CASE t = now
      BY <2>2, <2>4, <3>1, <3>2, <3>3
    <3>4. CASE t # now
      BY <1>1, <2>4, <3>1, <3>2, <3>4
    <3> QED
      BY <3>3, <3>4
  <2> QED
    BY <2>5, <2>8, <2>9
<1>4. ASSUME now \in S PROVE Number(g, S) = Number(f, S) + 1
  BY <1>2, <1>3, <1>4, FS_AddElement DEF Number
<1>5. ASSUME now \notin S PROVE Number(g, S) = Number(f, S)
  <2>1. \A t \in S : g[t] = f[t]
    BY <1>1, <1>5
  <2>2. Stamps(g, S) = Stamps(f, S)
    BY <2>1 DEF Stamps
  <2> QED
    BY <2>2 DEF Number
<1> QED
  BY <1>1, <1>4, <1>5 DEF g

(* Times that two sets cover have no more stamps than both sets together.  *)
LEMMA NumberUnion ==
    ASSUME NEW f \in [Times -> Nat], NEW top \in Nat, \A t \in Times : f[t] <= top,
           NEW S \in SUBSET Times, NEW T \in SUBSET Times, NEW U \in SUBSET Times,
           U \subseteq S \cup T
    PROVE  Number(f, U) <= Number(f, S) + Number(f, T)
<1> DEFINE A == Stamps(f, S)
           B == Stamps(f, T)
           C == Stamps(f, U)
<1>1. /\ IsFiniteSet(A) /\ IsFiniteSet(B)
      /\ Cardinality(A) \in Nat /\ Cardinality(B) \in Nat /\ Cardinality(C) \in Nat
  BY NumberProperty DEF Number
<1>2. ASSUME NEW x \in C PROVE x \in A \cup B
  BY DEF Stamps
<1> HIDE DEF A, B, C
<1>3. /\ IsFiniteSet(A \cup B)
      /\ Cardinality(A \cup B) = Cardinality(A) + Cardinality(B) - Cardinality(A \cap B)
  BY <1>1, FS_Union
<1>4. Cardinality(A \cap B) \in Nat
  BY <1>1, FS_Intersection, FS_CardinalityType
<1>5. Cardinality(C) <= Cardinality(A \cup B) /\ Cardinality(A \cup B) \in Nat
  BY <1>2, <1>3, FS_Subset, FS_CardinalityType
<1>6. Cardinality(C) <= Cardinality(A) + Cardinality(B)
  BY <1>1, <1>3, <1>4, <1>5
<1> QED
  BY <1>6 DEF A, B, C, Number

(* A span of one window lies in two aligned windows.                       *)
LEMMA AlignedProperty ==
    /\ \A t \in Times : Aligned(t) \in Windows
    /\ \A t, u \in Times : t <= u /\ u < t + Window =>
         Aligned(u) = Aligned(t) \/ Aligned(u) = Aligned(t) + 1
<1>1. Window \in Nat /\ Window > 0 /\ MaxTime \in Nat
  BY RateAssumption
<1>2. ASSUME NEW t \in Nat
      PROVE  /\ t \div Window \in Nat /\ t % Window \in Nat /\ t % Window < Window
             /\ t = Window * (t \div Window) + (t % Window)
  BY <1>1
<1>3. ASSUME NEW a \in Nat, NEW b \in Nat, a < b
      PROVE  Window * (a + 1) <= Window * b
  <2>1. PICK d \in Nat : b = a + 1 + d
    <3>1. b - a - 1 \in Nat /\ b = a + 1 + (b - a - 1)
      BY <1>3
    <3> QED
      BY <3>1
  <2>2. Window * d \in Nat
    BY <1>1
  <2>3. Window * b = Window * (a + 1) + Window * d
    BY <1>1, <2>1
  <2> QED
    BY <1>1, <2>2, <2>3
<1>4. ASSUME NEW a \in Nat PROVE Window * (a + 1) = Window * a + Window
  BY <1>1
<1>5. ASSUME NEW t \in Nat, NEW u \in Nat, t <= u PROVE t \div Window <= u \div Window
  <2> DEFINE a == t \div Window
             b == u \div Window
  <2>1. /\ a \in Nat /\ b \in Nat
        /\ t = Window * a + (t % Window) /\ u = Window * b + (u % Window)
        /\ t % Window \in Nat /\ u % Window \in Nat /\ t % Window < Window /\ u % Window < Window
    BY <1>2
  <2> HIDE DEF a, b
  <2>2. ASSUME b < a PROVE FALSE
    <3>1. Window * (b + 1) <= Window * a /\ Window * (b + 1) = Window * b + Window
      BY <1>3, <1>4, <2>1, <2>2
    <3>2. Window * a \in Nat /\ Window * b \in Nat
      BY <1>1, <2>1
    <3> QED
      BY <1>1, <1>5, <2>1, <3>1, <3>2
  <2>3. a <= b
    BY <2>1, <2>2
  <2> QED
    BY <2>3 DEF a, b
<1>6. ASSUME NEW t \in Nat, NEW u \in Nat, u < t + Window
      PROVE  u \div Window <= t \div Window + 1
  <2> DEFINE a == t \div Window
             b == u \div Window
  <2>1. /\ a \in Nat /\ b \in Nat
        /\ t = Window * a + (t % Window) /\ u = Window * b + (u % Window)
        /\ t % Window \in Nat /\ u % Window \in Nat /\ t % Window < Window /\ u % Window < Window
    BY <1>2
  <2> HIDE DEF a, b
  <2>2. ASSUME a + 1 < b PROVE FALSE
    <3>1. /\ Window * ((a + 1) + 1) <= Window * b
          /\ Window * ((a + 1) + 1) = Window * (a + 1) + Window
          /\ Window * (a + 1) = Window * a + Window
      <4>1. a + 1 \in Nat
        BY <2>1
      <4> QED
        BY <1>3, <1>4, <2>1, <2>2, <4>1
    <3>2. Window * a \in Nat /\ Window * b \in Nat
      BY <1>1, <2>1
    <3> QED
      BY <1>1, <1>6, <2>1, <3>1, <3>2
  <2>3. b <= a + 1
    BY <2>1, <2>2
  <2> QED
    BY <2>3 DEF a, b
<1>7. \A t \in Times : t \in Nat /\ t <= MaxTime
  BY <1>1 DEF Times
<1>8. ASSUME NEW t \in Times PROVE Aligned(t) \in Windows
  <2>1. t \div Window <= MaxTime \div Window /\ t \div Window \in Nat /\ MaxTime \div Window \in Nat
    BY <1>1, <1>2, <1>5, <1>7
  <2> QED
    BY <2>1 DEF Aligned, Windows
<1>9. ASSUME NEW t \in Times, NEW u \in Times, t <= u, u < t + Window
      PROVE  Aligned(u) = Aligned(t) \/ Aligned(u) = Aligned(t) + 1
  <2>1. /\ t \div Window <= u \div Window /\ u \div Window <= t \div Window + 1
        /\ t \div Window \in Nat /\ u \div Window \in Nat
    BY <1>2, <1>5, <1>6, <1>7, <1>9
  <2> DEFINE a == t \div Window
             b == u \div Window
  <2>2. a \in Nat /\ b \in Nat /\ a <= b /\ b <= a + 1
    BY <2>1
  <2> HIDE DEF a, b
  <2>3. b = a \/ b = a + 1
    BY <2>2
  <2> QED
    BY <2>3 DEF Aligned, a, b
<1> QED
  BY <1>8, <1>9

(* The inductive invariant.  Stamped: every tick's admissions are requests *)
(* of the past.  Shared: Redis has counted every request it let through in *)
(* an aligned window.  Remembered: a process remembers no request it did   *)
(* not admit, and every one it admitted in the last window.                *)
Counters      == Workers \cup {Redis}
SameWindow(n) == {t \in Times : Aligned(t) = n}

Stamped ==
    /\ asked \in 0 .. MaxAsked
    /\ \A n \in Windows : count[n] <= asked
    /\ \A p \in Counters, t \in Times :
         admitted[p][t] <= asked /\ (t > now => admitted[p][t] = 0)

Shared == \A n \in Windows :
    /\ Number(admitted[Redis], SameWindow(n)) <= count[n]
    /\ Number(admitted[Redis], SameWindow(n)) <= Limit

Remembered == \A w \in Workers, t \in Times :
    /\ hits[w][t] <= admitted[w][t]
    /\ now - t < Window => hits[w][t] = admitted[w][t]
    /\ Number(admitted[w], Span(t)) <= Limit

RateInv == RateTypeOK /\ Stamped /\ Shared /\ Remembered

(* What the types give every step.                                         *)
LEMMA RateFacts ==
    ASSUME RateTypeOK
    PROVE  /\ MaxAsked \in Nat /\ Limit \in Nat /\ Window \in Nat /\ now \in Times
           /\ \A t \in Times : t \in Nat
           /\ Aligned(now) \in Windows
           /\ \A n \in Windows : count[n] \in Nat
           /\ \A p \in Counters : /\ admitted[p] \in [Times -> Nat]
                                /\ \A t \in Times : admitted[p][t] <= MaxAsked
                                /\ \A S \in SUBSET Times : Number(admitted[p], S) \in Nat
           /\ \A w \in Workers : /\ hits[w] \in [Times -> Nat]
                                 /\ \A t \in Times : hits[w][t] <= MaxAsked
                                 /\ \A S \in SUBSET Times : Number(hits[w], S) \in Nat
<1>1. MaxAsked \in Nat /\ Limit \in Nat /\ Window \in Nat /\ MaxTime \in Nat
  BY RateAssumption
<1>2. now \in Times /\ \A t \in Times : t \in Nat
  BY <1>1 DEF RateTypeOK, Times
<1>3. Aligned(now) \in Windows
  BY <1>2, AlignedProperty
<1>4. \A n \in Windows : count[n] \in Nat
  BY <1>1 DEF RateTypeOK
<1>5. ASSUME NEW f \in [Times -> 0 .. MaxAsked]
      PROVE  /\ f \in [Times -> Nat] /\ \A t \in Times : f[t] <= MaxAsked
             /\ \A S \in SUBSET Times : Number(f, S) \in Nat
  <2>1. f \in [Times -> Nat] /\ \A t \in Times : f[t] <= MaxAsked
    BY <1>1
  <2> QED
    BY <1>1, <2>1, NumberProperty
<1>6. \A p \in Counters : admitted[p] \in [Times -> 0 .. MaxAsked]
  BY DEF RateTypeOK, Counters
<1>7. \A w \in Workers : hits[w] \in [Times -> 0 .. MaxAsked]
  BY DEF RateTypeOK
<1> QED
  BY <1>1, <1>2, <1>3, <1>4, <1>5, <1>6, <1>7

(* No stamps at all.                                                       *)
LEMMA NumberNone == \A S \in SUBSET Times : Number(None, S) = 0
<1> TAKE S \in SUBSET Times
<1>1. Stamps(None, S) = {}
  <2> SUFFICES ASSUME NEW x \in Stamps(None, S) PROVE FALSE
    OBVIOUS
  <2>1. PICK t \in S : x \in {t} \X (1 .. None[t])
    BY DEF Stamps
  <2>2. None[t] = 0
    BY DEF None
  <2>3. 1 .. 0 = {}
    OBVIOUS
  <2> QED
    BY <2>1, <2>2, <2>3
<1> QED
  BY <1>1, FS_EmptySet DEF Number

(* The first state of the quota.                                           *)
LEMMA RateInitial == RateInit => RateInv
<1> SUFFICES ASSUME RateInit PROVE RateInv
  OBVIOUS
<1>1. /\ MaxAsked \in Nat /\ Limit \in Nat /\ MaxTime \in Nat /\ 0 \in Times
      /\ 0 \in 0 .. MaxAsked
  BY RateAssumption DEF Times
<1>2. None \in [Times -> 0 .. MaxAsked] /\ \A t \in Times : None[t] = 0
  BY <1>1 DEF None
<1>3. /\ now = 0 /\ asked = 0
      /\ \A n \in Windows : count[n] = 0
      /\ \A w \in Workers : hits[w] = None
      /\ \A p \in Counters : admitted[p] = None
  BY DEF RateInit, Counters
<1>4. \A n : SameWindow(n) \in SUBSET Times
  BY DEF SameWindow
<1>5. \A t : Span(t) \in SUBSET Times
  BY DEF Span
<1>6. \A w \in Workers : Number(hits[w], Times) <= Limit
  BY <1>1, <1>3, NumberNone
<1>7. RateTypeOK
  BY <1>1, <1>2, <1>3, <1>6 DEF RateTypeOK, RateInit
<1>8. Stamped
  BY <1>1, <1>2, <1>3 DEF Stamped
<1>9. Shared
  <2>1. Number(admitted[Redis], SameWindow(0)) = 0 /\ Redis \in Counters
    BY <1>3, <1>4, NumberNone DEF Counters
  <2>2. \A n \in Windows : Number(admitted[Redis], SameWindow(n)) = 0
    BY <1>3, <1>4, <2>1, NumberNone
  <2> QED
    BY <1>1, <1>3, <2>2 DEF Shared
<1>10. Remembered
  <2>1. \A w \in Workers, t \in Times : Number(admitted[w], Span(t)) = 0
    BY <1>3, <1>5, NumberNone DEF Counters
  <2>2. \A w \in Workers : admitted[w] = None /\ hits[w] = None
    BY <1>3 DEF Counters
  <2> QED
    BY <1>1, <1>2, <2>1, <2>2 DEF Remembered
<1> QED
  BY <1>7, <1>8, <1>9, <1>10 DEF RateInv

(* A tick forgets nothing that was to be remembered.                       *)
LEMMA RateTick == ASSUME RateInv, Tick PROVE RateInv'
<1>1. now \in Nat /\ now' = now + 1 /\ now' \in Times
  <2>1. now \in Nat /\ MaxTime \in Nat
    BY RateAssumption DEF RateInv, RateTypeOK, Times
  <2> QED
    BY <2>1 DEF Tick, Times
<1>2. count' = count /\ hits' = hits /\ asked' = asked /\ admitted' = admitted
  BY DEF Tick
<1>3. \A t \in Times : t \in Nat
  BY RateFacts DEF RateInv
<1>4. \A t \in Times : /\ t > now' => t > now
                       /\ now' - t < Window => now - t < Window
  BY <1>1, <1>3, RateFacts DEF RateInv
<1>5. RateTypeOK'
  BY <1>1, <1>2 DEF RateInv, RateTypeOK
<1>6. Stamped'
  BY <1>2, <1>4 DEF RateInv, Stamped
<1>7. Shared'
  BY <1>2 DEF RateInv, Shared
<1>8. Remembered'
  BY <1>2, <1>4 DEF RateInv, Remembered
<1> QED
  BY <1>5, <1>6, <1>7, <1>8 DEF RateInv

(* A restart empties the memory and the history of the process.            *)
LEMMA RateRestart == ASSUME RateInv, NEW w \in Workers, Restart(w) PROVE RateInv'
<1>1. /\ hits' = [hits EXCEPT ![w] = None] /\ admitted' = [admitted EXCEPT ![w] = None]
      /\ now' = now /\ count' = count /\ asked' = asked
  BY DEF Restart
<1>2. /\ MaxAsked \in Nat /\ Limit \in Nat /\ 0 \in 0 .. MaxAsked /\ Redis \notin Workers
      /\ None \in [Times -> 0 .. MaxAsked] /\ \A t \in Times : None[t] = 0
  BY RateAssumption DEF None
<1>3. /\ \A v \in Workers : hits'[v] = IF v = w THEN None ELSE hits[v]
      /\ \A p \in Counters : admitted'[p] = IF p = w THEN None ELSE admitted[p]
      /\ admitted'[Redis] = admitted[Redis]
  BY <1>1, <1>2 DEF RateInv, RateTypeOK, Counters
<1>4. RateTypeOK'
  <2>1. /\ hits' \in [Workers -> [Times -> 0 .. MaxAsked]]
        /\ admitted' \in [Workers \cup {Redis} -> [Times -> 0 .. MaxAsked]]
    BY <1>1, <1>2 DEF RateInv, RateTypeOK
  <2>2. \A v \in Workers : Number(hits'[v], Times) <= Limit
    BY <1>2, <1>3, NumberNone DEF RateInv, RateTypeOK
  <2> QED
    BY <1>1, <2>1, <2>2 DEF RateInv, RateTypeOK
<1>5. Stamped'
  <2>1. asked \in Nat
    BY <1>2 DEF RateInv, Stamped
  <2> QED
    BY <1>1, <1>2, <1>3, <2>1 DEF RateInv, Stamped
<1>6. Shared'
  BY <1>1, <1>3 DEF RateInv, Shared
<1>7. Remembered'
  <2>1. ASSUME NEW v \in Workers, NEW t \in Times
        PROVE  /\ hits'[v][t] <= admitted'[v][t]
               /\ now' - t < Window => hits'[v][t] = admitted'[v][t]
               /\ Number(admitted'[v], Span(t)) <= Limit
    <3>1. CASE v = w
      <4>1. hits'[v] = None /\ admitted'[v] = None
        BY <1>3, <3>1 DEF Counters
      <4>2. Number(None, Span(t)) = 0
        BY NumberNone DEF Span
      <4> QED
        BY <1>2, <4>1, <4>2
    <3>2. CASE v # w
      <4>1. hits'[v] = hits[v] /\ admitted'[v] = admitted[v]
        BY <1>3, <3>2 DEF Counters
      <4> QED
        BY <1>1, <4>1 DEF RateInv, Remembered
    <3> QED
      BY <3>1, <3>2
  <2> QED
    BY <2>1 DEF Remembered
<1> QED
  BY <1>4, <1>5, <1>6, <1>7 DEF RateInv

(* A request through Redis: it is let through only while the count of its  *)
(* aligned window, which includes it, is within the limit.                 *)
LEMMA RateRedis ==
    ASSUME RateInv, asked < MaxAsked, asked' = asked + 1, AskRedis, now' = now
    PROVE  RateInv'
<1> DEFINE f == admitted[Redis]
           k == Aligned(now)
<1>1. /\ MaxAsked \in Nat /\ Limit \in Nat /\ now \in Times /\ \A t \in Times : t \in Nat
      /\ k \in Windows /\ \A n \in Windows : count[n] \in Nat
      /\ f \in [Times -> Nat] /\ \A t \in Times : f[t] <= MaxAsked
      /\ \A S \in SUBSET Times : Number(f, S) \in Nat
  BY RateFacts DEF RateInv, Counters
<1>2. hits' = hits /\ count' = [count EXCEPT ![k] = @ + 1]
  BY DEF AskRedis, Count
<1>3. /\ asked \in Nat /\ asked + 1 \in 0 .. MaxAsked /\ Redis \notin Workers
      /\ \A n \in Windows : count[n] <= asked
      /\ \A p \in Counters, t \in Times :
           admitted[p][t] <= asked /\ (t > now => admitted[p][t] = 0)
  BY <1>1, RateAssumption DEF RateInv, Stamped
<1>4. count' \in [Windows -> 0 .. MaxAsked]
  <2>1. count[k] + 1 \in 0 .. MaxAsked
    BY <1>1, <1>3
  <2> QED
    BY <1>2, <2>1 DEF RateInv, RateTypeOK
<1>5. \A n \in Windows : count'[n] = IF n = k THEN count[n] + 1 ELSE count[n]
  BY <1>1, <1>2 DEF RateInv, RateTypeOK
<1>6. CASE ~Within(count[k] + 1)
  <2>1. admitted' = admitted
    BY <1>6 DEF AskRedis
  <2>2. RateTypeOK'
    BY <1>2, <1>4, <2>1 DEF RateInv, RateTypeOK
  <2>3. Stamped'
    <3>1. \A n \in Windows : count'[n] <= asked'
      BY <1>1, <1>3, <1>5
    <3>2. \A p \in Counters, t \in Times : admitted[p][t] \in Nat
      BY RateFacts DEF RateInv
    <3>3. \A p \in Counters, t \in Times :
            admitted'[p][t] <= asked' /\ (t > now' => admitted'[p][t] = 0)
      BY <1>3, <2>1, <3>2
    <3> QED
      BY <1>3, <3>1, <3>3 DEF Stamped
  <2>4. Shared'
    <3>1. ASSUME NEW n \in Windows
          PROVE  Number(f, SameWindow(n)) <= count'[n] /\ Number(f, SameWindow(n)) <= Limit
      <4>1. Number(f, SameWindow(n)) \in Nat
        BY <1>1 DEF SameWindow
      <4>2. Number(f, SameWindow(n)) <= count[n] /\ Number(f, SameWindow(n)) <= Limit
        BY DEF RateInv, Shared
      <4> QED
        BY <1>1, <1>5, <4>1, <4>2
    <3> QED
      BY <2>1, <3>1 DEF Shared
  <2>5. Remembered'
    BY <1>2, <2>1 DEF RateInv, Remembered
  <2> QED
    BY <2>2, <2>3, <2>4, <2>5 DEF RateInv
<1>7. CASE Within(count[k] + 1)
  <2>1. admitted' = [admitted EXCEPT ![Redis] = Stamp(f)]
    BY <1>7 DEF AskRedis, Granted
  <2>2. /\ Stamp(f) \in [Times -> Nat]
        /\ \A t \in Times : Stamp(f)[t] = IF t = now THEN f[t] + 1 ELSE f[t]
    BY <1>1, NumberStamp
  <2>3. /\ admitted'[Redis] = Stamp(f)
        /\ \A w \in Workers : admitted'[w] = admitted[w]
    BY <1>3, <2>1 DEF RateInv, RateTypeOK
  <2>4. \A t \in Times : f[t] \in Nat /\ f[t] <= asked /\ (t > now => f[t] = 0)
    BY <1>1, <1>3 DEF Counters
  <2>5. RateTypeOK'
    <3>1. Stamp(f) \in [Times -> 0 .. MaxAsked]
      <4>1. \A t \in Times : Stamp(f)[t] \in 0 .. MaxAsked
        BY <1>1, <1>3, <2>2, <2>4
      <4> QED
        BY <2>2, <4>1
    <3>2. admitted' \in [Workers \cup {Redis} -> [Times -> 0 .. MaxAsked]]
      BY <2>1, <3>1 DEF RateInv, RateTypeOK
    <3> QED
      BY <1>2, <1>4, <3>2 DEF RateInv, RateTypeOK
  <2>6. Stamped'
    <3>1. \A n \in Windows : count'[n] <= asked'
      BY <1>1, <1>3, <1>5
    <3>2. \A w \in Workers, t \in Times : admitted[w][t] \in Nat
      BY RateFacts DEF RateInv, Counters
    <3>3. \A w \in Workers, t \in Times :
            admitted'[w][t] <= asked' /\ (t > now' => admitted'[w][t] = 0)
      BY <1>3, <2>3, <3>2 DEF Counters
    <3>4. \A t \in Times :
            admitted'[Redis][t] <= asked' /\ (t > now' => admitted'[Redis][t] = 0)
      BY <1>1, <1>3, <2>2, <2>3, <2>4
    <3> QED
      BY <1>3, <3>1, <3>3, <3>4 DEF Stamped, Counters
  <2>7. Shared'
    <3>1. ASSUME NEW n \in Windows
          PROVE  /\ Number(Stamp(f), SameWindow(n)) <= count'[n]
                 /\ Number(Stamp(f), SameWindow(n)) <= Limit
      <4>1. Number(f, SameWindow(n)) \in Nat /\ SameWindow(n) \in SUBSET Times
        BY <1>1 DEF SameWindow
      <4>2. Number(f, SameWindow(n)) <= count[n] /\ Number(f, SameWindow(n)) <= Limit
        BY DEF RateInv, Shared
      <4>3. /\ now \in SameWindow(n) => Number(Stamp(f), SameWindow(n)) = Number(f, SameWindow(n)) + 1
            /\ now \notin SameWindow(n) => Number(Stamp(f), SameWindow(n)) = Number(f, SameWindow(n))
        BY <1>1, <4>1, NumberStamp
      <4>4. now \in SameWindow(n) <=> n = k
        BY <1>1 DEF SameWindow
      <4>5. count[k] + 1 <= Limit
        BY <1>7 DEF Within
      <4> HIDE DEF k
      <4> QED
        BY <1>1, <1>5, <4>1, <4>2, <4>3, <4>4, <4>5
    <3> QED
      BY <2>3, <3>1 DEF Shared
  <2>8. Remembered'
    BY <1>2, <2>3 DEF RateInv, Remembered
  <2> QED
    BY <2>5, <2>6, <2>7, <2>8 DEF RateInv
<1> QED
  BY <1>6, <1>7

(* What a process still counts is what it remembers of the last window:    *)
(* no less than it admitted in any span that holds this tick.              *)
LEMMA CurrentProperty ==
    ASSUME RateInv, NEW w \in Workers
    PROVE  LET g == Current(hits[w]) IN
           /\ g \in [Times -> Nat] /\ \A t \in Times : g[t] <= MaxAsked
           /\ \A t \in Times : g[t] <= admitted[w][t] /\ g[t] <= hits[w][t]
           /\ \A t \in Times : now - t < Window => g[t] = admitted[w][t]
           /\ Number(g, Times) \in Nat /\ Number(g, Times) <= Limit
           /\ \A t \in Times : now \in Span(t) => Number(admitted[w], Span(t)) <= Number(g, Times)
<1> DEFINE h == hits[w]
           a == admitted[w]
           g == Current(h)
<1>1. /\ MaxAsked \in Nat /\ Limit \in Nat /\ Window \in Nat /\ now \in Times
      /\ \A t \in Times : t \in Nat
      /\ a \in [Times -> Nat] /\ \A t \in Times : a[t] <= MaxAsked
      /\ h \in [Times -> Nat] /\ \A t \in Times : h[t] <= MaxAsked
  BY RateFacts DEF RateInv, Counters
<1>2. \A t \in Times : h[t] <= a[t] /\ (now - t < Window => h[t] = a[t])
  BY DEF RateInv, Remembered
<1>3. \A t \in Times : t > now => a[t] = 0
  BY DEF RateInv, Stamped, Counters
<1>4. /\ g \in [Times -> Nat]
      /\ \A t \in Times : g[t] = IF now - t < Window THEN h[t] ELSE 0
  BY <1>1 DEF Current
<1> HIDE DEF a, h, g
<1>5. \A t \in Times : /\ g[t] <= MaxAsked /\ g[t] <= a[t] /\ g[t] <= h[t]
                       /\ now - t < Window => g[t] = a[t]
  BY <1>1, <1>2, <1>4
<1>6. Number(g, Times) \in Nat /\ Number(h, Times) \in Nat
  BY <1>1, <1>4, <1>5, NumberProperty
<1>7. Number(g, Times) <= Number(h, Times)
  BY <1>1, <1>4, <1>5, NumberFewer
<1>8. Number(h, Times) <= Limit
  BY DEF RateInv, RateTypeOK, h
<1>9. ASSUME NEW t \in Times, now \in Span(t)
      PROVE  Number(a, Span(t)) <= Number(g, Times)
  <2>1. Span(t) \in SUBSET Times
    BY DEF Span
  <2>2. ASSUME NEW u \in Span(t), a[u] > 0 PROVE u \in Times /\ a[u] <= g[u]
    <3>1. u \in Times /\ u \in Nat /\ t \in Nat /\ now \in Nat /\ t <= u /\ now < t + Window
      BY <1>1, <1>9 DEF Span
    <3>2. ~(u > now)
      BY <1>3, <2>2, <3>1
    <3>3. now - u < Window
      BY <1>1, <3>1, <3>2
    <3> QED
      BY <1>1, <1>5, <3>1, <3>3
  <2> QED
    BY <1>1, <1>4, <1>5, <2>1, <2>2, NumberFewer
<1>10. Number(g, Times) <= Limit
  BY <1>1, <1>6, <1>7, <1>8
<1> QED
  BY <1>4, <1>5, <1>6, <1>9, <1>10 DEF a, h, g

(* A request counted in the process, whether or not INCR went through.     *)
LEMMA RateLocal ==
    ASSUME RateInv, asked < MaxAsked, asked' = asked + 1, now' = now,
           NEW w \in Workers, AskLocal(w), UNCHANGED count \/ Count
    PROVE  RateInv'
<1> DEFINE a == admitted[w]
           g == Current(hits[w])
           k == Aligned(now)
<1>1. /\ MaxAsked \in Nat /\ Limit \in Nat /\ now \in Times /\ \A t \in Times : t \in Nat
      /\ k \in Windows /\ \A n \in Windows : count[n] \in Nat
      /\ a \in [Times -> Nat] /\ \A t \in Times : a[t] <= MaxAsked
      /\ \A S \in SUBSET Times : Number(a, S) \in Nat
  BY RateFacts DEF RateInv, Counters
<1>2. /\ g \in [Times -> Nat] /\ \A t \in Times : g[t] <= MaxAsked
      /\ \A t \in Times : g[t] <= a[t] /\ (now - t < Window => g[t] = a[t])
      /\ Number(g, Times) \in Nat /\ Number(g, Times) <= Limit
      /\ \A t \in Times : now \in Span(t) => Number(a, Span(t)) <= Number(g, Times)
  BY CurrentProperty
<1>3. /\ asked \in Nat /\ asked + 1 \in 0 .. MaxAsked /\ Redis \notin Workers
      /\ \A n \in Windows : count[n] <= asked
      /\ \A p \in Counters, t \in Times :
           admitted[p][t] <= asked /\ (t > now => admitted[p][t] = 0)
  BY <1>1, RateAssumption DEF RateInv, Stamped
<1>4. \A t \in Times : a[t] \in Nat /\ a[t] <= asked /\ (t > now => a[t] = 0)
  BY <1>1, <1>3 DEF Counters
<1>5. /\ count' \in [Windows -> 0 .. MaxAsked]
      /\ \A n \in Windows : count[n] <= count'[n] /\ count'[n] <= asked + 1
  <2>1. count \in [Windows -> 0 .. MaxAsked] /\ count[k] + 1 \in 0 .. MaxAsked
    BY <1>1, <1>3 DEF RateInv, RateTypeOK
  <2>2. CASE count' = count
    BY <1>1, <1>3, <2>1, <2>2
  <2>3. CASE count' = [count EXCEPT ![k] = @ + 1]
    <3>1. count' \in [Windows -> 0 .. MaxAsked]
      BY <2>1, <2>3
    <3>2. \A n \in Windows : count'[n] = IF n = k THEN count[n] + 1 ELSE count[n]
      BY <2>1, <2>3
    <3> QED
      BY <1>1, <1>3, <3>1, <3>2
  <2> QED
    BY <2>2, <2>3 DEF Count
\* What the step leaves at the process and in the history.
<1>6. PICK h2, a2 :
        /\ hits' = [hits EXCEPT ![w] = h2] /\ admitted' = [admitted EXCEPT ![w] = a2]
        /\ \/ h2 = g /\ a2 = a
           \/ h2 = Stamp(g) /\ a2 = Stamp(a) /\ Number(g, Times) + 1 <= Limit
  <2>1. CASE Number(g, Times) >= Limit
    <3>1. hits' = [hits EXCEPT ![w] = g] /\ admitted' = admitted
      BY <2>1 DEF AskLocal
    <3>2. admitted' = [admitted EXCEPT ![w] = a]
      BY <3>1 DEF RateInv, RateTypeOK
    <3> QED
      BY <3>1, <3>2
  <2>2. CASE ~(Number(g, Times) >= Limit)
    <3>1. hits' = [hits EXCEPT ![w] = Stamp(g)] /\ admitted' = [admitted EXCEPT ![w] = Stamp(a)]
      BY <2>2 DEF AskLocal, Granted
    <3>2. Number(g, Times) + 1 <= Limit
      BY <1>1, <1>2, <2>2
    <3> QED
      BY <3>1, <3>2
  <2> QED
    BY <2>1, <2>2
<1> HIDE DEF a, g, k
<1>7. /\ h2 \in [Times -> 0 .. MaxAsked] /\ a2 \in [Times -> 0 .. MaxAsked]
      /\ \A t \in Times : /\ h2[t] <= a2[t] /\ (now - t < Window => h2[t] = a2[t])
                          /\ a2[t] <= asked + 1 /\ (t > now => a2[t] = 0)
      /\ Number(h2, Times) <= Limit
      /\ \A t \in Times : Number(a2, Span(t)) <= Limit
  <2>0. /\ \A t \in Times : Span(t) \in SUBSET Times /\ Number(a, Span(t)) \in Nat
        /\ \A t \in Times : Number(a, Span(t)) <= Limit
    BY <1>1 DEF Span, RateInv, Remembered, a
  <2>1. CASE h2 = g /\ a2 = a
    <3>1. /\ \A t \in Times : g[t] \in 0 .. MaxAsked /\ a[t] \in 0 .. MaxAsked
          /\ \A t \in Times : a[t] <= asked + 1
      BY <1>1, <1>2, <1>3, <1>4
    <3> QED
      BY <1>1, <1>2, <1>4, <2>0, <2>1, <3>1
  <2>2. CASE h2 = Stamp(g) /\ a2 = Stamp(a) /\ Number(g, Times) + 1 <= Limit
    <3>1. /\ h2 \in [Times -> Nat]
          /\ \A t \in Times : h2[t] = IF t = now THEN g[t] + 1 ELSE g[t]
          /\ Number(h2, Times) = Number(g, Times) + 1
      BY <1>1, <1>2, <2>2, NumberStamp
    <3>2. /\ a2 \in [Times -> Nat]
          /\ \A t \in Times : a2[t] = IF t = now THEN a[t] + 1 ELSE a[t]
      BY <1>1, <2>2, NumberStamp
    <3>3. ASSUME NEW t \in Times PROVE Number(a2, Span(t)) <= Limit
      <4>1. /\ now \in Span(t) => Number(a2, Span(t)) = Number(a, Span(t)) + 1
            /\ now \notin Span(t) => Number(a2, Span(t)) = Number(a, Span(t))
        BY <1>1, <2>0, <2>2, NumberStamp
      <4>2. now \in Span(t) => Number(a, Span(t)) <= Number(g, Times)
        BY <1>2
      <4> QED
        BY <1>1, <1>2, <2>0, <2>2, <4>1, <4>2
    <3>4. ASSUME NEW t \in Times
          PROVE  /\ h2[t] \in 0 .. MaxAsked /\ a2[t] \in 0 .. MaxAsked
                 /\ h2[t] <= a2[t] /\ (now - t < Window => h2[t] = a2[t])
                 /\ a2[t] <= asked + 1 /\ (t > now => a2[t] = 0)
      <4>1. /\ g[t] \in Nat /\ a[t] \in Nat /\ g[t] <= a[t] /\ a[t] <= asked
            /\ (now - t < Window => g[t] = a[t]) /\ (t > now => a[t] = 0)
        BY <1>2, <1>4
      <4>2. CASE t = now
        BY <1>1, <1>2, <1>3, <3>1, <3>2, <4>1, <4>2
      <4>3. CASE t # now
        BY <1>1, <1>2, <1>3, <3>1, <3>2, <4>1, <4>3
      <4> QED
        BY <4>2, <4>3
    <3>5. h2 \in [Times -> 0 .. MaxAsked] /\ a2 \in [Times -> 0 .. MaxAsked]
      BY <3>1, <3>2, <3>4
    <3> QED
      BY <2>2, <3>1, <3>3, <3>4, <3>5
  <2> QED
    BY <1>6, <2>1, <2>2
<1>8. /\ \A v \in Workers : hits'[v] = IF v = w THEN h2 ELSE hits[v]
      /\ \A p \in Counters : admitted'[p] = IF p = w THEN a2 ELSE admitted[p]
      /\ admitted'[Redis] = admitted[Redis]
  BY <1>3, <1>6 DEF RateInv, RateTypeOK, Counters
<1>9. RateTypeOK'
  <2>1. /\ hits' \in [Workers -> [Times -> 0 .. MaxAsked]]
        /\ admitted' \in [Workers \cup {Redis} -> [Times -> 0 .. MaxAsked]]
    BY <1>6, <1>7 DEF RateInv, RateTypeOK
  <2>2. \A v \in Workers : Number(hits'[v], Times) <= Limit
    BY <1>7, <1>8 DEF RateInv, RateTypeOK
  <2> QED
    BY <1>1, <1>5, <2>1, <2>2 DEF RateTypeOK
<1>10. Stamped'
  <2>1. ASSUME NEW p \in Counters, NEW t \in Times
        PROVE  admitted'[p][t] <= asked + 1 /\ (t > now => admitted'[p][t] = 0)
    <3>1. CASE p = w
      BY <1>7, <1>8, <3>1
    <3>2. CASE p # w
      <4>1. admitted'[p] = admitted[p] /\ admitted[p][t] \in Nat
        BY <1>8, <3>2, RateFacts DEF RateInv
      <4> QED
        BY <1>3, <4>1
    <3> QED
      BY <3>1, <3>2
  <2> QED
    BY <1>3, <1>5, <2>1 DEF Stamped
<1>11. Shared'
  <2>1. ASSUME NEW n \in Windows
        PROVE  /\ Number(admitted[Redis], SameWindow(n)) <= count'[n]
               /\ Number(admitted[Redis], SameWindow(n)) <= Limit
    <3>1. Number(admitted[Redis], SameWindow(n)) \in Nat
      BY RateFacts DEF SameWindow, RateInv, Counters
    <3>2. /\ Number(admitted[Redis], SameWindow(n)) <= count[n]
          /\ Number(admitted[Redis], SameWindow(n)) <= Limit
      BY DEF RateInv, Shared
    <3>3. count[n] <= count'[n] /\ count[n] \in Nat /\ count'[n] \in 0 .. MaxAsked
      BY <1>1, <1>5
    <3> QED
      BY <1>1, <3>1, <3>2, <3>3
  <2> QED
    BY <1>8, <2>1 DEF Shared
<1>12. Remembered'
  <2>1. ASSUME NEW v \in Workers, NEW t \in Times
        PROVE  /\ hits'[v][t] <= admitted'[v][t]
               /\ now - t < Window => hits'[v][t] = admitted'[v][t]
               /\ Number(admitted'[v], Span(t)) <= Limit
    <3>1. CASE v = w
      <4>1. hits'[v] = h2 /\ admitted'[v] = a2
        BY <1>8, <3>1 DEF Counters
      <4> QED
        BY <1>7, <4>1
    <3>2. CASE v # w
      <4>1. hits'[v] = hits[v] /\ admitted'[v] = admitted[v]
        BY <1>8, <3>2 DEF Counters
      <4> QED
        BY <4>1 DEF RateInv, Remembered
    <3> QED
      BY <3>1, <3>2
  <2> QED
    BY <2>1 DEF Remembered
<1> QED
  BY <1>9, <1>10, <1>11, <1>12 DEF RateInv

(* Every step of the quota.                                                *)
LEMMA RateStep == RateInv /\ [RateNext]_rateVars => RateInv'
<1> SUFFICES ASSUME RateInv, [RateNext]_rateVars PROVE RateInv'
  OBVIOUS
<1>1. CASE UNCHANGED rateVars
  BY <1>1 DEF rateVars, RateInv, RateTypeOK, Stamped, Shared, Remembered
<1>2. CASE Tick
  BY <1>2, RateTick
<1>3. ASSUME NEW w \in Workers, Restart(w) PROVE RateInv'
  BY <1>3, RateRestart
<1>4. ASSUME NEW w \in Workers, Ask(w) PROVE RateInv'
  <2>1. asked < MaxAsked /\ asked' = asked + 1 /\ now' = now
    BY <1>4 DEF Ask
  <2>2. CASE AskRedis
    BY <2>1, <2>2, RateRedis
  <2>3. CASE AskLocal(w) /\ UNCHANGED count
    BY <2>1, <2>3, RateLocal
  <2>4. CASE AskLocal(w) /\ Count
    BY <2>1, <2>4, RateLocal
  <2> QED
    BY <1>4, <2>2, <2>3, <2>4 DEF Ask
<1> QED
  BY <1>1, <1>2, <1>3, <1>4 DEF RateNext

(* The quota's state is in these four parts at every step: the invariant   *)
(* of the two theorems below (BudgetRuntime.assert_rpm).                   *)
THEOREM RateInductive == RateSpec => []RateInv
<1>1. RateInit => RateInv
  BY RateInitial
<1>2. RateInv /\ [RateNext]_rateVars => RateInv'
  BY RateStep
<1> QED
  BY <1>1, <1>2, PTL DEF RateSpec

(* LocalSpan, for any number of processes, any limit and any window: a     *)
(* process that lives on admits at most the limit on its own in every span *)
(* of one window, also when Redis comes and goes (budget.py:424-448).      *)
THEOREM WindowKept == RateSpec => []LocalSpan
<1>1. RateInv => LocalSpan
  BY DEF RateInv, LocalSpan, Remembered
<1> QED
  BY <1>1, RateInductive, PTL

(* SharedSpan: on Redis all processes together admit at most the limit in  *)
(* an aligned window, and at most twice the limit in any span as long,     *)
(* which meets two aligned windows.                                        *)
THEOREM SharedWindowKept == RateSpec => []SharedSpan
<1>1. ASSUME RateInv PROVE SharedSpan
  <2> DEFINE f == admitted[Redis]
  <2>1. /\ f \in [Times -> Nat] /\ \A t \in Times : f[t] <= MaxAsked
        /\ \A S \in SUBSET Times : Number(f, S) \in Nat
        /\ MaxAsked \in Nat /\ Limit \in Nat
    BY <1>1, RateFacts DEF RateInv, Counters
  <2>2. \A n \in Windows : Number(f, SameWindow(n)) <= Limit
    BY <1>1 DEF RateInv, Shared
  <2> HIDE DEF f
  <2>3. \A n : SameWindow(n) \in SUBSET Times
    BY DEF SameWindow
  <2>4. ASSUME NEW n, n \notin Windows PROVE Number(f, SameWindow(n)) <= Limit
    <3>1. SameWindow(n) = {}
      BY <2>4, AlignedProperty DEF SameWindow
    <3>2. Number(f, {}) = 0
      <4>1. Stamps(f, {}) = {}
        BY DEF Stamps
      <4> QED
        BY <4>1, FS_EmptySet DEF Number
    <3> QED
      BY <2>1, <3>1, <3>2
  <2>5. ASSUME NEW t \in Times PROVE Number(f, Span(t)) <= 2 * Limit
    <3> DEFINE n == Aligned(t)
    <3>1. Span(t) \in SUBSET Times /\ Span(t) \subseteq SameWindow(n) \cup SameWindow(n + 1)
      BY AlignedProperty DEF Span, SameWindow
    <3>2. Number(f, SameWindow(n)) <= Limit /\ Number(f, SameWindow(n + 1)) <= Limit
      BY <2>2, <2>4
    <3>3. Number(f, Span(t)) <= Number(f, SameWindow(n)) + Number(f, SameWindow(n + 1))
      BY <2>1, <2>3, <3>1, NumberUnion
    <3>4. /\ Number(f, SameWindow(n)) \in Nat /\ Number(f, SameWindow(n + 1)) \in Nat
          /\ Number(f, Span(t)) \in Nat
      BY <2>1, <2>3, <3>1
    <3> HIDE DEF n
    <3> QED
      BY <2>1, <3>2, <3>3, <3>4
  <2> QED
    BY <2>2, <2>5 DEF SharedSpan, SameWindow, f
<1> QED
  BY <1>1, RateInductive, PTL
=============================================================================
