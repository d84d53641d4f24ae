------------------------ MODULE BudgetLedger_proofs ------------------------
(***************************************************************************)
(* Proofs about BudgetLedger, for every set of keys, reservation ids and   *)
(* threads and every choice of caps, requests and usages.                  *)
(***************************************************************************)
EXTENDS BudgetLedger, FiniteSetTheorems, TLAPS

-----------------------------------------------------------------------------
(* Sums as cardinalities.                                                  *)

\* What the holder e contributes to bucket b on a day.
Share(e, b, day) == IF Holds(e, b, day) THEN e.held[b[2]] ELSE 0

LEMMA UnitsOfOne ==
    ASSUME NEW x, NEW n \in Nat
    PROVE  /\ IsFiniteSet({x} \X (1 .. n))
           /\ Cardinality({x} \X (1 .. n)) = n
<1> DEFINE S == {x}
           T == 1 .. n
<1>1. IsFiniteSet(S) /\ Cardinality(S) = 1
  BY FS_Singleton
<1>2. IsFiniteSet(T) /\ Cardinality(T) = n
  BY FS_Interval
<1> HIDE DEF S, T
<1>3. /\ IsFiniteSet(S \X T)
      /\ Cardinality(S \X T) = Cardinality(S) * Cardinality(T)
  BY <1>1, <1>2, FS_Product
<1>4. Cardinality(S \X T) = n
  BY <1>1, <1>2, <1>3
<1> QED
  BY <1>3, <1>4 DEF S, T

(* Adding one holder to a map of holders adds exactly its share: this is   *)
(* the sum over _reservations after _store_reservation.                    *)
LEMMA UnitsWith ==
    ASSUME NEW f, NEW x, x \notin DOMAIN f, NEW e, NEW b, NEW day,
           e.held[b[2]] \in Nat, IsFiniteSet(Units(f, b, day))
    PROVE  /\ IsFiniteSet(Units(With(f, x, e), b, day))
           /\ Cardinality(Units(With(f, x, e), b, day)) =
                Cardinality(Units(f, b, day)) + Share(e, b, day)
<1> DEFINE U == Units(f, b, day)
           N == {x} \X (1 .. e.held[b[2]])
           W == Units(With(f, x, e), b, day)
<1>1. /\ IsFiniteSet(N)
      /\ Cardinality(N) = e.held[b[2]]
  BY UnitsOfOne
<1>2. IsFiniteSet(U) /\ Cardinality(U) \in Nat
  BY FS_CardinalityType
<1>3. U \cap N = {}
  BY DEF Units
<1>4. Holds(e, b, day) => W = U \cup N
  BY DEF Units, With
<1>5. ~Holds(e, b, day) => W = U
  BY DEF Units, With
<1> HIDE DEF U, N, W
<1>6. /\ IsFiniteSet(U \cup N)
      /\ Cardinality(U \cup N) = Cardinality(U) + Cardinality(N)
  <2>1. /\ IsFiniteSet(U \cup N)
        /\ Cardinality(U \cup N) =
             Cardinality(U) + Cardinality(N) - Cardinality(U \cap N)
    BY <1>1, <1>2, FS_Union
  <2>2. Cardinality(U \cap N) = 0
    BY <1>3, FS_EmptySet
  <2> QED
    BY <1>1, <1>2, <2>1, <2>2
<1>7. /\ IsFiniteSet(W)
      /\ Cardinality(W) = Cardinality(U) + Share(e, b, day)
  <2>1. CASE Holds(e, b, day)
    BY <1>1, <1>4, <1>6, <2>1 DEF Share
  <2>2. CASE ~Holds(e, b, day)
    BY <1>2, <1>5, <2>2 DEF Share
  <2> QED
    BY <2>1, <2>2
<1> QED
  BY <1>7 DEF U, W

(* Removing a holder takes off exactly its share: the pop of a settled     *)
(* reservation, or a thread that has written its change.                   *)
LEMMA UnitsWithout ==
    ASSUME NEW f, NEW x \in DOMAIN f, NEW b, NEW day,
           f = [y \in DOMAIN f |-> f[y]],
           f[x].held[b[2]] \in Nat, IsFiniteSet(Units(f, b, day))
    PROVE  /\ IsFiniteSet(Units(Without(f, x), b, day))
           /\ Cardinality(Units(f, b, day)) =
                Cardinality(Units(Without(f, x), b, day)) + Share(f[x], b, day)
<1> DEFINE g == Without(f, x)
<1>1. IsFiniteSet(Units(g, b, day))
  <2>1. Units(g, b, day) \subseteq Units(f, b, day)
    <3>1. \A y \in DOMAIN g : y \in DOMAIN f /\ g[y] = f[y]
      BY DEF Without
    <3> HIDE DEF g
    <3> QED
      BY <3>1 DEF Units
  <2> QED
    BY <2>1, FS_Subset
<1>2. f = With(g, x, f[x])
  <2>1. DOMAIN f = DOMAIN g \cup {x}
    BY DEF Without
  <2>2. \A y \in DOMAIN f : f[y] = IF y = x THEN f[x] ELSE g[y]
    BY DEF Without
  <2> QED
    BY <2>1, <2>2 DEF With
<1>3. x \notin DOMAIN g
  BY DEF Without
<1> QED
  BY <1>1, <1>2, <1>3, UnitsWith

LEMMA UnitsNone ==
    ASSUME NEW b, NEW day
    PROVE  Units(<<>>, b, day) = {}
BY DEF Units

(* The usage under way stays a number when a settlement begins or ends.    *)
LEMMA UnwrittenWith ==
    ASSUME NEW b, IsFiniteSet(UnwrittenUnits(b)),
           NEW t, t \notin DOMAIN applying, NEW e, e.used[b[2]] \in Nat,
           applying' = With(applying, t, e)
    PROVE  IsFiniteSet(UnwrittenUnits(b)')
<1> DEFINE N == {t} \X (1 .. e.used[b[2]])
<1>1. IsFiniteSet(UnwrittenUnits(b) \cup N)
  <2>1. IsFiniteSet(N)
    BY UnitsOfOne
  <2> HIDE DEF N
  <2> QED
    BY <2>1, FS_Union
<1>2. UnwrittenUnits(b)' \subseteq UnwrittenUnits(b) \cup N
  <2>1. \A s \in DOMAIN applying' \ {t} :
           s \in DOMAIN applying /\ applying'[s] = applying[s]
    BY DEF With
  <2>2. t \in DOMAIN applying' => applying'[t] = e
    BY DEF With
  <2> QED
    BY <2>1, <2>2 DEF UnwrittenUnits
<1> QED
  BY <1>1, <1>2, FS_Subset

LEMMA UnwrittenWithout ==
    ASSUME NEW b, IsFiniteSet(UnwrittenUnits(b)), NEW t,
           applying' = Without(applying, t)
    PROVE  IsFiniteSet(UnwrittenUnits(b)')
<1>1. \A s \in DOMAIN applying' :
         s \in DOMAIN applying /\ applying'[s] = applying[s]
  BY DEF Without
<1>2. UnwrittenUnits(b)' \subseteq UnwrittenUnits(b)
  BY <1>1 DEF UnwrittenUnits
<1> QED
  BY <1>2, FS_Subset

-----------------------------------------------------------------------------
(* Type correctness.                                                       *)

LEMMA BucketParts ==
    ASSUME NEW b \in Buckets
    PROVE  b[1] \in Accounts /\ b[2] \in Meters /\ b = <<b[1], b[2]>>
BY DEF Buckets

LEMMA EmptyMap ==
    ASSUME NEW S
    PROVE  DOMAIN <<>> = {} /\ <<>> \in [DOMAIN <<>> -> S]
OBVIOUS

(* Every bucket of a bumped ledger is a natural number: the clamp of       *)
(* _bump_file_state.                                                       *)
LEMMA BumpType ==
    ASSUME NEW ledger \in [Buckets -> Nat], NEW who, NEW delta \in [Meters -> Int]
    PROVE  Bump(ledger, who, delta) \in [Buckets -> Nat]
<1>1. ASSUME NEW b \in Buckets
      PROVE  ledger[b] + delta[b[2]] \in Int
  BY BucketParts
<1> QED
  BY <1>1 DEF Bump, FloorAtZero

LEMMA TallyType ==
    ASSUME NEW tally \in [Buckets -> Nat], NEW who, NEW amount \in Amount
    PROVE  Tally(tally, who, amount) \in [Buckets -> Nat]
<1>1. ASSUME NEW b \in Buckets
      PROVE  tally[b] + amount[b[2]] \in Nat
  BY BucketParts DEF Amount
<1> QED
  BY <1>1 DEF Tally

LEMMA ReadType ==
    ASSUME TypeOK, NEW readable \in BOOLEAN
    PROVE  /\ Spent \in [Buckets -> Nat]
           /\ Read(readable) \in [Buckets -> Nat]
           /\ Forget(stray, readable) \in [Buckets -> Nat]
BY DEF TypeOK, Spent, Read, Load, EmptyLedger, Forget

(* TypeOK holds in every state of every behaviour of the file ledger.      *)
LEMMA TypeInit == Init => TypeOK
<1> SUFFICES ASSUME Init PROVE TypeOK
  OBVIOUS
<1>1. DOMAIN reservations = {} /\ DOMAIN applying = {}
  BY EmptyMap DEF Init
<1>2. /\ reservations \in [DOMAIN reservations -> Held]
      /\ applying \in [DOMAIN applying -> Due]
  BY EmptyMap DEF Init
<1> QED
  BY <1>1, <1>2 DEF Init, TypeOK, EmptyLedger

LEMMA TypeReserve ==
    ASSUME TypeOK, NEW r \in Rids, NEW q \in Requests,
           NEW readable \in BOOLEAN, Reserve(r, q, readable)
    PROVE  TypeOK'
<1> DEFINE e == [who |-> q.who, held |-> q.charge, day |-> today]
<1>1. q.who \in Accounts /\ q.charge \in Amount
  BY ConstantsAssumption DEF Request
<1>2. e \in Held
  BY <1>1 DEF TypeOK, Held
<1>3. Bump(Read(readable), q.who, q.charge) \in [Buckets -> Nat]
  BY <1>1, BumpType, ReadType DEF Amount
<1>4. /\ reservations' \in [DOMAIN reservations' -> Held]
      /\ DOMAIN reservations' = DOMAIN reservations \cup {r}
      /\ reservations'[r] = e
      /\ \A y \in DOMAIN reservations \ {r} : reservations'[y] = reservations[y]
  <2>1. reservations' = With(reservations, r, e)
    BY DEF Reserve
  <2>2. reservations \in [DOMAIN reservations -> Held]
    BY DEF TypeOK
  <2> HIDE DEF e
  <2> QED
    BY <1>2, <2>1, <2>2 DEF With
<1>5. \A y \in DOMAIN reservations' : reservations'[y].day <= today'
  BY <1>4 DEF TypeOK, Reserve
<1>6. faults' \in Nat
  BY DEF TypeOK, Reserve, ReadOutcome, Fault
<1>7. stray' \in [Buckets -> Nat]
  BY ReadType DEF Reserve
<1> QED
  BY <1>3, <1>4, <1>5, <1>6, <1>7 DEF TypeOK, Reserve

LEMMA TypeTake ==
    ASSUME TypeOK, NEW t \in Threads, NEW r \in Rids, NEW used \in Amount,
           Take(t, r, used)
    PROVE  TypeOK'
<1> DEFINE e == reservations[r]
           d == [who |-> e.who, held |-> e.held, used |-> used, day |-> e.day]
<1>1. e \in Held /\ e.day <= today
  BY DEF TypeOK, Take
<1>2. d \in Due
  BY <1>1 DEF Held, Due
<1>3. /\ applying' \in [DOMAIN applying' -> Due]
      /\ DOMAIN applying' = DOMAIN applying \cup {t}
      /\ applying'[t] = d
      /\ \A y \in DOMAIN applying \ {t} : applying'[y] = applying[y]
  <2>1. applying' = With(applying, t, d)
    BY DEF Take
  <2>2. applying \in [DOMAIN applying -> Due]
    BY DEF TypeOK
  <2> HIDE DEF d
  <2> QED
    BY <1>2, <2>1, <2>2 DEF With
<1>4. \A y \in DOMAIN applying' : applying'[y].day <= today'
  BY <1>1, <1>3 DEF TypeOK, Take
<1>5. /\ reservations' \in [DOMAIN reservations' -> Held]
      /\ DOMAIN reservations' \subseteq DOMAIN reservations
      /\ \A y \in DOMAIN reservations' : reservations'[y] = reservations[y]
  <2>1. reservations' = Without(reservations, r)
    BY DEF Take
  <2>2. reservations \in [DOMAIN reservations -> Held]
    BY DEF TypeOK
  <2> QED
    BY <2>1, <2>2 DEF Without
<1> QED
  BY <1>3, <1>4, <1>5 DEF TypeOK, Take, history

LEMMA TypeUnreserved ==
    ASSUME TypeOK, NEW t \in Threads, NEW who \in Accounts, NEW used \in Uses,
           RecordUnreserved(t, who, used)
    PROVE  TypeOK'
<1> DEFINE d == [who |-> who, held |-> Nothing, used |-> used, day |-> today]
<1>1. d \in Due
  BY ConstantsAssumption DEF Due, Nothing, Amount, TypeOK
<1>2. /\ applying' \in [DOMAIN applying' -> Due]
      /\ DOMAIN applying' = DOMAIN applying \cup {t}
      /\ applying'[t] = d
      /\ \A y \in DOMAIN applying \ {t} : applying'[y] = applying[y]
  <2>1. applying' = With(applying, t, d)
    BY DEF RecordUnreserved
  <2>2. applying \in [DOMAIN applying -> Due]
    BY DEF TypeOK
  <2> HIDE DEF d
  <2> QED
    BY <1>1, <2>1, <2>2 DEF With
<1>3. \A y \in DOMAIN applying' : applying'[y].day <= today'
  BY <1>2 DEF TypeOK, RecordUnreserved
<1> QED
  BY <1>2, <1>3 DEF TypeOK, RecordUnreserved, history

LEMMA DueParts ==
    ASSUME TypeOK, NEW t \in DOMAIN applying
    PROVE  LET e     == applying[t]
               delta == [m \in Meters |-> e.used[m] - e.held[m]]
           IN  /\ e.who \in Accounts /\ e.held \in Amount /\ e.used \in Amount
               /\ delta \in [Meters -> Int]
               /\ [m \in Meters |-> FloorAtZero(delta[m])] \in Amount
BY DEF TypeOK, Due, Amount, FloorAtZero

LEMMA TypeApply ==
    ASSUME TypeOK, NEW t \in Threads, NEW readable \in BOOLEAN,
           Apply(t, readable)
    PROVE  TypeOK'
<1> DEFINE e     == applying[t]
           delta == [m \in Meters |-> e.used[m] - e.held[m]]
           over  == [m \in Meters |-> FloorAtZero(delta[m])]
<1>1. t \in DOMAIN applying
  BY DEF Apply
<1>2. /\ e.who \in Accounts /\ e.held \in Amount /\ e.used \in Amount
      /\ delta \in [Meters -> Int] /\ over \in Amount
  BY <1>1, DueParts
<1>3. Bump(Read(readable), e.who, delta) \in [Buckets -> Nat]
  BY <1>2, BumpType, ReadType
<1>4. /\ file' \in [day : Nat, spent : [Buckets -> Nat]]
      /\ file'.day <= today'
      /\ faults' \in Nat
  BY <1>3 DEF TypeOK, Apply, ReadOutcome, Fault
<1>5. charged' \in [Buckets -> Nat] /\ overrun' \in [Buckets -> Nat]
  <2>1. charged' = Tally(charged, e.who, e.used)
    BY DEF Apply
  <2>2. overrun' = Tally(overrun, e.who, over)
    BY DEF Apply
  <2> QED
    BY <1>2, <2>1, <2>2, TallyType DEF TypeOK
<1>6. stray' \in [Buckets -> Nat]
  <2>1. stray' = IF e.day = today THEN Forget(stray, readable)
                 ELSE Tally(Forget(stray, readable), e.who, e.held)
    BY DEF Apply
  <2> QED
    BY <1>2, <2>1, TallyType, ReadType
<1>7. /\ applying' \in [DOMAIN applying' -> Due]
      /\ DOMAIN applying' \subseteq DOMAIN applying
      /\ \A y \in DOMAIN applying' : applying'[y] = applying[y]
  <2>1. applying' = Without(applying, t)
    BY DEF Apply
  <2>2. applying \in [DOMAIN applying -> Due]
    BY DEF TypeOK
  <2> QED
    BY <2>1, <2>2 DEF Without
<1> QED
  BY <1>4, <1>5, <1>6, <1>7 DEF TypeOK, Apply

LEMMA TypeApplyFails ==
    ASSUME TypeOK, NEW t \in Threads, ApplyFails(t)
    PROVE  TypeOK'
<1>1. /\ leaked' \in [Buckets -> Nat]
      /\ charged' \in [Buckets -> Nat] /\ lost' \in [Buckets -> Nat]
  BY DueParts, TallyType DEF TypeOK, ApplyFails
<1>2. /\ applying' \in [DOMAIN applying' -> Due]
      /\ DOMAIN applying' \subseteq DOMAIN applying
      /\ \A y \in DOMAIN applying' : applying'[y] = applying[y]
  <2>1. applying' = Without(applying, t)
    BY DEF ApplyFails
  <2>2. applying \in [DOMAIN applying -> Due]
    BY DEF TypeOK
  <2> QED
    BY <2>1, <2>2 DEF Without
<1> QED
  BY <1>1, <1>2 DEF TypeOK, ApplyFails, Fault

LEMMA TypeMidnight ==
    ASSUME TypeOK, Midnight
    PROVE  TypeOK'
<1>1. /\ today \in Nat /\ today' = today + 1
      /\ file.day \in Nat /\ file.day <= today
  BY DEF TypeOK, Midnight
<1>2. today' \in Nat /\ file.day <= today'
  BY <1>1
<1>3. /\ \A r \in DOMAIN reservations : reservations[r].day \in Nat
      /\ \A t \in DOMAIN applying : applying[t].day \in Nat
  BY DEF TypeOK, Held, Due
<1>4. /\ \A r \in DOMAIN reservations : reservations[r].day <= today'
      /\ \A t \in DOMAIN applying : applying[t].day <= today'
  BY <1>1, <1>3 DEF TypeOK
<1> QED
  BY <1>2, <1>4 DEF TypeOK, Midnight, EmptyLedger

-----------------------------------------------------------------------------
(* The inductive invariant.  UnitsFinite lets the cardinalities be used as *)
(* numbers; Conservation needs the type invariant (an estimate that is     *)
(* given back was booked before) and CapHonoured rests on the cap check    *)
(* and the booking being one step.                                         *)

UnitsFinite ==
    \A b \in Buckets : /\ IsFiniteSet(Units(reservations, b, today))
                       /\ IsFiniteSet(Units(applying, b, today))
                       /\ IsFiniteSet(UnwrittenUnits(b))

\* What was lost was used.
LostWasUsed == \A b \in Buckets : lost[b] <= charged[b]

IInv == /\ TypeOK /\ UnitsFinite /\ LostWasUsed
        /\ Conservation /\ CapHonoured

\* What an action has to establish for one bucket.
Finite(b) == /\ IsFiniteSet(Units(reservations, b, today))
             /\ IsFiniteSet(Units(applying, b, today))
             /\ IsFiniteSet(UnwrittenUnits(b))

Balanced(b) == /\ Spent[b] + lost[b] <= Owed(b)
               /\ Owed(b) <= Spent[b] + stray[b] + lost[b]
               /\ lost[b] <= charged[b]
               /\ Cap[b] > NoCap => Spent[b] <= Cap[b] + overrun[b]

LEMMA BucketWise ==
    (\A b \in Buckets : Finite(b) /\ Balanced(b))
      <=> (UnitsFinite /\ LostWasUsed /\ Conservation /\ CapHonoured)
BY DEF Finite, Balanced, UnitsFinite, LostWasUsed, Conservation, CapHonoured

(* The numbers of one bucket, with their types.                            *)
LEMMA BucketNumbers ==
    ASSUME IInv, NEW b \in Buckets
    PROVE  /\ b[1] \in Accounts /\ b[2] \in Meters
           /\ Spent[b] \in Nat /\ charged[b] \in Nat /\ overrun[b] \in Nat
           /\ leaked[b] \in Nat /\ stray[b] \in Nat /\ Cap[b] \in Int
           /\ lost[b] \in Nat /\ Unwritten(b) \in Nat
           /\ Finite(b) /\ Balanced(b)
           /\ Cardinality(Units(reservations, b, today)) \in Nat
           /\ Cardinality(Units(applying, b, today)) \in Nat
<1>1. Finite(b) /\ Balanced(b)
  BY BucketWise DEF IInv
<1>2. Spent \in [Buckets -> Nat]
  BY ReadType DEF IInv
<1> QED
  BY <1>1, <1>2, BucketParts, FS_CardinalityType, ConstantsAssumption
     DEF IInv, TypeOK, Finite, Unwritten

LEMMA OwedType ==
    ASSUME IInv, NEW b \in Buckets
    PROVE  Outstanding(b) \in Nat /\ Owed(b) \in Nat
BY BucketNumbers DEF Outstanding, Owed

LEMMA TypeCrash ==
    ASSUME IInv, Crash
    PROVE  TypeOK'
<1>1. ASSUME NEW b \in Buckets
      PROVE  /\ leaked[b] + Outstanding(b) \in Nat
             /\ charged[b] + Unwritten(b) \in Nat
             /\ lost[b] + Unwritten(b) \in Nat
  BY BucketNumbers, OwedType
<1>2. /\ leaked' \in [Buckets -> Nat]
      /\ charged' \in [Buckets -> Nat] /\ lost' \in [Buckets -> Nat]
  BY <1>1 DEF Crash
<1>3. /\ reservations' \in [DOMAIN reservations' -> Held]
      /\ applying' \in [DOMAIN applying' -> Due]
      /\ DOMAIN reservations' = {} /\ DOMAIN applying' = {}
  BY EmptyMap DEF Crash
<1> QED
  BY <1>2, <1>3 DEF IInv, TypeOK, Crash, Fault

(* Reserve books the same amount on the ledger and on the holders.         *)
LEMMA BalanceReserve ==
    ASSUME IInv, NEW r \in Rids, NEW q \in Requests,
           NEW readable \in BOOLEAN, Reserve(r, q, readable),
           NEW b \in Buckets
    PROVE  (Finite(b) /\ Balanced(b))'
<1> DEFINE e == [who |-> q.who, held |-> q.charge, day |-> today]
           c == IF b[1] \in Books(q.who) THEN q.charge[b[2]] ELSE 0
           R == Read(readable)[b]
<1>1. q.who \in Accounts /\ q.charge \in Amount /\ q.charge[b[2]] \in Nat
  BY BucketNumbers, ConstantsAssumption DEF Request, Amount
<1>2. c \in Nat /\ R \in Nat
  BY <1>1, ReadType DEF IInv
<1>3. Share(e, b, today) = c
  BY DEF Share, Holds
<1>4. r \notin DOMAIN reservations
  BY DEF IInv, TypeOK, Reserve
<1>5. reservations' = With(reservations, r, e) /\ today' = today
      /\ applying' = applying
  BY DEF Reserve
<1>6. e.held[b[2]] \in Nat
  BY <1>1
<1>7. /\ IsFiniteSet(Units(reservations, b, today)')
      /\ Cardinality(Units(reservations, b, today)') =
           Cardinality(Units(reservations, b, today)) + c
  <2> HIDE DEF e, c
  <2> QED
    BY <1>3, <1>4, <1>5, <1>6, BucketNumbers, UnitsWith DEF Finite
<1>8. Units(applying, b, today)' = Units(applying, b, today)
  BY <1>5
<1>9. Outstanding(b)' = Outstanding(b) + c /\ Owed(b)' = Owed(b) + c
  <2> HIDE DEF c
  <2> QED
    BY <1>2, <1>7, <1>8, BucketNumbers DEF Outstanding, Owed, Reserve
<1>10. Spent'[b] = R + c
  <2>1. Spent'[b] = Bump(Read(readable), q.who, q.charge)[b]
    BY DEF Spent, Load, Reserve
  <2> QED
    BY <1>1, <1>2, <2>1 DEF Bump, FloorAtZero
<1>11. /\ readable => R = Spent[b] /\ stray'[b] = stray[b]
       /\ ~readable => R = 0 /\ stray'[b] = stray[b] + Spent[b]
  BY DEF Reserve, Read, Spent, Forget, EmptyLedger
<1>12. overrun'[b] = overrun[b] /\ lost'[b] = lost[b] /\ charged' = charged
  BY DEF Reserve
<1>13. Cap[b] > NoCap => R + c <= Cap[b] + overrun[b]
  <2> SUFFICES ASSUME Cap[b] > NoCap PROVE R + c <= Cap[b] + overrun[b]
    OBVIOUS
  <2>1. CASE b[1] \in Books(q.who) /\ ~(b[2] = "usd" /\ ~q.priced)
    <3>1. Read(readable)[<<b[1], b[2]>>] + q.charge[b[2]] <= Cap[<<b[1], b[2]>>]
      BY <2>1, BucketParts, BucketNumbers DEF Reserve, CapsAllow, NoCap
    <3>2. R + c <= Cap[b]
      BY <2>1, <3>1, BucketParts
    <3> HIDE DEF R, c
    <3> QED
      BY <1>2, <3>2, BucketNumbers
  <2>2. CASE b[1] \notin Books(q.who) \/ (b[2] = "usd" /\ ~q.priced)
    <3>1. c = 0
      BY <2>2, ConstantsAssumption
    <3> HIDE DEF R, c
    <3> QED
      BY <1>2, <1>11, <3>1, BucketNumbers DEF Balanced, NoCap
  <2> QED
    BY <2>1, <2>2
<1> HIDE DEF c, R
<1>14. Finite(b)'
  BY <1>5, <1>7, <1>8, BucketNumbers DEF Finite, UnwrittenUnits
<1>15. Balanced(b)'
  BY <1>2, <1>9, <1>10, <1>11, <1>12, <1>13, BucketNumbers, OwedType
     DEF Balanced
<1> QED
  BY <1>14, <1>15

(* Popping a reservation moves its share from one map of holders to the    *)
(* other.                                                                  *)
LEMMA BalanceTake ==
    ASSUME IInv, NEW t \in Threads, NEW r \in Rids, NEW used \in Amount,
           Take(t, r, used), NEW b \in Buckets
    PROVE  (Finite(b) /\ Balanced(b))'
<1> DEFINE e == reservations[r]
           d == [who |-> e.who, held |-> e.held, used |-> used, day |-> e.day]
           s == Share(e, b, today)
<1>1. e.held[b[2]] \in Nat /\ s \in Nat
  BY BucketNumbers DEF IInv, TypeOK, Take, Held, Amount, Share
<1>2. Share(d, b, today) = s /\ d.held[b[2]] = e.held[b[2]]
  BY DEF Share, Holds
<1>3. /\ IsFiniteSet(Units(reservations, b, today)')
      /\ Cardinality(Units(reservations, b, today)) =
           Cardinality(Units(reservations, b, today)') + s
  <2>1. reservations' = Without(reservations, r) /\ today' = today
    BY DEF Take
  <2>2. reservations = [y \in DOMAIN reservations |-> reservations[y]]
    BY DEF IInv, TypeOK
  <2>3. r \in DOMAIN reservations
    BY DEF Take
  <2> QED
    BY <1>1, <2>1, <2>2, <2>3, BucketNumbers, UnitsWithout DEF Finite
<1>4. /\ IsFiniteSet(Units(applying, b, today)')
      /\ Cardinality(Units(applying, b, today)') =
           Cardinality(Units(applying, b, today)) + s
  <2>1. applying' = With(applying, t, d) /\ today' = today
    BY DEF Take
  <2>2. t \notin DOMAIN applying
    BY DEF Take, Free
  <2> HIDE DEF d, s
  <2> QED
    BY <1>1, <1>2, <2>1, <2>2, BucketNumbers, UnitsWith DEF Finite
<1>5. Outstanding(b)' = Outstanding(b) /\ Owed(b)' = Owed(b)
  <2>1. charged' = charged /\ leaked' = leaked
    BY DEF Take, history
  <2>2. Cardinality(Units(reservations, b, today)') \in Nat
    BY <1>3, FS_CardinalityType
  <2> HIDE DEF s
  <2> QED
    BY <1>1, <1>3, <1>4, <2>1, <2>2, BucketNumbers DEF Outstanding, Owed
<1>6. /\ Spent' = Spent /\ stray' = stray /\ overrun' = overrun
      /\ lost' = lost /\ charged' = charged
  BY DEF Take, history, Spent, Load
<1>7. IsFiniteSet(UnwrittenUnits(b)')
  <2>1. applying' = With(applying, t, d) /\ t \notin DOMAIN applying
    BY DEF Take, Free
  <2>2. d.used[b[2]] \in Nat
    BY BucketNumbers DEF Amount
  <2> HIDE DEF d
  <2> QED
    BY <2>1, <2>2, BucketNumbers, UnwrittenWith DEF Finite
<1> QED
  BY <1>3, <1>4, <1>5, <1>6, <1>7, BucketNumbers DEF Finite, Balanced

(* A call without reservation holds nothing.                               *)
LEMMA BalanceUnreserved ==
    ASSUME IInv, NEW t \in Threads, NEW who \in Accounts, NEW used \in Uses,
           RecordUnreserved(t, who, used), NEW b \in Buckets
    PROVE  (Finite(b) /\ Balanced(b))'
<1> DEFINE d == [who |-> who, held |-> Nothing, used |-> used, day |-> today]
<1>1. d.held[b[2]] = 0
  BY BucketNumbers DEF Nothing
<1>2. Share(d, b, today) = 0
  BY <1>1 DEF Share
<1>3. /\ IsFiniteSet(Units(applying, b, today)')
      /\ Cardinality(Units(applying, b, today)') =
           Cardinality(Units(applying, b, today))
  <2>1. applying' = With(applying, t, d) /\ today' = today
    BY DEF RecordUnreserved
  <2>2. t \notin DOMAIN applying
    BY DEF RecordUnreserved, Free
  <2> HIDE DEF d
  <2> QED
    BY <1>1, <1>2, <2>1, <2>2, BucketNumbers, UnitsWith DEF Finite
<1>4. /\ Units(reservations, b, today)' = Units(reservations, b, today)
      /\ charged' = charged /\ leaked' = leaked
      /\ Spent' = Spent /\ stray' = stray /\ overrun' = overrun
      /\ lost' = lost
  BY DEF RecordUnreserved, history, Spent, Load
<1>5. Owed(b)' = Owed(b)
  BY <1>3, <1>4 DEF Outstanding, Owed
<1>6. IsFiniteSet(UnwrittenUnits(b)')
  <2>1. applying' = With(applying, t, d) /\ t \notin DOMAIN applying
    BY DEF RecordUnreserved, Free
  <2>2. d.used[b[2]] \in Nat
    BY BucketNumbers, ConstantsAssumption DEF Amount
  <2> HIDE DEF d
  <2> QED
    BY <2>1, <2>2, BucketNumbers, UnwrittenWith DEF Finite
<1> QED
  BY <1>3, <1>4, <1>5, <1>6, BucketNumbers DEF Finite, Balanced

(* A thread that is done with its change no longer holds anything.         *)
LEMMA UnitsApplied ==
    ASSUME IInv, NEW t \in DOMAIN applying, NEW b \in Buckets,
           applying' = Without(applying, t), today' = today,
           reservations' = reservations
    PROVE  LET s == Share(applying[t], b, today)
           IN  /\ s \in Nat /\ Finite(b)'
               /\ s <= Outstanding(b)
               /\ Outstanding(b)' = Outstanding(b) - s
<1> DEFINE s == Share(applying[t], b, today)
<1>1. applying[t].held[b[2]] \in Nat /\ s \in Nat
  BY BucketNumbers DEF IInv, TypeOK, Due, Amount, Share
<1>2. applying = [y \in DOMAIN applying |-> applying[y]]
  BY DEF IInv, TypeOK
<1>3. /\ IsFiniteSet(Units(applying, b, today)')
      /\ Cardinality(Units(applying, b, today)) =
           Cardinality(Units(applying, b, today)') + s
  BY <1>1, <1>2, BucketNumbers, UnitsWithout DEF Finite
<1>4. Cardinality(Units(applying, b, today)') \in Nat
  BY <1>3, FS_CardinalityType
<1>5. Units(reservations, b, today)' = Units(reservations, b, today)
  OBVIOUS
<1> HIDE DEF s
<1>6. s <= Outstanding(b) /\ Outstanding(b)' = Outstanding(b) - s
  BY <1>1, <1>3, <1>4, <1>5, BucketNumbers DEF Outstanding
<1>7. IsFiniteSet(UnwrittenUnits(b)')
  BY BucketNumbers, UnwrittenWithout DEF Finite
<1>8. Finite(b)'
  BY <1>3, <1>5, <1>7, BucketNumbers DEF Finite
<1> QED
  BY <1>1, <1>6, <1>8 DEF s

(* Writing a settled call's change: the ledger moves by actual minus       *)
(* reserved, the books by the actual usage, and the estimate is off.       *)
LEMMA BalanceApply ==
    ASSUME IInv, NEW t \in Threads, NEW readable \in BOOLEAN,
           Apply(t, readable), NEW b \in Buckets
    PROVE  (Finite(b) /\ Balanced(b))'
<1> DEFINE e     == applying[t]
           delta == [m \in Meters |-> e.used[m] - e.held[m]]
           over  == [m \in Meters |-> FloorAtZero(delta[m])]
           hit   == b[1] \in Books(e.who)
           u     == IF hit THEN e.used[b[2]] ELSE 0
           h     == IF hit THEN e.held[b[2]] ELSE 0
           s     == Share(e, b, today)
           R     == Read(readable)[b]
<1>1. t \in DOMAIN applying
  BY DEF Apply
<1>2. /\ e.held \in Amount /\ e.used \in Amount /\ b[2] \in Meters
  BY <1>1, DueParts, BucketNumbers DEF IInv
<1>3. u \in Nat /\ h \in Nat
  BY <1>2 DEF Amount
<1>4. s = (IF e.day = today THEN h ELSE 0)
  BY DEF Share, Holds
<1>5. /\ s \in Nat /\ Finite(b)' /\ s <= Outstanding(b)
      /\ Outstanding(b)' = Outstanding(b) - s
  BY <1>1, UnitsApplied DEF Apply
<1>6. R \in Nat
  BY ReadType DEF IInv
<1>7. charged'[b] = charged[b] + u /\ leaked' = leaked /\ lost' = lost
  <2>1. /\ charged' = Tally(charged, e.who, e.used)
        /\ leaked' = leaked /\ lost' = lost
    BY DEF Apply
  <2> QED
    BY <1>3, <2>1, BucketNumbers DEF Tally
<1>8. overrun'[b] = overrun[b] + FloorAtZero(u - h)
  <2>1. overrun' = Tally(overrun, e.who, over)
    BY DEF Apply
  <2>2. hit => over[b[2]] = FloorAtZero(u - h)
    BY <1>2
  <2>3. ~hit => FloorAtZero(u - h) = 0
    BY DEF FloorAtZero
  <2>4. overrun'[b] = IF hit THEN overrun[b] + over[b[2]] ELSE overrun[b]
    BY <2>1 DEF Tally
  <2> HIDE DEF over, u, h, hit
  <2> QED
    BY <2>2, <2>3, <2>4, BucketNumbers
<1>9. /\ readable => R = Spent[b] /\ Forget(stray, readable)[b] = stray[b]
      /\ ~readable => R = 0 /\ Forget(stray, readable)[b] = stray[b] + Spent[b]
  BY DEF Read, Spent, Forget, EmptyLedger
<1>10. stray'[b] = Forget(stray, readable)[b] + (h - s)
  <2>1. stray' = IF e.day = today THEN Forget(stray, readable)
                 ELSE Tally(Forget(stray, readable), e.who, e.held)
    BY DEF Apply
  <2>2. Forget(stray, readable)[b] \in Nat
    BY ReadType DEF IInv
  <2> QED
    BY <1>3, <1>4, <2>1, <2>2 DEF Tally
<1>11. Spent'[b] = FloorAtZero(R + (u - h))
  <2>1. CASE delta = Nothing
    <3>1. hit => u - h = 0
      BY <1>2, <2>1 DEF Nothing
    <3>2. u - h = 0
      BY <3>1
    <3>3. Spent' = Spent /\ R = Spent[b]
      BY <1>9, <2>1 DEF Apply, Spent, Load
    <3> HIDE DEF u, h, R
    <3> QED
      BY <3>2, <3>3, BucketNumbers DEF FloorAtZero
  <2>2. CASE delta # Nothing
    <3>1. Spent' = Bump(Read(readable), e.who, delta)
      BY <2>2 DEF Apply, Spent, Load
    <3>2. hit => delta[b[2]] = u - h
      BY <1>2
    <3>3. ~hit => u - h = 0
      OBVIOUS
    <3>4. Spent'[b] = IF hit THEN FloorAtZero(R + delta[b[2]]) ELSE R
      BY <3>1 DEF Bump
    <3> HIDE DEF u, h, R, delta, hit
    <3> QED
      BY <1>6, <3>2, <3>3, <3>4 DEF FloorAtZero
  <2> QED
    BY <2>1, <2>2
<1> HIDE DEF e, u, h, s, R, delta, over, hit
<1>12. Owed(b)' = Owed(b) + u - s
  BY <1>3, <1>5, <1>7, BucketNumbers, OwedType DEF Owed
<1>13. Balanced(b)'
  <2>1. s <= h
    BY <1>3, <1>4
  <2>2. stray'[b] \in Nat /\ Forget(stray, readable)[b] \in Nat
    BY <1>3, <1>5, <1>9, <1>10, <2>1, BucketNumbers
  <2>3. lost'[b] + s <= Owed(b) /\ lost'[b] <= charged'[b]
    BY <1>3, <1>5, <1>7, BucketNumbers, OwedType DEF Owed, Balanced
  <2>4. Spent'[b] + lost'[b] <= Owed(b)'
    BY <1>3, <1>5, <1>6, <1>7, <1>9, <1>11, <1>12, <2>1, <2>3, BucketNumbers,
       OwedType DEF FloorAtZero, Balanced
  <2>5. Owed(b)' <= Spent'[b] + stray'[b] + lost'[b]
    BY <1>3, <1>5, <1>6, <1>7, <1>9, <1>10, <1>11, <1>12, <2>1, <2>2,
       BucketNumbers, OwedType DEF FloorAtZero, Balanced
  <2>6. Cap[b] > NoCap => Spent'[b] <= Cap[b] + overrun'[b]
    BY <1>3, <1>6, <1>8, <1>9, <1>11, BucketNumbers
       DEF FloorAtZero, Balanced, NoCap
  <2> QED
    BY <2>3, <2>4, <2>5, <2>6 DEF Balanced
<1> QED
  BY <1>5, <1>13

(* A write that fails leaves the estimate booked with nobody holding it,   *)
(* and the usage in nothing but the books of the auditor.                  *)
LEMMA BalanceApplyFails ==
    ASSUME IInv, NEW t \in Threads, ApplyFails(t), NEW b \in Buckets
    PROVE  (Finite(b) /\ Balanced(b))'
<1> DEFINE e == applying[t]
           s == Share(e, b, today)
           u == IF b[1] \in Books(e.who) THEN e.used[b[2]] ELSE 0
<1>1. t \in DOMAIN applying
  BY DEF ApplyFails
<1>2. /\ s \in Nat /\ Finite(b)' /\ s <= Outstanding(b)
      /\ Outstanding(b)' = Outstanding(b) - s
  BY <1>1, UnitsApplied DEF ApplyFails
<1>3. leaked'[b] = leaked[b] + s
  <2>1. leaked' = IF e.day = today THEN Tally(leaked, e.who, e.held) ELSE leaked
    BY DEF ApplyFails
  <2>2. leaked[b] + 0 = leaked[b]
    BY BucketNumbers
  <2> QED
    BY <2>1, <2>2 DEF Tally, Share, Holds
<1>4. u \in Nat /\ charged'[b] = charged[b] + u /\ lost'[b] = lost[b] + u
  <2>1. charged' = Tally(charged, e.who, e.used) /\ lost' = Tally(lost, e.who, e.used)
    BY DEF ApplyFails
  <2>2. e.used[b[2]] \in Nat
    BY <1>1, DueParts, BucketNumbers DEF IInv, Amount
  <2> QED
    BY <2>1, <2>2, BucketNumbers DEF Tally
<1>5. /\ Spent' = Spent
      /\ stray' = stray /\ overrun' = overrun
  BY DEF ApplyFails, Spent, Load
<1> HIDE DEF s, u
<1>6. Owed(b)' = Owed(b) + u
  BY <1>2, <1>3, <1>4, BucketNumbers, OwedType DEF Owed
<1> QED
  BY <1>2, <1>4, <1>5, <1>6, BucketNumbers, OwedType DEF Balanced

(* A crash turns every estimate still out into one nobody holds, and the   *)
(* usage of every settlement under way into usage that is lost.            *)
LEMMA BalanceCrash ==
    ASSUME IInv, Crash, NEW b \in Buckets
    PROVE  (Finite(b) /\ Balanced(b))'
<1>1. /\ Units(reservations, b, today)' = {}
      /\ Units(applying, b, today)' = {} /\ UnwrittenUnits(b)' = {}
  BY UnitsNone DEF Crash, UnwrittenUnits
<1>2. Finite(b)' /\ Outstanding(b)' = 0
  BY <1>1, FS_EmptySet DEF Finite, Outstanding
<1>3. /\ leaked'[b] = leaked[b] + Outstanding(b)
      /\ charged'[b] = charged[b] + Unwritten(b)
      /\ lost'[b] = lost[b] + Unwritten(b)
  BY DEF Crash
<1>4. /\ Spent' = Spent
      /\ stray' = stray /\ overrun' = overrun
  BY DEF Crash, Spent, Load
<1>5. Owed(b)' = Owed(b) + Unwritten(b)
  BY <1>2, <1>3, BucketNumbers, OwedType DEF Owed
<1> QED
  BY <1>2, <1>3, <1>4, <1>5, BucketNumbers, OwedType DEF Balanced

(* At midnight the books and the ledger both start from nothing: every     *)
(* reservation that is still held belongs to an earlier day.               *)
LEMMA BalanceMidnight ==
    ASSUME IInv, Midnight, NEW b \in Buckets
    PROVE  (Finite(b) /\ Balanced(b))'
<1>1. /\ today \in Nat /\ today' = today + 1 /\ file' = file
      /\ reservations' = reservations /\ applying' = applying
  BY DEF IInv, TypeOK, Midnight
<1>2. Units(reservations, b, today)' = {}
  <2>1. \A r \in DOMAIN reservations : reservations[r].day # today'
    BY <1>1 DEF IInv, TypeOK, Held
  <2> QED
    BY <1>1, <2>1 DEF Units, Holds
<1>3. Units(applying, b, today)' = {}
  <2>1. \A t \in DOMAIN applying : applying[t].day # today'
    BY <1>1 DEF IInv, TypeOK, Due
  <2> QED
    BY <1>1, <2>1 DEF Units, Holds
<1>4. Finite(b)' /\ Outstanding(b)' = 0
  <2>1. UnwrittenUnits(b)' = UnwrittenUnits(b)
    BY <1>1 DEF UnwrittenUnits
  <2> QED
    BY <1>2, <1>3, <2>1, BucketNumbers, FS_EmptySet DEF Finite, Outstanding
<1>5. Spent'[b] = 0
  <2>1. file.day # today'
    BY <1>1 DEF IInv, TypeOK
  <2> QED
    BY <1>1, <2>1 DEF Spent, Load, EmptyLedger
<1>6. /\ charged'[b] = 0 /\ leaked'[b] = 0 /\ stray'[b] = 0
      /\ overrun'[b] = 0 /\ lost'[b] = 0
  BY DEF Midnight, EmptyLedger
<1>7. Owed(b)' = 0
  BY <1>4, <1>6 DEF Owed
<1> QED
  BY <1>4, <1>5, <1>6, <1>7, BucketNumbers DEF Balanced, NoCap

-----------------------------------------------------------------------------
(* Every step of the file ledger keeps the inductive invariant.            *)

LEMMA InitInductive == Init => IInv
<1> SUFFICES ASSUME Init PROVE IInv
  OBVIOUS
<1>1. ASSUME NEW b \in Buckets PROVE Finite(b) /\ Balanced(b)
  <2>1. /\ Units(reservations, b, today) = {}
        /\ Units(applying, b, today) = {} /\ UnwrittenUnits(b) = {}
    BY UnitsNone DEF Init, UnwrittenUnits
  <2>2. Finite(b) /\ Outstanding(b) = 0
    BY <2>1, FS_EmptySet DEF Finite, Outstanding
  <2>3. /\ Spent[b] = 0 /\ charged[b] = 0 /\ leaked[b] = 0
        /\ stray[b] = 0 /\ overrun[b] = 0 /\ lost[b] = 0
    BY DEF Init, Spent, Load, EmptyLedger
  <2>4. Owed(b) = 0
    BY <2>2, <2>3 DEF Owed
  <2> QED
    BY <2>2, <2>3, <2>4, ConstantsAssumption DEF Balanced, NoCap
<1> QED
  BY <1>1, BucketWise, TypeInit DEF IInv

LEMMA NextInductive ==
    ASSUME IInv, [Next]_vars
    PROVE  IInv'
<1>1. ASSUME TypeOK',
             ASSUME NEW b \in Buckets PROVE (Finite(b) /\ Balanced(b))'
      PROVE  IInv'
  <2>1. (UnitsFinite /\ LostWasUsed /\ Conservation /\ CapHonoured)'
    BY <1>1 DEF Finite, Balanced, UnitsFinite, LostWasUsed, Conservation,
                CapHonoured
  <2> QED
    BY <1>1, <2>1 DEF IInv
<1>2. ASSUME NEW r \in Rids, NEW q \in Requests, NEW readable \in BOOLEAN,
             Reserve(r, q, readable)
      PROVE  IInv'
  BY <1>1, <1>2, TypeReserve, BalanceReserve DEF IInv
<1>3. ASSUME NEW t \in Threads, NEW r \in Rids, NEW used \in Amount,
             Take(t, r, used)
      PROVE  IInv'
  BY <1>1, <1>3, TypeTake, BalanceTake DEF IInv
<1>4. ASSUME NEW t \in Threads, NEW who \in Accounts, NEW used \in Uses,
             RecordUnreserved(t, who, used)
      PROVE  IInv'
  BY <1>1, <1>4, TypeUnreserved, BalanceUnreserved DEF IInv
<1>5. ASSUME NEW t \in Threads, NEW readable \in BOOLEAN, Apply(t, readable)
      PROVE  IInv'
  BY <1>1, <1>5, TypeApply, BalanceApply DEF IInv
<1>6. ASSUME NEW t \in Threads, ApplyFails(t)
      PROVE  IInv'
  BY <1>1, <1>6, TypeApplyFails, BalanceApplyFails DEF IInv
<1>7. CASE Crash
  BY <1>1, <1>7, TypeCrash, BalanceCrash
<1>8. CASE Midnight
  BY <1>1, <1>8, TypeMidnight, BalanceMidnight DEF IInv
<1>9. CASE UNCHANGED vars
  <2>1. TypeOK'
    BY <1>9 DEF vars, IInv, TypeOK
  <2>2. (UnitsFinite /\ LostWasUsed)'
    BY <1>9 DEF vars, IInv, UnitsFinite, LostWasUsed, UnwrittenUnits
  <2>3. (Conservation /\ CapHonoured)'
    BY <1>9 DEF vars, IInv, Conservation, CapHonoured, Spent, Load, Owed,
                Outstanding
  <2> QED
    BY <2>1, <2>2, <2>3 DEF IInv
<1>10. ASSUME NEW t \in Threads, NEW r \in Rids,
              Release(t, r) \/ RecordUsage(t, r)
       PROVE  IInv'
  <2>1. Nothing \in Amount
    BY DEF Nothing, Amount
  <2>2. Uses \subseteq Amount
    BY ConstantsAssumption
  <2> QED
    BY <1>3, <1>10, <2>1, <2>2 DEF Release, RecordUsage
<1> QED
  BY <1>2, <1>4, <1>5, <1>6, <1>7, <1>8, <1>9, <1>10 DEF Next

(* The inductive invariant holds throughout: the file ledger, its          *)
(* reservations and the settlements under way stay in step.                *)
THEOREM Inductive == Spec => []IInv
<1>1. IInv /\ [Next]_vars => IInv'
  BY NextInductive
<1> QED
  BY InitInductive, <1>1, PTL DEF Spec

(* Types: whatever interleaving of threads, midnights, crashes and file    *)
(* errors, no bucket of the ledger is negative and no reservation is held  *)
(* that was not issued.                                                    *)
THEOREM TypeCorrect == Spec => []TypeOK
<1>1. IInv => TypeOK
  BY DEF IInv
<1> QED
  BY Inductive, <1>1, PTL

(* The ledger of a day is what was used, written or not, and is still held *)
(* or left behind, but for the amounts named: estimates taken off for      *)
(* another day, what a bad read forgot, and usage that a failed write or a *)
(* crash lost.                                                             *)
THEOREM LedgerConserved == Spec => []Conservation
<1>1. IInv => Conservation
  BY DEF IInv
<1> QED
  BY Inductive, <1>1, PTL

(* Admission never takes an account over its cap.                          *)
THEOREM CapRespected == Spec => []CapHonoured
<1>1. IInv => CapHonoured
  BY DEF IInv
<1> QED
  BY Inductive, <1>1, PTL

(* The two together bound what a capped account can really use in a day:   *)
(* its cap, overruns, strays and the usage that was lost before it was     *)
(* written.                                                                *)
THEOREM UsageWithinCap == Spec => []UsageBounded
<1>1. ASSUME IInv PROVE UsageBounded
  <2> SUFFICES ASSUME NEW b \in Buckets, Cap[b] > NoCap
               PROVE  Owed(b) <= Cap[b] + overrun[b] + stray[b] + lost[b]
    BY DEF UsageBounded
  <2> QED
    BY <1>1, BucketNumbers, OwedType DEF Balanced, NoCap
<1>2. IInv => UsageBounded
  BY <1>1
<1> QED
  BY Inductive, <1>2, PTL
=============================================================================
