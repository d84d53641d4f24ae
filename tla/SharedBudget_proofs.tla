------------------------ MODULE SharedBudget_proofs ------------------------
(***************************************************************************)
(* Proofs about SharedBudget, for every set of gateway processes, keys and *)
(* reservation ids and every choice of caps, requests and usages.          *)
(***************************************************************************)
EXTENDS SharedBudget, FiniteSetTheorems, TLAPS

-----------------------------------------------------------------------------
(* The inductive invariant.                                                *)

(* Nothing is dated in the future: the hash of a day to come is empty, and *)
(* no file, reservation or draft is of such a day.                         *)
Dated ==
    /\ file.day <= today
    /\ \A r \in DOMAIN reservations : reservations[r].day <= today
    /\ \A w \in DOMAIN job : /\ job[w].day <= today
                             /\ job[w].at = "save" => job[w].draft.day <= today
    /\ \A d \in 1 .. MaxDay : d > today => redis[d] = Empty
    /\ outages \in Nat /\ faults \in Nat

(* How far a call has got: which pipelines have been carried out, that an  *)
(* estimate about to be booked in the file has passed the caps of the      *)
(* draft, and that its id belongs to this call alone.                      *)
Progress ==
    /\ \A w \in DOMAIN job :
          LET j == job[w] IN
          /\ j.at = "redis" => j.applied = {}
          /\ j.at = "redis key" => j.call = "settle" /\ j.applied = {Global}
          /\ j.call = "reserve" =>
                /\ j.rid \in issued /\ j.rid \notin DOMAIN reservations
                /\ j.at = "save" => CapsAllow(j.draft.spent, j.who, j.held)
    /\ \A v, w \in DOMAIN job :
          /\ v # w
          /\ job[v].call = "reserve" /\ job[w].call = "reserve"
          => job[v].rid # job[w].rid

\* The sums over holders are numbers.
Finite(a) == /\ IsFiniteSet(Reserved(reservations, a, today))
             /\ IsFiniteSet(ToSettle(job, a, today))

Covered(a) == Owed(a) <= Total(a) + stray[a]

(* What lies above the cap on Redis and in the file together came from     *)
(* estimates that were too low.  The same is true of every draft that may  *)
(* yet replace the file.                                                   *)
Excess(a, n) == FloorAtZero(n - Cap[a])

Within(a) ==
    Cap[a] > NoCap =>
      /\ Excess(a, redis[today][a]) + Excess(a, Load(today)[a]) <= over[a]
      /\ \A w \in DOMAIN job :
            job[w].at = "save" /\ job[w].draft.day = today =>
               Excess(a, redis[today][a]) + Excess(a, job[w].draft.spent[a]) <= over[a]

Counted == \A a \in Accounts : Finite(a) /\ Covered(a) /\ Within(a)

(* On the first day, before any outage or fault and with no process that   *)
(* has given up on Redis, every call is on Redis and its books are exact.  *)
(* A Redis that does not answer then has never been asked.                 *)
Still == /\ today = 1 /\ outages = 0 /\ faults = 0
         /\ \A w \in Workers : health[w] # "down"

OnRedisOnly ==
    /\ \A w \in DOMAIN job : job[w].at \in {"redis", "redis key"} /\ job[w].day = 1
    /\ \A r \in DOMAIN reservations : reservations[r].day = 1
    /\ ~redisUp => DOMAIN job = {} /\ \A w \in Workers : health[w] = "unknown"

Exact == \A a \in Accounts : redis[1][a] = Owed(a)

Quiet == Still => OnRedisOnly /\ Exact

IInv == TypeOK /\ Dated /\ Progress /\ Counted /\ Quiet


-----------------------------------------------------------------------------
(* Sums as cardinalities.                                                  *)

LEMMA UnitsOfOne ==
    ASSUME NEW x, NEW n \in Nat
    PROVE  /\ IsFiniteSet({x} \X (1 .. n))
           /\ Cardinality({x} \X (1 .. n)) = n
<1> DEFINE S == {x}
           T == 1 .. n
<1>1. IsFiniteSet(S) /\ Cardinality(S) = 1
  BY FS_Singleton
<1>2. IsFiniteSet(T) /\ Cardinality(T) = n
  BY FS_Interval
<1> HIDE DEF S, T
<1>3. /\ IsFiniteSet(S \X T)
      /\ Cardinality(S \X T) = Cardinality(S) * Cardinality(T)
  BY <1>1, <1>2, FS_Product
<1>4. Cardinality(S \X T) = n
  BY <1>1, <1>2, <1>3
<1> QED
  BY <1>3, <1>4 DEF S, T

(* Holders that hold the same make up the same units, in whichever map     *)
(* they are.                                                               *)
LEMMA UnitsSame ==
    ASSUME NEW f, NEW g, NEW S, \A x \in S : f[x].held = g[x].held
    PROVE  Units(f, S) = Units(g, S)
BY DEF Units

(* One holder more adds what it holds.                                     *)
LEMMA UnitsMore ==
    ASSUME NEW f, NEW g, NEW S, NEW x, x \notin S, g[x].held \in Nat,
           \A y \in S : f[y].held = g[y].held, IsFiniteSet(Units(f, S))
    PROVE  /\ IsFiniteSet(Units(g, S \cup {x}))
           /\ Cardinality(Units(g, S \cup {x})) =
                Cardinality(Units(f, S)) + g[x].held
<1> DEFINE U == Units(g, S)
           N == {x} \X (1 .. g[x].held)
<1>1. Units(f, S) = U
  BY UnitsSame
<1>2. /\ IsFiniteSet(N)
      /\ Cardinality(N) = g[x].held
  BY UnitsOfOne
<1>3. IsFiniteSet(U) /\ Cardinality(U) \in Nat
  BY <1>1, FS_CardinalityType
<1>4. U \cap N = {}
  BY DEF Units
<1>5. Units(g, S \cup {x}) = U \cup N
  BY DEF Units
<1> HIDE DEF U, N
<1>6. /\ IsFiniteSet(U \cup N)
      /\ Cardinality(U \cup N) =
           Cardinality(U) + Cardinality(N) - Cardinality(U \cap N)
  BY <1>2, <1>3, FS_Union
<1>7. Cardinality(U \cap N) = 0
  BY <1>4, FS_EmptySet
<1>8. Cardinality(U \cup N) = Cardinality(U) + Cardinality(N)
  BY <1>2, <1>3, <1>6, <1>7
<1> QED
  BY <1>1, <1>2, <1>5, <1>6, <1>8

(* Fewer holders make up fewer units.                                      *)
LEMMA UnitsFewer ==
    ASSUME NEW f, NEW g, NEW S, NEW T, T \subseteq S,
           \A y \in T : f[y].held = g[y].held, IsFiniteSet(Units(f, S))
    PROVE  /\ IsFiniteSet(Units(g, T))
           /\ Cardinality(Units(g, T)) <= Cardinality(Units(f, S))
<1>1. Units(f, T) \subseteq Units(f, S)
  BY DEF Units
<1>2. Units(f, T) = Units(g, T)
  BY UnitsSame
<1> QED
  BY <1>1, <1>2, FS_Subset


(* The sum over a set of holders, split at one of them.                    *)
LEMMA UnitsApart ==
    ASSUME NEW f, NEW P, NEW x, f[x].held \in Nat,
           IsFiniteSet(Units(f, P \ {x}))
    PROVE  /\ IsFiniteSet(Units(f, P))
           /\ Cardinality(Units(f, P)) =
                Cardinality(Units(f, P \ {x})) + (IF x \in P THEN f[x].held ELSE 0)
<1>1. CASE x \in P
  <2> DEFINE T == P \ {x}
  <2>1. x \notin T /\ T \cup {x} = P
    BY <1>1
  <2> HIDE DEF T
  <2>2. /\ IsFiniteSet(Units(f, T \cup {x}))
        /\ Cardinality(Units(f, T \cup {x})) = Cardinality(Units(f, T)) + f[x].held
    BY <2>1, UnitsMore DEF T
  <2> QED
    BY <1>1, <2>1, <2>2 DEF T
<1>2. CASE x \notin P
  <2>1. P \ {x} = P
    BY <1>2
  <2>2. Cardinality(Units(f, P)) \in Nat
    BY <2>1, FS_CardinalityType
  <2> QED
    BY <1>2, <2>1, <2>2
<1> QED
  BY <1>1, <1>2

-----------------------------------------------------------------------------
(* The two sums of Outstanding, as their maps change at one holder.        *)

\* What a reservation, and what a call under way, contributes.
Reserves(e, a, day) == IF Booked(e, a, day) THEN e.held ELSE 0
Settles(j, a, day)  == IF Pending(j, a, day) THEN j.held ELSE 0

LEMMA ReservedWith ==
    ASSUME NEW f, NEW x, x \notin DOMAIN f, NEW e, NEW a, NEW day,
           e.held \in Nat, IsFiniteSet(Reserved(f, a, day))
    PROVE  /\ IsFiniteSet(Reserved(With(f, x, e), a, day))
           /\ Cardinality(Reserved(With(f, x, e), a, day)) =
                Cardinality(Reserved(f, a, day)) + Reserves(e, a, day)
<1> DEFINE g == With(f, x, e)
           D == {r \in DOMAIN f : Booked(f[r], a, day)}
           Q == {r \in DOMAIN g : Booked(g[r], a, day)}
<1>1. /\ DOMAIN g = DOMAIN f \cup {x} /\ g[x] = e
      /\ \A r \in DOMAIN f : g[r] = f[r]
  BY DEF With
<1>2. Q \ {x} = D /\ (x \in Q <=> Booked(e, a, day))
  BY <1>1
<1>3. Units(g, D) = Reserved(f, a, day)
  <2>1. \A r \in D : f[r].held = g[r].held
    BY <1>1
  <2> QED
    BY <2>1, UnitsSame DEF Reserved
<1>4. Reserved(g, a, day) = Units(g, Q)
  BY DEF Reserved
<1> HIDE DEF g, D, Q
<1>5. IsFiniteSet(Units(g, Q \ {x})) /\ g[x].held \in Nat
  BY <1>1, <1>2, <1>3
<1>6. /\ IsFiniteSet(Units(g, Q))
      /\ Cardinality(Units(g, Q)) =
           Cardinality(Units(g, Q \ {x})) + (IF x \in Q THEN g[x].held ELSE 0)
  BY ONLY <1>5, UnitsApart
<1> QED
  BY <1>1, <1>2, <1>3, <1>4, <1>6 DEF Reserves, g

LEMMA ReservedWithout ==
    ASSUME NEW f, NEW x \in DOMAIN f, NEW a, NEW day,
           f[x].held \in Nat, IsFiniteSet(Reserved(f, a, day))
    PROVE  /\ IsFiniteSet(Reserved(Without(f, x), a, day))
           /\ Cardinality(Reserved(f, a, day)) =
                Cardinality(Reserved(Without(f, x), a, day)) + Reserves(f[x], a, day)
<1> DEFINE g == Without(f, x)
           D == {r \in DOMAIN f : Booked(f[r], a, day)}
           Q == {r \in DOMAIN g : Booked(g[r], a, day)}
<1>1. /\ DOMAIN g = DOMAIN f \ {x}
      /\ \A r \in DOMAIN g : g[r] = f[r]
  BY DEF Without
<1>2. D \ {x} = Q /\ (x \in D <=> Booked(f[x], a, day))
  BY <1>1
<1>3. Units(f, Q) = Reserved(g, a, day)
  <2>1. \A r \in Q : f[r].held = g[r].held
    BY <1>1
  <2> QED
    BY <2>1, UnitsSame DEF Reserved
<1>4. Reserved(f, a, day) = Units(f, D)
  BY DEF Reserved
<1>5. IsFiniteSet(Units(f, Q))
  <2>1. Q \subseteq D
    BY <1>2
  <2> QED
    BY <1>4, <2>1, UnitsFewer
<1> HIDE DEF g, D, Q
<1>6. /\ IsFiniteSet(Units(f, D))
      /\ Cardinality(Units(f, D)) =
           Cardinality(Units(f, D \ {x})) + (IF x \in D THEN f[x].held ELSE 0)
  <2>1. IsFiniteSet(Units(f, D \ {x}))
    BY <1>2, <1>5
  <2>2. f[x].held \in Nat
    OBVIOUS
  <2> QED
    BY ONLY <2>1, <2>2, UnitsApart
<1> QED
  BY <1>2, <1>3, <1>4, <1>5, <1>6 DEF Reserves, g

(* A call begins, ends or moves on: all other calls are as before.         *)
LEMMA ToSettleWith ==
    ASSUME NEW f, NEW x, x \notin DOMAIN f, NEW e, NEW a, NEW day,
           e.held \in Nat, IsFiniteSet(ToSettle(f, a, day))
    PROVE  /\ IsFiniteSet(ToSettle(With(f, x, e), a, day))
           /\ Cardinality(ToSettle(With(f, x, e), a, day)) =
                Cardinality(ToSettle(f, a, day)) + Settles(e, a, day)
<1> DEFINE g == With(f, x, e)
           D == {r \in DOMAIN f : Pending(f[r], a, day)}
           Q == {r \in DOMAIN g : Pending(g[r], a, day)}
<1>1. /\ DOMAIN g = DOMAIN f \cup {x} /\ g[x] = e
      /\ \A r \in DOMAIN f : g[r] = f[r]
  BY DEF With
<1>2. Q \ {x} = D /\ (x \in Q <=> Pending(e, a, day))
  BY <1>1
<1>3. Units(g, D) = ToSettle(f, a, day)
  <2>1. \A r \in D : f[r].held = g[r].held
    BY <1>1
  <2> QED
    BY <2>1, UnitsSame DEF ToSettle
<1>4. ToSettle(g, a, day) = Units(g, Q)
  BY DEF ToSettle
<1> HIDE DEF g, D, Q
<1>5. IsFiniteSet(Units(g, Q \ {x})) /\ g[x].held \in Nat
  BY <1>1, <1>2, <1>3
<1>6. /\ IsFiniteSet(Units(g, Q))
      /\ Cardinality(Units(g, Q)) =
           Cardinality(Units(g, Q \ {x})) + (IF x \in Q THEN g[x].held ELSE 0)
  BY ONLY <1>5, UnitsApart
<1> QED
  BY <1>1, <1>2, <1>3, <1>4, <1>6 DEF Settles, g

LEMMA ToSettleWithout ==
    ASSUME NEW f, NEW x \in DOMAIN f, NEW a, NEW day,
           f[x].held \in Nat, IsFiniteSet(ToSettle(f, a, day))
    PROVE  /\ IsFiniteSet(ToSettle(Without(f, x), a, day))
           /\ Cardinality(ToSettle(f, a, day)) =
                Cardinality(ToSettle(Without(f, x), a, day)) + Settles(f[x], a, day)
<1> DEFINE g == Without(f, x)
           D == {r \in DOMAIN f : Pending(f[r], a, day)}
           Q == {r \in DOMAIN g : Pending(g[r], a, day)}
<1>1. /\ DOMAIN g = DOMAIN f \ {x}
      /\ \A r \in DOMAIN g : g[r] = f[r]
  BY DEF Without
<1>2. D \ {x} = Q /\ (x \in D <=> Pending(f[x], a, day))
  BY <1>1
<1>3. Units(f, Q) = ToSettle(g, a, day)
  <2>1. \A r \in Q : f[r].held = g[r].held
    BY <1>1
  <2> QED
    BY <2>1, UnitsSame DEF ToSettle
<1>4. ToSettle(f, a, day) = Units(f, D)
  BY DEF ToSettle
<1>5. IsFiniteSet(Units(f, Q))
  <2>1. Q \subseteq D
    BY <1>2
  <2> QED
    BY <1>4, <2>1, UnitsFewer
<1> HIDE DEF g, D, Q
<1>6. /\ IsFiniteSet(Units(f, D))
      /\ Cardinality(Units(f, D)) =
           Cardinality(Units(f, D \ {x})) + (IF x \in D THEN f[x].held ELSE 0)
  <2>1. IsFiniteSet(Units(f, D \ {x}))
    BY <1>2, <1>5
  <2>2. f[x].held \in Nat
    OBVIOUS
  <2> QED
    BY ONLY <2>1, <2>2, UnitsApart
<1> QED
  BY <1>2, <1>3, <1>4, <1>5, <1>6 DEF Settles, g

LEMMA ToSettleChange ==
    ASSUME NEW f, NEW x \in DOMAIN f, NEW g, NEW a, NEW day,
           DOMAIN g = DOMAIN f, \A y \in DOMAIN f \ {x} : g[y] = f[y],
           f = [y \in DOMAIN f |-> f[y]], g = [y \in DOMAIN g |-> g[y]],
           f[x].held \in Nat, g[x].held \in Nat,
           IsFiniteSet(ToSettle(f, a, day))
    PROVE  /\ IsFiniteSet(ToSettle(g, a, day))
           /\ Cardinality(ToSettle(f, a, day)) + Settles(g[x], a, day) =
                Cardinality(ToSettle(g, a, day)) + Settles(f[x], a, day)
<1> DEFINE h == Without(f, x)
<1>1. h = Without(g, x)
  BY DEF Without
<1>2. /\ IsFiniteSet(ToSettle(h, a, day))
      /\ Cardinality(ToSettle(f, a, day)) =
           Cardinality(ToSettle(h, a, day)) + Settles(f[x], a, day)
  BY ToSettleWithout
<1>3. x \notin DOMAIN h /\ g = With(h, x, g[x])
  BY DEF Without, With
<1>4. Settles(g[x], a, day) \in Nat /\ Settles(f[x], a, day) \in Nat
  BY DEF Settles
<1> HIDE DEF h
<1>5. /\ IsFiniteSet(ToSettle(g, a, day))
      /\ Cardinality(ToSettle(g, a, day)) =
           Cardinality(ToSettle(h, a, day)) + Settles(g[x], a, day)
  BY <1>2, <1>3, ToSettleWith
<1>6. Cardinality(ToSettle(h, a, day)) \in Nat
  BY <1>2, FS_CardinalityType
<1> QED
  BY <1>2, <1>4, <1>5, <1>6


-----------------------------------------------------------------------------
(* Operators of the model.                                                 *)

LEMMA MapWithout ==
    ASSUME NEW S, NEW f, f \in [DOMAIN f -> S], NEW x
    PROVE  /\ Without(f, x) \in [DOMAIN Without(f, x) -> S]
           /\ DOMAIN Without(f, x) = DOMAIN f \ {x}
           /\ \A y \in DOMAIN f \ {x} : Without(f, x)[y] = f[y]
BY DEF Without

LEMMA AddAt ==
    ASSUME NEW book, NEW some, NEW n, NEW a \in Accounts
    PROVE  Add(book, some, n)[a] = IF a \in some THEN book[a] + n ELSE book[a]
BY DEF Add

LEMMA AddType ==
    ASSUME NEW some, NEW n \in Int
    PROVE  /\ \A book \in [Accounts -> Int] : Add(book, some, n) \in [Accounts -> Int]
           /\ n \in Nat => \A book \in [Accounts -> Nat] :
                              Add(book, some, n) \in [Accounts -> Nat]
<1>1. ASSUME NEW book \in [Accounts -> Int] PROVE Add(book, some, n) \in [Accounts -> Int]
  BY DEF Add
<1>2. ASSUME n \in Nat, NEW book \in [Accounts -> Nat]
      PROVE  Add(book, some, n) \in [Accounts -> Nat]
  BY <1>2 DEF Add
<1> QED
  BY <1>1, <1>2

LEMMA FloorType ==
    ASSUME NEW n \in Int
    PROVE  FloorAtZero(n) \in Nat /\ n <= FloorAtZero(n)
BY DEF FloorAtZero

LEMMA BumpType ==
    ASSUME NEW spent \in [Accounts -> Nat], NEW who, NEW n \in Int
    PROVE  Bump(spent, who, n) \in [Accounts -> Nat]
BY DEF Bump, FloorAtZero

LEMMA LoadType ==
    ASSUME TypeOK, NEW day
    PROVE  Load(day) \in [Accounts -> Nat]
BY DEF TypeOK, Ledger, Load, Empty

LEMMA CallParts ==
    ASSUME TypeOK, NEW w \in DOMAIN job
    PROVE  /\ w \in Workers /\ job[w] \in Job
           /\ job[w].call \in {"reserve", "settle"}
           /\ job[w].at \in {"redis", "redis key", "load", "save"}
           /\ job[w].rid \in Rids /\ job[w].who \in Accounts
           /\ job[w].held \in Nat /\ job[w].used \in Nat /\ job[w].day \in Nat
           /\ job[w].applied \subseteq Accounts
           /\ job[w].draft \in Ledger /\ job[w].draft.day \in Nat
           /\ job[w].draft.spent \in [Accounts -> Nat]
<1>1. w \in Workers /\ job[w] \in Job
  BY DEF TypeOK
<1> QED
  BY <1>1 DEF Job, Ledger

LEMMA ReservationParts ==
    ASSUME TypeOK, NEW r \in DOMAIN reservations
    PROVE  /\ r \in issued /\ reservations[r].worker \in Workers
           /\ reservations[r].who \in Accounts
           /\ reservations[r].held \in Nat /\ reservations[r].day \in Nat
BY DEF TypeOK, Reservation

LEMMA BooksType ==
    ASSUME NEW who \in Accounts
    PROVE  Books(who) \subseteq Accounts
BY DEF Books, Accounts


-----------------------------------------------------------------------------
(* Type correctness.                                                       *)

JobsOK ==
    /\ DOMAIN job \subseteq Workers
    /\ job \in [DOMAIN job -> Job]
    /\ \A w \in DOMAIN job : job[w].at = "redis key" => job[w].who \in Keys

HeldOK ==
    /\ DOMAIN reservations \subseteq issued /\ issued \subseteq Rids
    /\ reservations \in [DOMAIN reservations -> Reservation]

WorldOK ==
    /\ today \in 1 .. MaxDay /\ redisUp \in BOOLEAN
    /\ health \in [Workers -> {"unknown", "up", "down"}]

BooksOK ==
    /\ redis \in [1 .. MaxDay -> [Accounts -> Int]]
    /\ file \in Ledger
    /\ charged \in [Accounts -> Nat] /\ over \in [Accounts -> Nat]
    /\ stray \in [Accounts -> Nat]

LEMMA TypeParts == TypeOK <=> JobsOK /\ HeldOK /\ WorldOK /\ BooksOK
BY DEF TypeOK, JobsOK, HeldOK, WorldOK, BooksOK

LEMMA TypePartsNext == JobsOK' /\ HeldOK' /\ WorldOK' /\ BooksOK' => TypeOK'
BY DEF TypeOK, JobsOK, HeldOK, WorldOK, BooksOK

LEMMA TodayType == TypeOK => today \in 1 .. MaxDay /\ today \in Nat
<1>1. TypeOK => today \in 1 .. MaxDay
  BY DEF TypeOK
<1>2. MaxDay \in Nat
  BY SharedAssumption
<1> QED
  BY <1>1, <1>2

LEMMA EmptyMap ==
    ASSUME NEW S
    PROVE  DOMAIN <<>> = {} /\ <<>> \in [DOMAIN <<>> -> S]
OBVIOUS

\* All calls but the one of w are as they were.
OthersKept(w) == \A v \in DOMAIN job \ {w} : v \in DOMAIN job' /\ job'[v] = job[v]

\* The same call, further on.
SameCall(j, k) == /\ j.call = k.call /\ j.rid = k.rid /\ j.who = k.who
                  /\ j.held = k.held /\ j.used = k.used /\ j.day = k.day

LEMMA CallBegins ==
    ASSUME TypeOK, NEW w \in Workers, NEW j \in Job, j.at # "redis key",
           job' = With(job, w, j)
    PROVE  /\ JobsOK' /\ DOMAIN job' = DOMAIN job \cup {w} /\ job'[w] = j
           /\ OthersKept(w)
<1>1. job \in [DOMAIN job -> Job]
  BY DEF TypeOK
<1>2. /\ job' \in [DOMAIN job' -> Job]
      /\ DOMAIN job' = DOMAIN job \cup {w} /\ job'[w] = j
      /\ \A y \in DOMAIN job \ {w} : job'[y] = job[y]
  BY <1>1 DEF With
<1> QED
  BY <1>2 DEF TypeOK, JobsOK, OthersKept

LEMMA CallEnds ==
    ASSUME TypeOK, NEW w, job' = Without(job, w)
    PROVE  /\ JobsOK' /\ DOMAIN job' = DOMAIN job \ {w} /\ OthersKept(w)
           /\ \A v \in DOMAIN job' : job'[v] = job[v]
<1>1. job \in [DOMAIN job -> Job]
  BY DEF TypeOK
<1>2. /\ job' \in [DOMAIN job' -> Job]
      /\ DOMAIN job' = DOMAIN job \ {w}
      /\ \A y \in DOMAIN job \ {w} : job'[y] = job[y]
  BY <1>1, MapWithout
<1> QED
  BY <1>2 DEF TypeOK, JobsOK, OthersKept

LEMMA CallMoves ==
    ASSUME TypeOK, NEW w \in DOMAIN job, NEW j \in Job,
           j.at = "redis key" => j.who \in Keys,
           job' = [job EXCEPT ![w] = j]
    PROVE  /\ JobsOK' /\ DOMAIN job' = DOMAIN job /\ job'[w] = j
           /\ OthersKept(w)
BY DEF TypeOK, JobsOK, OthersKept

\* An exception on Redis, and a reserve call whose reply was lost.
LEMMA FallsBack ==
    ASSUME TypeOK, NEW w \in DOMAIN job, Fallback(w)
    PROVE  /\ JobsOK' /\ DOMAIN job' = DOMAIN job /\ OthersKept(w)
           /\ SameCall(job'[w], job[w]) /\ job'[w].at = "load"
           /\ job'[w].applied = job[w].applied
<1> DEFINE j == [job[w] EXCEPT !.at = "load"]
<1>1. j \in Job
  BY CallParts DEF Job
<1>2. /\ j.at = "load" /\ j.applied = job[w].applied /\ SameCall(j, job[w])
  BY CallParts DEF Job, SameCall
<1>3. job' = [job EXCEPT ![w] = j]
  BY DEF Fallback
<1> HIDE DEF j
<1> QED
  BY <1>1, <1>2, <1>3, CallMoves

\* A pipeline has been carried out, with or without its reply.
LEMMA MovesOn ==
    ASSUME TypeOK, NEW w \in DOMAIN job, NEW some \in SUBSET Accounts,
           NEW to \in {"redis key", "load"},
           to = "redis key" => job[w].who \in Keys,
           job' = [job EXCEPT ![w].at = to, ![w].applied = @ \cup some]
    PROVE  /\ JobsOK' /\ DOMAIN job' = DOMAIN job /\ OthersKept(w)
           /\ SameCall(job'[w], job[w]) /\ job'[w].at = to
           /\ job'[w].applied = job[w].applied \cup some
<1> DEFINE j == [job[w] EXCEPT !.at = to, !.applied = @ \cup some]
<1>1. j \in Job
  BY CallParts DEF Job
<1>2. /\ j.at = to /\ j.applied = job[w].applied \cup some /\ SameCall(j, job[w])
  BY CallParts DEF Job, SameCall
<1>3. job' = [job EXCEPT ![w] = j]
  BY DEF TypeOK
<1> HIDE DEF j
<1>4. j.at = "redis key" => j.who \in Keys
  BY <1>2 DEF SameCall
<1> QED
  BY <1>1, <1>2, <1>3, <1>4, CallMoves

\* The file has been loaded and, for an estimate, the caps checked.
LEMMA Drafts ==
    ASSUME TypeOK, NEW w \in DOMAIN job, NEW draft \in Ledger,
           job' = [job EXCEPT ![w].at = "save", ![w].draft = draft]
    PROVE  /\ JobsOK' /\ DOMAIN job' = DOMAIN job /\ OthersKept(w)
           /\ SameCall(job'[w], job[w]) /\ job'[w].at = "save"
           /\ job'[w].applied = job[w].applied /\ job'[w].draft = draft
<1> DEFINE j == [job[w] EXCEPT !.at = "save", !.draft = draft]
<1>1. j \in Job
  BY CallParts DEF Job
<1>2. /\ j.at = "save" /\ j.applied = job[w].applied /\ j.draft = draft
      /\ SameCall(j, job[w])
  BY CallParts DEF Job, SameCall
<1>3. job' = [job EXCEPT ![w] = j]
  BY DEF TypeOK
<1> HIDE DEF j
<1> QED
  BY <1>1, <1>2, <1>3, CallMoves


-----------------------------------------------------------------------------
(* The numbers of one account.                                             *)

RSum(a) == Cardinality(Reserved(reservations, a, today))
SSum(a) == Cardinality(ToSettle(job, a, today))

FiniteR(a) == IsFiniteSet(Reserved(reservations, a, today))
FiniteS(a) == IsFiniteSet(ToSettle(job, a, today))

LEMMA Sums ==
    ASSUME NEW a
    PROVE  /\ Outstanding(a) = RSum(a) + SSum(a)
           /\ Owed(a) = charged[a] + (RSum(a) + SSum(a))
           /\ Finite(a) <=> FiniteR(a) /\ FiniteS(a)
           /\ FiniteR(a) => RSum(a) \in Nat
           /\ FiniteS(a) => SSum(a) \in Nat
BY FS_CardinalityType
   DEF Outstanding, Owed, RSum, SSum, Finite, FiniteR, FiniteS

LEMMA Numbers ==
    ASSUME IInv, NEW a \in Accounts
    PROVE  /\ today \in 1 .. MaxDay /\ redis[today] \in [Accounts -> Int]
           /\ redis[today][a] \in Int /\ Load(today)[a] \in Nat
           /\ charged[a] \in Nat /\ over[a] \in Nat /\ stray[a] \in Nat
           /\ Cap[a] \in Int /\ RSum(a) \in Nat /\ SSum(a) \in Nat
           /\ FiniteR(a) /\ FiniteS(a) /\ Owed(a) \in Nat /\ Total(a) \in Int
           /\ Covered(a) /\ Within(a)
<1>1. TypeOK /\ Finite(a) /\ Covered(a) /\ Within(a)
  BY DEF IInv, Counted
<1>2. /\ FiniteR(a) /\ FiniteS(a) /\ RSum(a) \in Nat /\ SSum(a) \in Nat
  BY <1>1, Sums
<1>3. /\ today \in 1 .. MaxDay /\ redis[today] \in [Accounts -> Int]
      /\ charged[a] \in Nat /\ over[a] \in Nat /\ stray[a] \in Nat
  BY <1>1 DEF TypeOK
<1>4. redis[today][a] \in Int /\ Load(today)[a] \in Nat /\ Cap[a] \in Int
  BY <1>1, <1>3, LoadType, SharedAssumption
<1>5. Owed(a) \in Nat
  BY <1>2, <1>3, Sums
<1>6. Total(a) \in Int
  BY <1>4 DEF Total
<1> QED
  BY <1>1, <1>2, <1>3, <1>4, <1>5, <1>6

\* What a call holds on an account.
LEMMA ShareType ==
    ASSUME TypeOK, NEW a, NEW day
    PROVE  /\ \A w \in DOMAIN job : Settles(job[w], a, day) \in Nat
           /\ \A r \in DOMAIN reservations : Reserves(reservations[r], a, day) \in Nat
BY CallParts, ReservationParts DEF Settles, Reserves

(* How the two sums follow the maps.                                       *)
LEMMA SumBegins ==
    ASSUME IInv, NEW a \in Accounts, NEW w, w \notin DOMAIN job, NEW j,
           j.held \in Nat, job' = With(job, w, j), today' = today
    PROVE  FiniteS(a)' /\ SSum(a)' = SSum(a) + Settles(j, a, today)
<1>1. IsFiniteSet(ToSettle(job, a, today))
  BY Numbers DEF FiniteS
<1>2. /\ IsFiniteSet(ToSettle(With(job, w, j), a, today))
      /\ Cardinality(ToSettle(With(job, w, j), a, today)) =
           Cardinality(ToSettle(job, a, today)) + Settles(j, a, today)
  BY <1>1, ToSettleWith
<1> QED
  BY <1>2 DEF FiniteS, SSum

LEMMA SumEnds ==
    ASSUME IInv, NEW a \in Accounts, NEW w \in DOMAIN job,
           job' = Without(job, w), today' = today
    PROVE  FiniteS(a)' /\ SSum(a) = SSum(a)' + Settles(job[w], a, today)
<1>1. IsFiniteSet(ToSettle(job, a, today)) /\ job[w].held \in Nat
  BY Numbers, CallParts DEF FiniteS, IInv
<1>2. /\ IsFiniteSet(ToSettle(Without(job, w), a, today))
      /\ Cardinality(ToSettle(job, a, today)) =
           Cardinality(ToSettle(Without(job, w), a, today)) + Settles(job[w], a, today)
  BY <1>1, ToSettleWithout
<1> QED
  BY <1>2 DEF FiniteS, SSum

LEMMA SumMoves ==
    ASSUME IInv, NEW a \in Accounts, NEW w \in DOMAIN job, JobsOK',
           DOMAIN job' = DOMAIN job, OthersKept(w),
           SameCall(job'[w], job[w]), today' = today
    PROVE  /\ FiniteS(a)'
           /\ SSum(a) + Settles(job'[w], a, today) = SSum(a)' + Settles(job[w], a, today)
<1>1. IsFiniteSet(ToSettle(job, a, today)) /\ job[w].held \in Nat
  BY Numbers, CallParts DEF FiniteS, IInv
<1>2. /\ job = [v \in DOMAIN job |-> job[v]]
      /\ job' = [v \in DOMAIN job' |-> job'[v]]
  BY DEF IInv, TypeOK, JobsOK
<1>3. job'[w].held \in Nat
  BY <1>1 DEF SameCall
<1>4. \A v \in DOMAIN job \ {w} : job'[v] = job[v]
  BY DEF OthersKept
<1>5. /\ IsFiniteSet(ToSettle(job', a, today))
      /\ Cardinality(ToSettle(job, a, today)) + Settles(job'[w], a, today) =
           Cardinality(ToSettle(job', a, today)) + Settles(job[w], a, today)
  BY <1>1, <1>2, <1>3, <1>4, ToSettleChange
<1> QED
  BY <1>5 DEF FiniteS, SSum

LEMMA SumStored ==
    ASSUME IInv, NEW a \in Accounts, NEW r, r \notin DOMAIN reservations, NEW e,
           e.held \in Nat, reservations' = With(reservations, r, e), today' = today
    PROVE  FiniteR(a)' /\ RSum(a)' = RSum(a) + Reserves(e, a, today)
<1>1. IsFiniteSet(Reserved(reservations, a, today))
  BY Numbers DEF FiniteR
<1>2. /\ IsFiniteSet(Reserved(With(reservations, r, e), a, today))
      /\ Cardinality(Reserved(With(reservations, r, e), a, today)) =
           Cardinality(Reserved(reservations, a, today)) + Reserves(e, a, today)
  BY <1>1, ReservedWith
<1> QED
  BY <1>2 DEF FiniteR, RSum

LEMMA SumPopped ==
    ASSUME IInv, NEW a \in Accounts, NEW r \in DOMAIN reservations,
           reservations' = Without(reservations, r), today' = today
    PROVE  FiniteR(a)' /\ RSum(a) = RSum(a)' + Reserves(reservations[r], a, today)
<1>1. IsFiniteSet(Reserved(reservations, a, today)) /\ reservations[r].held \in Nat
  BY Numbers, ReservationParts DEF FiniteR, IInv
<1>2. /\ IsFiniteSet(Reserved(Without(reservations, r), a, today))
      /\ Cardinality(Reserved(reservations, a, today)) =
           Cardinality(Reserved(Without(reservations, r), a, today))
             + Reserves(reservations[r], a, today)
  BY <1>1, ReservedWithout
<1> QED
  BY <1>2 DEF FiniteR, RSum

LEMMA SumKept ==
    ASSUME IInv, NEW a \in Accounts, today' = today
    PROVE  /\ reservations' = reservations => FiniteR(a)' /\ RSum(a)' = RSum(a)
           /\ job' = job => FiniteS(a)' /\ SSum(a)' = SSum(a)
BY Numbers DEF FiniteR, FiniteS, RSum, SSum


-----------------------------------------------------------------------------
(* What steps have in common.                                              *)

\* Every draft about to be saved is an old one, or what the file says now.
SavesKept ==
    \A v \in DOMAIN job' : job'[v].at = "save" =>
       \/ v \in DOMAIN job /\ job[v].at = "save" /\ job'[v].draft = job[v].draft
       \/ job'[v].draft.spent = Load(today)

(* Where the file stays, the caps hold if Redis does not rise above a cap  *)
(* by more than is noted in over.                                          *)
LEMMA WithinKept ==
    ASSUME IInv, NEW a \in Accounts, SavesKept, today' = today, file' = file,
           redis'[today][a] \in Int, over'[a] \in Nat,
           Cap[a] > NoCap =>
             Excess(a, redis'[today][a]) + over[a] <= Excess(a, redis[today][a]) + over'[a]
    PROVE  Within(a)'
<1> SUFFICES ASSUME Cap[a] > NoCap
             PROVE  /\ Excess(a, redis'[today][a]) + Excess(a, Load(today)[a]) <= over'[a]
                    /\ \A v \in DOMAIN job' :
                          job'[v].at = "save" /\ job'[v].draft.day = today =>
                            Excess(a, redis'[today][a]) + Excess(a, job'[v].draft.spent[a])
                              <= over'[a]
  BY DEF Within, Load, Excess
<1> DEFINE X(n) == Excess(a, n)
<1>1. \A n \in Int : X(n) \in Nat
  BY Numbers, FloorType DEF Excess
<1>2. /\ X(redis[today][a]) \in Nat /\ X(redis'[today][a]) \in Nat
      /\ X(Load(today)[a]) \in Nat /\ over[a] \in Nat
  BY <1>1, Numbers
<1>3. /\ X(redis[today][a]) + X(Load(today)[a]) <= over[a]
      /\ \A v \in DOMAIN job : job[v].at = "save" /\ job[v].draft.day = today =>
            X(redis[today][a]) + X(job[v].draft.spent[a]) <= over[a]
  BY Numbers DEF Within
<1>4. X(redis'[today][a]) + over[a] <= X(redis[today][a]) + over'[a]
  OBVIOUS
<1>5. \A v \in DOMAIN job : X(job[v].draft.spent[a]) \in Nat
  <2>1. ASSUME NEW v \in DOMAIN job PROVE job[v].draft.spent[a] \in Int
    <3>1. job[v].draft.spent \in [Accounts -> Nat]
      BY CallParts DEF IInv
    <3> QED
      BY <3>1
  <2> QED
    BY <1>1, <2>1
<1> HIDE DEF X
<1>6. X(redis'[today][a]) + X(Load(today)[a]) <= over'[a]
  BY <1>2, <1>3, <1>4
<1>7. ASSUME NEW v \in DOMAIN job', job'[v].at = "save", job'[v].draft.day = today
      PROVE  X(redis'[today][a]) + X(job'[v].draft.spent[a]) <= over'[a]
  <2>1. CASE job'[v].draft.spent = Load(today)
    BY <1>6, <2>1
  <2>2. CASE v \in DOMAIN job /\ job[v].at = "save" /\ job'[v].draft = job[v].draft
    <3>1. X(redis[today][a]) + X(job'[v].draft.spent[a]) <= over[a]
      BY <1>3, <1>7, <2>2
    <3>2. X(job'[v].draft.spent[a]) \in Nat
      BY <1>5, <2>2
    <3> QED
      BY <1>2, <1>4, <3>1, <3>2
  <2> QED
    BY <1>7, <2>1, <2>2 DEF SavesKept
<1> QED
  BY <1>6, <1>7 DEF X

(* A step that leaves the books alone.                                     *)
LEMMA BooksKept ==
    ASSUME IInv, SavesKept,
           UNCHANGED <<today, redis, file, charged, over, stray>>,
           \A a \in Accounts : /\ FiniteR(a)' /\ FiniteS(a)'
                               /\ RSum(a)' + SSum(a)' = RSum(a) + SSum(a)
    PROVE  BooksOK' /\ Counted' /\ \A a \in Accounts : Owed(a)' = Owed(a)
<1>1. ASSUME NEW a \in Accounts PROVE Owed(a)' = Owed(a)
  <2>1. Owed(a)' = charged[a] + (RSum(a)' + SSum(a)')
    <3>1. charged' = charged
      OBVIOUS
    <3> QED
      BY <3>1, FS_CardinalityType DEF Owed, Outstanding, RSum, SSum
  <2> QED
    BY <2>1, Sums
<1>2. ASSUME NEW a \in Accounts PROVE (Finite(a) /\ Covered(a) /\ Within(a))'
  <2>1. Finite(a)'
    BY DEF Finite, FiniteR, FiniteS
  <2>2. Covered(a)'
    <3>1. Total(a)' = Total(a) /\ stray' = stray
      BY DEF Total, Load
    <3> QED
      BY <1>1, <3>1, Numbers DEF Covered
  <2>3. Within(a)'
    <3>1. redis'[today][a] = redis[today][a] /\ over'[a] = over[a] /\ file' = file
      OBVIOUS
    <3>2. Excess(a, redis[today][a]) \in Nat
      BY Numbers, FloorType DEF Excess
    <3>3. redis'[today][a] \in Int /\ over'[a] \in Nat
      BY <3>1, Numbers
    <3>4. Excess(a, redis'[today][a]) + over[a] <= Excess(a, redis[today][a]) + over'[a]
      BY <3>1, <3>2, Numbers
    <3> QED
      BY <3>1, <3>3, <3>4, WithinKept
  <2> QED
    BY <2>1, <2>2, <2>3
<1>3. BooksOK'
  BY TypeParts DEF IInv, BooksOK
<1> QED
  BY <1>1, <1>2, <1>3 DEF Counted

(* RedisHealth: what is remembered as down stays so.                       *)
LEMMA Probing ==
    ASSUME TypeOK, NEW w \in Workers,
           health' = [health EXCEPT ![w] = Probed(w)]
    PROVE  /\ health' \in [Workers -> {"unknown", "up", "down"}]
           /\ \A v \in Workers : health[v] = "down" => health'[v] = "down"
           /\ health'[w] # "down" /\ (~redisUp => health[w] = "unknown") =>
                 redisUp /\ Entry(w) = "redis"
BY DEF TypeOK, Probed, Entry

(* Nothing becomes still again.                                            *)
LEMMA StillBefore ==
    ASSUME Still', today' = today, outages' = outages, faults' = faults,
           \A v \in Workers : health[v] = "down" => health'[v] = "down"
    PROVE  Still
BY DEF Still

LEMMA FaultEndsStill ==
    ASSUME IInv, Fault
    PROVE  ~Still' /\ faults' \in Nat
BY DEF IInv, Dated, Fault, Still


-----------------------------------------------------------------------------
(* Beginning a call.                                                       *)

LEMMA Begins ==
    ASSUME IInv, NEW w \in Workers, Idle(w), NEW j \in Job,
           j.at = Entry(w), j.applied = {}, j.day <= today,
           j.call = "reserve" =>
             /\ j.rid \in issued' /\ j.rid \notin DOMAIN reservations'
             /\ \A v \in DOMAIN job : job[v].call = "reserve" => job[v].rid # j.rid,
           health' = [health EXCEPT ![w] = Probed(w)], job' = With(job, w, j),
           issued \subseteq issued', DOMAIN reservations' \subseteq DOMAIN reservations,
           today' = today, redisUp' = redisUp, outages' = outages, faults' = faults
    PROVE  /\ JobsOK' /\ WorldOK' /\ SavesKept /\ Progress'
           /\ \A v \in DOMAIN job' : /\ job'[v].day <= today
                                     /\ job'[v].at = "save" => job'[v].draft.day <= today
           /\ Still' => /\ Still /\ redisUp
                        /\ \A v \in DOMAIN job' : v = w \/ (v \in DOMAIN job /\ job'[v] = job[v])
                        /\ job'[w].at = "redis"
<1>1. j.at \in {"redis", "load"}
  BY DEF Entry
<1>2. /\ JobsOK' /\ DOMAIN job' = DOMAIN job \cup {w} /\ job'[w] = j
      /\ \A v \in DOMAIN job : v # w /\ job'[v] = job[v]
  <2>1. TypeOK /\ j.at # "redis key" /\ w \notin DOMAIN job
    BY <1>1 DEF IInv, Idle
  <2> QED
    BY <2>1, CallBegins DEF OthersKept
<1>3. SavesKept
  BY <1>1, <1>2 DEF SavesKept
<1>4. Progress'
  <2>1. Progress
    BY DEF IInv
  <2>2. ASSUME NEW v \in DOMAIN job'
        PROVE  LET k == job'[v] IN
               /\ k.at = "redis" => k.applied = {}
               /\ k.at = "redis key" => k.call = "settle" /\ k.applied = {Global}
               /\ k.call = "reserve" =>
                     /\ k.rid \in issued' /\ k.rid \notin DOMAIN reservations'
                     /\ k.at = "save" => CapsAllow(k.draft.spent, k.who, k.held)
    <3>1. CASE v = w
      BY <1>1, <1>2, <3>1
    <3>2. CASE v # w
      <4>1. v \in DOMAIN job /\ job'[v] = job[v]
        BY <1>2, <3>2
      <4> QED
        BY <2>1, <4>1 DEF Progress
    <3> QED
      BY <3>1, <3>2
  <2>3. ASSUME NEW u \in DOMAIN job', NEW v \in DOMAIN job', u # v,
               job'[u].call = "reserve", job'[v].call = "reserve"
        PROVE  job'[u].rid # job'[v].rid
    <3>1. CASE u = w
      BY <1>2, <2>3, <3>1
    <3>2. CASE v = w
      BY <1>2, <2>3, <3>2
    <3>3. CASE u # w /\ v # w
      <4>1. /\ u \in DOMAIN job /\ job'[u] = job[u]
            /\ v \in DOMAIN job /\ job'[v] = job[v]
        BY <1>2, <3>3
      <4> QED
        BY <2>1, <2>3, <4>1 DEF Progress
    <3> QED
      BY <3>1, <3>2, <3>3
  <2> QED
    BY <2>2, <2>3 DEF Progress
<1>5. ASSUME NEW v \in DOMAIN job'
      PROVE  /\ job'[v].day <= today
             /\ job'[v].at = "save" => job'[v].draft.day <= today
  <2>1. CASE v = w
    BY <1>1, <1>2, <2>1
  <2>2. CASE v # w
    BY <1>2, <2>2 DEF IInv, Dated
  <2> QED
    BY <2>1, <2>2
<1>6. TypeOK
  BY DEF IInv
<1>7. /\ health' \in [Workers -> {"unknown", "up", "down"}]
      /\ \A v \in Workers : health[v] = "down" => health'[v] = "down"
      /\ health'[w] # "down" /\ (~redisUp => health[w] = "unknown") =>
            redisUp /\ Entry(w) = "redis"
  BY <1>6, Probing
<1>8. WorldOK'
  BY <1>6, <1>7 DEF TypeOK, WorldOK
<1>9. ASSUME Still' PROVE Still /\ redisUp /\ job'[w].at = "redis"
  <2>1. Still
    BY <1>7, <1>9, StillBefore
  <2>2. OnRedisOnly
    BY <2>1 DEF IInv, Quiet
  <2>3. health'[w] # "down" /\ (~redisUp => health[w] = "unknown")
    BY <1>9, <2>2 DEF Still, OnRedisOnly
  <2> QED
    BY <1>2, <1>7, <2>1, <2>3
<1>10. ASSUME NEW v \in DOMAIN job'
       PROVE  v = w \/ (v \in DOMAIN job /\ job'[v] = job[v])
  <2>1. v \in DOMAIN job \/ v = w
    BY <1>2
  <2> QED
    BY <1>2, <2>1
<1> QED
  BY <1>2, <1>3, <1>4, <1>5, <1>8, <1>9, <1>10

(* A call that waits for its first access to a ledger changes no books.    *)
LEMMA StepStartReserve ==
    ASSUME IInv, NEW w \in Workers, NEW r \in Rids, NEW q \in Requests,
           StartReserve(w, r, q)
    PROVE  IInv'
<1> DEFINE j == [call |-> "reserve", at |-> Entry(w), rid |-> r,
                 who |-> q.who, held |-> q.charge, used |-> 0,
                 day |-> today, applied |-> {}, draft |-> NoDraft]
<1>1. TypeOK /\ today \in Nat
  BY TodayType DEF IInv
<1>2. j \in Job
  <2>1. q.who \in Accounts /\ q.charge \in Nat
    BY SharedAssumption DEF Request
  <2>2. NoDraft \in Ledger
    BY DEF NoDraft, Empty, Ledger
  <2> QED
    BY <1>1, <2>1, <2>2 DEF Job, Entry
<1>3. /\ j.at = Entry(w) /\ j.applied = {} /\ j.day = today /\ j.rid = r
      /\ j.call = "reserve" /\ j.held \in Nat
  BY <1>2 DEF Job
<1>4. /\ Idle(w) /\ r \notin issued /\ issued' = issued \cup {r}
      /\ health' = [health EXCEPT ![w] = Probed(w)] /\ job' = With(job, w, j)
      /\ UNCHANGED <<today, redisUp, redis, file, reservations, outages, faults>>
      /\ UNCHANGED <<charged, over, stray>>
  BY DEF StartReserve, bookkeeping
<1> HIDE DEF j
<1>5. r \notin DOMAIN reservations
  BY <1>1, <1>4 DEF TypeOK
<1>6. \A v \in DOMAIN job : job[v].call = "reserve" => job[v].rid # j.rid
  BY <1>3, <1>4 DEF IInv, Progress
<1>7. /\ JobsOK' /\ WorldOK' /\ SavesKept /\ Progress'
      /\ \A v \in DOMAIN job' : /\ job'[v].day <= today
                                /\ job'[v].at = "save" => job'[v].draft.day <= today
      /\ Still' => /\ Still /\ redisUp
                   /\ \A v \in DOMAIN job' : v = w \/ (v \in DOMAIN job /\ job'[v] = job[v])
                   /\ job'[w].at = "redis"
  <2>1. j.day <= today
    BY <1>1, <1>3
  <2> QED
    BY <1>2, <1>3, <1>4, <1>5, <1>6, <2>1, Begins
<1>8. job'[w] = j
  BY <1>4 DEF With
<1>9. HeldOK'
  BY <1>1, <1>4, TypeParts DEF HeldOK
<1>10. BooksOK' /\ Counted' /\ \A a \in Accounts : Owed(a)' = Owed(a)
  <2>1. ASSUME NEW a \in Accounts
        PROVE  /\ FiniteR(a)' /\ FiniteS(a)'
               /\ RSum(a)' + SSum(a)' = RSum(a) + SSum(a)
    <3>1. Settles(j, a, today) = 0
      BY <1>3 DEF Settles, Pending
    <3>2. FiniteS(a)' /\ SSum(a)' = SSum(a) + Settles(j, a, today)
      BY <1>3, <1>4, SumBegins DEF Idle
    <3>3. FiniteR(a)' /\ RSum(a)' = RSum(a)
      BY <1>4, SumKept
    <3> QED
      BY <3>1, <3>2, <3>3, Numbers
  <2> QED
    BY <1>4, <1>7, <2>1, BooksKept
<1>11. Dated'
  BY <1>4, <1>7 DEF IInv, Dated
<1>12. Quiet'
  <2> SUFFICES ASSUME Still' PROVE OnRedisOnly' /\ Exact'
    BY DEF Quiet
  <2>1. Still /\ redisUp /\ OnRedisOnly /\ Exact
    BY <1>7 DEF IInv, Quiet
  <2>2. today = 1
    BY <2>1 DEF Still
  <2>3. OnRedisOnly'
    <3>1. \A v \in DOMAIN job' : /\ job'[v].at \in {"redis", "redis key"}
                                 /\ job'[v].day = 1
      <4>1. job'[w].at = "redis" /\ job'[w].day = 1
        BY <1>3, <1>7, <1>8, <2>2
      <4>2. \A v \in DOMAIN job' : v = w \/ (v \in DOMAIN job /\ job'[v] = job[v])
        BY <1>7
      <4> QED
        BY <2>1, <4>1, <4>2 DEF OnRedisOnly
    <3> QED
      BY <1>4, <2>1, <3>1 DEF OnRedisOnly
  <2>4. Exact'
    BY <1>4, <1>10, <2>1 DEF Exact
  <2> QED
    BY <2>3, <2>4
<1> QED
  BY <1>7, <1>9, <1>10, <1>11, <1>12, TypePartsNext DEF IInv


LEMMA StepStartBill ==
    ASSUME IInv, NEW w \in Workers, NEW r \in Rids, NEW who \in Accounts,
           NEW used \in Uses, StartBill(w, r, who, used)
    PROVE  IInv'
<1> DEFINE j == [call |-> "settle", at |-> Entry(w), rid |-> r,
                 who |-> who, held |-> 0, used |-> used, day |-> today,
                 applied |-> {}, draft |-> NoDraft]
<1>1. TypeOK /\ today \in Nat
  BY TodayType DEF IInv
<1>2. j \in Job
  <2>1. used \in Nat
    BY SharedAssumption
  <2>2. NoDraft \in Ledger
    BY DEF NoDraft, Empty, Ledger
  <2> QED
    BY <1>1, <2>1, <2>2 DEF Job, Entry
<1>3. /\ j.at = Entry(w) /\ j.applied = {} /\ j.day = today
      /\ j.call = "settle" /\ j.held = 0
  OBVIOUS
<1>4. /\ Idle(w) /\ issued' = issued \cup {r}
      /\ health' = [health EXCEPT ![w] = Probed(w)] /\ job' = With(job, w, j)
      /\ UNCHANGED <<today, redisUp, redis, file, reservations, outages, faults>>
      /\ UNCHANGED <<charged, over, stray>>
  BY DEF StartBill, bookkeeping
<1> HIDE DEF j
<1>5. /\ JobsOK' /\ WorldOK' /\ SavesKept /\ Progress'
      /\ \A v \in DOMAIN job' : /\ job'[v].day <= today
                                /\ job'[v].at = "save" => job'[v].draft.day <= today
      /\ Still' => /\ Still /\ redisUp
                   /\ \A v \in DOMAIN job' : v = w \/ (v \in DOMAIN job /\ job'[v] = job[v])
                   /\ job'[w].at = "redis"
  <2>1. j.day <= today
    BY <1>1, <1>3
  <2> QED
    BY <1>2, <1>3, <1>4, <2>1, Begins
<1>6. job'[w] = j
  BY <1>4 DEF With
<1>7. HeldOK'
  BY <1>1, <1>4, TypeParts DEF HeldOK
<1>8. BooksOK' /\ Counted' /\ \A a \in Accounts : Owed(a)' = Owed(a)
  <2>1. ASSUME NEW a \in Accounts
        PROVE  /\ FiniteR(a)' /\ FiniteS(a)'
               /\ RSum(a)' + SSum(a)' = RSum(a) + SSum(a)
    <3>1. Settles(j, a, today) = 0
      BY <1>3 DEF Settles
    <3>2. FiniteS(a)' /\ SSum(a)' = SSum(a) + Settles(j, a, today)
      BY <1>3, <1>4, SumBegins DEF Idle
    <3>3. FiniteR(a)' /\ RSum(a)' = RSum(a)
      BY <1>4, SumKept
    <3> QED
      BY <3>1, <3>2, <3>3, Numbers
  <2> QED
    BY <1>4, <1>5, <2>1, BooksKept
<1>9. Dated'
  BY <1>4, <1>5 DEF IInv, Dated
<1>10. Quiet'
  <2> SUFFICES ASSUME Still' PROVE OnRedisOnly' /\ Exact'
    BY DEF Quiet
  <2>1. Still /\ redisUp /\ OnRedisOnly /\ Exact
    BY <1>5 DEF IInv, Quiet
  <2>2. today = 1
    BY <2>1 DEF Still
  <2>3. OnRedisOnly'
    <3>1. \A v \in DOMAIN job' : /\ job'[v].at \in {"redis", "redis key"}
                                 /\ job'[v].day = 1
      <4>1. job'[w].at = "redis" /\ job'[w].day = 1
        BY <1>3, <1>5, <1>6, <2>2
      <4>2. \A v \in DOMAIN job' : v = w \/ (v \in DOMAIN job /\ job'[v] = job[v])
        BY <1>5
      <4> QED
        BY <2>1, <4>1, <4>2 DEF OnRedisOnly
    <3> QED
      BY <1>4, <2>1, <3>1 DEF OnRedisOnly
  <2>4. Exact'
    BY <1>4, <1>8, <2>1 DEF Exact
  <2> QED
    BY <2>3, <2>4
<1> QED
  BY <1>5, <1>7, <1>8, <1>9, <1>10, TypePartsNext DEF IInv

(* Popping a reservation hands its estimate over to the call that settles  *)
(* it, on the same day's books.                                            *)
LEMMA StepSettleBegins ==
    ASSUME IInv, NEW w \in Workers, NEW r \in Rids, NEW used \in Nat,
           StartSettle(w, r, used), used # reservations[r].held
    PROVE  IInv'
<1> DEFINE e == reservations[r]
           j == [call |-> "settle", at |-> Entry(w), rid |-> r,
                 who |-> e.who, held |-> e.held, used |-> used,
                 day |-> e.day, applied |-> {}, draft |-> NoDraft]
<1>1. TypeOK /\ today \in Nat /\ r \in DOMAIN reservations
  BY TodayType DEF IInv, StartSettle
<1>2. e.who \in Accounts /\ e.held \in Nat /\ e.day \in Nat /\ e.day <= today
  BY <1>1, ReservationParts DEF IInv, Dated
<1>3. j \in Job
  <2>1. NoDraft \in Ledger
    BY DEF NoDraft, Empty, Ledger
  <2> QED
    BY <1>1, <1>2, <2>1 DEF Job, Entry
<1>4. /\ j.at = Entry(w) /\ j.applied = {} /\ j.day = e.day
      /\ j.call = "settle" /\ j.held = e.held /\ j.who = e.who
  OBVIOUS
<1>5. /\ Idle(w) /\ reservations' = Without(reservations, r)
      /\ health' = [health EXCEPT ![w] = Probed(w)] /\ job' = With(job, w, j)
      /\ UNCHANGED <<today, redisUp, redis, file, issued, outages, faults>>
      /\ UNCHANGED <<charged, over, stray>>
  BY DEF StartSettle, bookkeeping
<1> HIDE DEF j
<1>6. /\ HeldOK'
      /\ DOMAIN reservations' = DOMAIN reservations \ {r}
      /\ \A x \in DOMAIN reservations' : reservations'[x] = reservations[x]
  BY <1>1, <1>5 DEF TypeOK, HeldOK, Without
<1>7. /\ JobsOK' /\ WorldOK' /\ SavesKept /\ Progress'
      /\ \A v \in DOMAIN job' : /\ job'[v].day <= today
                                /\ job'[v].at = "save" => job'[v].draft.day <= today
      /\ Still' => /\ Still /\ redisUp
                   /\ \A v \in DOMAIN job' : v = w \/ (v \in DOMAIN job /\ job'[v] = job[v])
                   /\ job'[w].at = "redis"
  <2>1. j.day <= today /\ j.call # "reserve"
    BY <1>2, <1>4
  <2>2. DOMAIN reservations' \subseteq DOMAIN reservations /\ issued \subseteq issued'
    BY <1>5, <1>6
  <2> QED
    BY <1>3, <1>4, <1>5, <2>1, <2>2, Begins
<1>8. job'[w] = j
  BY <1>5 DEF With
<1>9. BooksOK' /\ Counted' /\ \A a \in Accounts : Owed(a)' = Owed(a)
  <2>1. ASSUME NEW a \in Accounts
        PROVE  /\ FiniteR(a)' /\ FiniteS(a)'
               /\ RSum(a)' + SSum(a)' = RSum(a) + SSum(a)
    <3>1. Settles(j, a, today) = Reserves(e, a, today)
      BY <1>4 DEF Settles, Pending, Reserves, Booked
    <3>2. FiniteS(a)' /\ SSum(a)' = SSum(a) + Settles(j, a, today)
      BY <1>2, <1>4, <1>5, SumBegins DEF Idle
    <3>3. FiniteR(a)' /\ RSum(a) = RSum(a)' + Reserves(e, a, today)
      BY <1>1, <1>5, SumPopped
    <3>4. RSum(a)' \in Nat /\ Reserves(e, a, today) \in Nat
      BY <1>1, <1>2, <3>3, FS_CardinalityType DEF FiniteR, RSum, Reserves
    <3> HIDE DEF e
    <3> QED
      BY <3>1, <3>2, <3>3, <3>4, Numbers
  <2> QED
    BY <1>5, <1>7, <2>1, BooksKept
<1>10. Dated'
  BY <1>5, <1>6, <1>7 DEF IInv, Dated
<1>11. Quiet'
  <2> SUFFICES ASSUME Still' PROVE OnRedisOnly' /\ Exact'
    BY DEF Quiet
  <2>1. Still /\ redisUp /\ OnRedisOnly /\ Exact
    BY <1>7 DEF IInv, Quiet
  <2>2. e.day = 1
    BY <1>1, <2>1 DEF OnRedisOnly
  <2>3. OnRedisOnly'
    <3>1. \A v \in DOMAIN job' : /\ job'[v].at \in {"redis", "redis key"}
                                 /\ job'[v].day = 1
      BY <1>4, <1>7, <1>8, <2>1, <2>2 DEF OnRedisOnly
    <3>2. \A x \in DOMAIN reservations' : reservations'[x].day = 1
      BY <1>6, <2>1 DEF OnRedisOnly
    <3> QED
      BY <1>5, <2>1, <3>1, <3>2 DEF OnRedisOnly
  <2>4. Exact'
    BY <1>5, <1>9, <2>1 DEF Exact
  <2> QED
    BY <2>3, <2>4
<1> QED
  BY <1>6, <1>7, <1>9, <1>10, <1>11, TypePartsNext DEF IInv


(* A step that books on accounts, without the file, where only calls at    *)
(* Redis change: what is owed, Redis and the strays move together.         *)
LEMMA BooksMove ==
    ASSUME IInv, SavesKept, today' = today, file' = file,
           NEW a \in Accounts, FiniteR(a)', FiniteS(a)',
           redis'[today][a] \in Int, over'[a] \in Nat, stray'[a] \in Nat,
           Owed(a)' \in Nat,
           Cap[a] > NoCap =>
             Excess(a, redis'[today][a]) + over[a] <= Excess(a, redis[today][a]) + over'[a],
           Owed(a)' + redis[today][a] + stray[a] <= Owed(a) + redis'[today][a] + stray'[a]
    PROVE  (Finite(a) /\ Covered(a) /\ Within(a))'
<1>1. Finite(a)'
  BY DEF Finite, FiniteR, FiniteS
<1>2. Covered(a)'
  <2>1. Total(a)' = redis'[today][a] + Load(today)[a]
    BY DEF Total, Load
  <2>2. Owed(a) <= redis[today][a] + Load(today)[a] + stray[a]
    BY Numbers DEF Covered, Total
  <2>3. Owed(a)' <= redis'[today][a] + Load(today)[a] + stray'[a]
    BY <2>2, Numbers
  <2> QED
    BY <2>1, <2>3 DEF Covered
<1>3. Within(a)'
  BY WithinKept
<1> QED
  BY <1>1, <1>2, <1>3

(* Settling for exactly the estimate writes nothing.                       *)
LEMMA StepSettleEven ==
    ASSUME IInv, NEW w \in Workers, NEW r \in Rids, NEW used \in Nat,
           StartSettle(w, r, used), used = reservations[r].held
    PROVE  IInv'
<1> DEFINE e == reservations[r]
           late == IF e.day = today THEN 0 ELSE used
<1>1. TypeOK /\ today \in Nat /\ r \in DOMAIN reservations
  BY TodayType DEF IInv, StartSettle
<1>2. e.who \in Accounts /\ e.held = used /\ e.day \in Nat /\ late \in Nat
  BY <1>1, ReservationParts
<1>3. /\ reservations' = Without(reservations, r)
      /\ charged' = Add(charged, Books(e.who), used)
      /\ stray' = Add(stray, Books(e.who), late)
      /\ UNCHANGED <<today, redisUp, redis, file, issued, outages, faults>>
      /\ UNCHANGED <<health, job, over>>
  BY DEF StartSettle
<1>4. /\ HeldOK'
      /\ DOMAIN reservations' = DOMAIN reservations \ {r}
      /\ \A x \in DOMAIN reservations' : reservations'[x] = reservations[x]
  BY <1>1, <1>3 DEF TypeOK, HeldOK, Without
<1>5. JobsOK' /\ WorldOK'
  BY <1>1, <1>3 DEF TypeOK, JobsOK, WorldOK
<1>6. SavesKept
  BY <1>3 DEF SavesKept
<1>7. BooksOK'
  <2> HIDE DEF e, late
  <2>1. charged \in [Accounts -> Nat] /\ stray \in [Accounts -> Nat]
    BY <1>1 DEF TypeOK
  <2>2. charged' \in [Accounts -> Nat]
    BY <1>3, <2>1, AddType
  <2>3. stray' \in [Accounts -> Nat]
    BY <1>2, <1>3, <2>1, AddType
  <2> QED
    BY <1>1, <1>3, <2>2, <2>3 DEF TypeOK, BooksOK
<1>8. ASSUME NEW a \in Accounts
      PROVE  /\ FiniteR(a)' /\ FiniteS(a)' /\ Owed(a)' \in Nat
             /\ Owed(a)' + stray[a] = Owed(a) + stray'[a]
  <2> DEFINE u == IF a \in Books(e.who) THEN used ELSE 0
             l == IF a \in Books(e.who) THEN late ELSE 0
             h == Reserves(e, a, today)
  <2>1. charged'[a] = charged[a] + u /\ stray'[a] = stray[a] + l
    BY <1>3, AddAt, Numbers
  <2>2. h + l = u /\ h \in Nat /\ u \in Nat /\ l \in Nat
    BY <1>2 DEF Reserves, Booked
  <2>3. FiniteR(a)' /\ RSum(a) = RSum(a)' + h
    BY <1>1, <1>3, SumPopped
  <2>4. FiniteS(a)' /\ SSum(a)' = SSum(a)
    BY <1>3, SumKept
  <2>5. RSum(a)' \in Nat
    BY <2>3, FS_CardinalityType DEF FiniteR, RSum
  <2>6. Owed(a)' = charged'[a] + (RSum(a)' + SSum(a)')
    BY DEF Owed, Outstanding, RSum, SSum
  <2> HIDE DEF u, l, h
  <2>7. /\ Owed(a) = charged[a] + (RSum(a) + SSum(a))
        /\ charged[a] \in Nat /\ stray[a] \in Nat /\ SSum(a) \in Nat
    BY Numbers, Sums
  <2> QED
    BY <2>1, <2>2, <2>3, <2>4, <2>5, <2>6, <2>7
<1>9. Counted'
  <2>1. ASSUME NEW a \in Accounts PROVE (Finite(a) /\ Covered(a) /\ Within(a))'
    <3>1. /\ redis'[today][a] = redis[today][a] /\ over'[a] = over[a]
          /\ redis[today][a] \in Int /\ over[a] \in Nat
          /\ Excess(a, redis[today][a]) \in Nat
      BY <1>3, Numbers, FloorType DEF Excess
    <3>2. stray'[a] \in Nat
      BY <1>7 DEF BooksOK
    <3>3. Excess(a, redis'[today][a]) + over[a] <= Excess(a, redis[today][a]) + over'[a]
      BY <3>1
    <3>4. Owed(a)' + redis[today][a] + stray[a] <= Owed(a) + redis'[today][a] + stray'[a]
      BY <1>8, <3>1, <3>2, Numbers
    <3> QED
      BY <1>3, <1>6, <1>8, <3>1, <3>2, <3>3, <3>4, BooksMove
  <2> QED
    BY <2>1 DEF Counted
<1>10. Dated' /\ Progress'
  <2>1. Dated /\ Progress
    BY DEF IInv
  <2>2. Dated'
    BY <1>3, <1>4, <2>1 DEF Dated
  <2>3. Progress'
    BY <1>3, <1>4, <2>1 DEF Progress
  <2> QED
    BY <2>2, <2>3
<1>11. Quiet'
  <2> SUFFICES ASSUME Still' PROVE OnRedisOnly' /\ Exact'
    BY DEF Quiet
  <2>1. Still
    BY <1>3 DEF Still
  <2>2. OnRedisOnly /\ Exact /\ today = 1
    BY <2>1 DEF IInv, Quiet, Still
  <2>3. OnRedisOnly'
    <3>1. \A x \in DOMAIN reservations' : reservations'[x].day = 1
      BY <1>4, <2>2 DEF OnRedisOnly
    <3> QED
      BY <1>3, <2>2, <3>1 DEF OnRedisOnly
  <2>4. late = 0
    BY <1>1, <2>2 DEF OnRedisOnly
  <2>5. ASSUME NEW a \in Accounts PROVE redis'[1][a] = Owed(a)'
    <3>1. stray'[a] = stray[a]
      BY <1>3, <2>4, AddAt, Numbers
    <3>2. Owed(a)' = Owed(a)
      BY <1>8, <3>1, Numbers
    <3> QED
      BY <1>3, <2>2, <3>2 DEF Exact
  <2> QED
    BY <2>3, <2>5 DEF Exact
<1> QED
  BY <1>4, <1>5, <1>7, <1>9, <1>10, <1>11, TypePartsNext DEF IInv


-----------------------------------------------------------------------------
(* A call ends, or moves on.                                               *)

LEMMA Ends ==
    ASSUME IInv, NEW w, job' = Without(job, w), issued' = issued, today' = today,
           \A v \in DOMAIN job \ {w} :
              job[v].call = "reserve" => job[v].rid \notin DOMAIN reservations'
    PROVE  /\ JobsOK' /\ SavesKept /\ Progress'
           /\ DOMAIN job' = DOMAIN job \ {w} /\ \A v \in DOMAIN job' : job'[v] = job[v]
           /\ \A v \in DOMAIN job' : /\ job'[v].day <= today
                                     /\ job'[v].at = "save" => job'[v].draft.day <= today
<1>1. TypeOK /\ Progress /\ Dated
  BY DEF IInv
<1>2. /\ JobsOK' /\ DOMAIN job' = DOMAIN job \ {w}
      /\ \A v \in DOMAIN job' : job'[v] = job[v]
  BY <1>1, CallEnds
<1>3. SavesKept
  BY <1>2 DEF SavesKept
<1>4. Progress'
  <2>1. ASSUME NEW v \in DOMAIN job'
        PROVE  LET k == job'[v] IN
               /\ k.at = "redis" => k.applied = {}
               /\ k.at = "redis key" => k.call = "settle" /\ k.applied = {Global}
               /\ k.call = "reserve" =>
                     /\ k.rid \in issued' /\ k.rid \notin DOMAIN reservations'
                     /\ k.at = "save" => CapsAllow(k.draft.spent, k.who, k.held)
    <3>1. v \in DOMAIN job \ {w} /\ job'[v] = job[v]
      BY <1>2
    <3> QED
      BY <1>1, <3>1 DEF Progress
  <2>2. ASSUME NEW u \in DOMAIN job', NEW v \in DOMAIN job', u # v,
               job'[u].call = "reserve", job'[v].call = "reserve"
        PROVE  job'[u].rid # job'[v].rid
    <3>1. /\ u \in DOMAIN job /\ job'[u] = job[u]
          /\ v \in DOMAIN job /\ job'[v] = job[v]
      BY <1>2
    <3> QED
      BY <1>1, <2>2, <3>1 DEF Progress
  <2> QED
    BY <2>1, <2>2 DEF Progress
<1>5. \A v \in DOMAIN job' : /\ job'[v].day <= today
                             /\ job'[v].at = "save" => job'[v].draft.day <= today
  BY <1>1, <1>2 DEF Dated
<1> QED
  BY <1>2, <1>3, <1>4, <1>5

LEMMA Moves ==
    ASSUME IInv, NEW w \in DOMAIN job, DOMAIN job' = DOMAIN job, OthersKept(w),
           SameCall(job'[w], job[w]), reservations' = reservations, issued' = issued,
           today' = today, job'[w].at # "redis",
           job'[w].at = "redis key" =>
             job[w].call = "settle" /\ job'[w].applied = {Global},
           job'[w].at = "save" =>
             /\ job'[w].draft = [day |-> today, spent |-> Load(today)]
             /\ job[w].call = "reserve" => CapsAllow(Load(today), job[w].who, job[w].held)
    PROVE  /\ SavesKept /\ Progress'
           /\ \A v \in DOMAIN job' : /\ job'[v].day <= today
                                     /\ job'[v].at = "save" => job'[v].draft.day <= today
<1>1. TypeOK /\ Progress /\ Dated /\ today \in Nat
  BY TodayType DEF IInv
<1>2. /\ \A v \in DOMAIN job \ {w} : job'[v] = job[v]
      /\ job'[w].call = job[w].call /\ job'[w].rid = job[w].rid
      /\ job'[w].who = job[w].who /\ job'[w].held = job[w].held
      /\ job'[w].day = job[w].day
  BY DEF OthersKept, SameCall
<1>3. job'[w].at = "save" =>
        job'[w].draft.day = today /\ job'[w].draft.spent = Load(today)
  OBVIOUS
<1>4. SavesKept
  BY <1>2, <1>3 DEF SavesKept
<1>5. Progress'
  <2>1. ASSUME NEW v \in DOMAIN job'
        PROVE  LET k == job'[v] IN
               /\ k.at = "redis" => k.applied = {}
               /\ k.at = "redis key" => k.call = "settle" /\ k.applied = {Global}
               /\ k.call = "reserve" =>
                     /\ k.rid \in issued' /\ k.rid \notin DOMAIN reservations'
                     /\ k.at = "save" => CapsAllow(k.draft.spent, k.who, k.held)
    <3>1. CASE v = w
      BY <1>1, <1>2, <1>3, <3>1 DEF Progress
    <3>2. CASE v # w
      <4>1. v \in DOMAIN job /\ job'[v] = job[v]
        BY <1>2, <3>2
      <4> QED
        BY <1>1, <4>1 DEF Progress
    <3> QED
      BY <3>1, <3>2
  <2>2. ASSUME NEW v \in DOMAIN job'
        PROVE  /\ v \in DOMAIN job
               /\ job'[v].call = job[v].call /\ job'[v].rid = job[v].rid
    <3>1. CASE v = w
      BY <1>2, <3>1
    <3>2. CASE v # w
      BY <1>2, <3>2
    <3> QED
      BY <3>1, <3>2
  <2>3. ASSUME NEW u \in DOMAIN job', NEW v \in DOMAIN job', u # v,
               job'[u].call = "reserve", job'[v].call = "reserve"
        PROVE  job'[u].rid # job'[v].rid
    <3>1. /\ u \in DOMAIN job /\ job[u].call = "reserve" /\ job'[u].rid = job[u].rid
          /\ v \in DOMAIN job /\ job[v].call = "reserve" /\ job'[v].rid = job[v].rid
      BY <2>2, <2>3
    <3> QED
      BY <1>1, <2>3, <3>1 DEF Progress
  <2> QED
    BY <2>1, <2>3 DEF Progress
<1>6. ASSUME NEW v \in DOMAIN job'
      PROVE  /\ job'[v].day <= today
             /\ job'[v].at = "save" => job'[v].draft.day <= today
  <2>1. CASE v = w
    <3>1. job'[w].day <= today
      BY <1>1, <1>2 DEF Dated
    <3>2. job'[w].at = "save" => job'[w].draft.day <= today
      BY <1>1, <1>3
    <3> QED
      BY <2>1, <3>1, <3>2
  <2>2. CASE v # w
    BY <1>1, <1>2, <2>2 DEF Dated
  <2> QED
    BY <2>1, <2>2
<1> QED
  BY <1>4, <1>5, <1>6

(* _store_reservation.                                                     *)
LEMMA Stores ==
    ASSUME IInv, NEW w \in DOMAIN job, job[w].call = "reserve", NEW day \in Nat,
           day <= today, Store(w, day), issued' = issued
    PROVE  LET e == [worker |-> w, who |-> job[w].who,
                     held |-> job[w].held, day |-> day]
           IN  /\ HeldOK' /\ reservations' = With(reservations, job[w].rid, e)
               /\ job[w].rid \notin DOMAIN reservations
               /\ DOMAIN reservations' = DOMAIN reservations \cup {job[w].rid}
               /\ reservations'[job[w].rid].day = day
               /\ \A r \in DOMAIN reservations : reservations'[r] = reservations[r]
               /\ \A r \in DOMAIN reservations' : reservations'[r].day <= today
               /\ \A v \in DOMAIN job \ {w} :
                     job[v].call = "reserve" => job[v].rid \notin DOMAIN reservations'
<1> DEFINE e == [worker |-> w, who |-> job[w].who, held |-> job[w].held, day |-> day]
           r0 == job[w].rid
<1>1. TypeOK /\ Progress /\ Dated
  BY DEF IInv
<1>2. /\ r0 \in issued /\ r0 \notin DOMAIN reservations
      /\ \A v \in DOMAIN job \ {w} :
            job[v].call = "reserve" => job[v].rid \notin DOMAIN reservations \cup {r0}
  BY <1>1 DEF Progress
<1>3. e \in Reservation /\ e.day = day
  BY <1>1, CallParts DEF Reservation
<1>4. reservations' = With(reservations, r0, e)
  BY DEF Store
<1> HIDE DEF e, r0
<1>5. /\ reservations' \in [DOMAIN reservations' -> Reservation]
      /\ DOMAIN reservations' = DOMAIN reservations \cup {r0}
      /\ reservations'[r0] = e
      /\ \A r \in DOMAIN reservations : reservations'[r] = reservations[r]
  <2>1. reservations \in [DOMAIN reservations -> Reservation]
    BY <1>1 DEF TypeOK
  <2> QED
    BY <1>2, <1>3, <1>4, <2>1 DEF With
<1>6. HeldOK'
  BY <1>1, <1>2, <1>5 DEF TypeOK, HeldOK
<1>7. \A r \in DOMAIN reservations' : reservations'[r].day <= today
  BY <1>1, <1>3, <1>5 DEF Dated
<1> QED
  BY <1>2, <1>3, <1>4, <1>5, <1>6, <1>7 DEF e, r0


-----------------------------------------------------------------------------
(* Redis.                                                                  *)

LEMMA RedisBooks ==
    ASSUME IInv, NEW some, NEW n \in Int, OnRedis(some, n)
    PROVE  /\ redis' \in [1 .. MaxDay -> [Accounts -> Int]]
           /\ \A d \in 1 .. MaxDay : d # today => redis'[d] = redis[d]
           /\ \A a \in Accounts :
                 redis'[today][a] = IF a \in some THEN redis[today][a] + n
                                                  ELSE redis[today][a]
<1>1. /\ redis \in [1 .. MaxDay -> [Accounts -> Int]] /\ today \in 1 .. MaxDay
  BY TypeParts DEF IInv, BooksOK, WorldOK
<1>2. Add(redis[today], some, n) \in [Accounts -> Int]
  BY <1>1, AddType
<1>3. redis' = [redis EXCEPT ![today] = Add(redis[today], some, n)]
  BY DEF OnRedis
<1>4. redis'[today] = Add(redis[today], some, n)
  BY <1>1, <1>3
<1>5. /\ redis' \in [1 .. MaxDay -> [Accounts -> Int]]
      /\ \A d \in 1 .. MaxDay : d # today => redis'[d] = redis[d]
  BY <1>1, <1>2, <1>3
<1> QED
  BY <1>4, <1>5, AddAt

\* The estimate j asks for, on account a.
Asks(j, a) == IF a \in Books(j.who) THEN j.held ELSE 0

(* The script's check: what it books stays within every cap.               *)
LEMMA ScriptBooks ==
    ASSUME IInv, NEW w \in DOMAIN job,
           CapsAllow(redis[today], job[w].who, job[w].held),
           OnRedis(Books(job[w].who), job[w].held), NEW a \in Accounts
    PROVE  /\ redis'[today][a] = redis[today][a] + Asks(job[w], a)
           /\ redis'[today][a] \in Int /\ Asks(job[w], a) \in Nat
           /\ Cap[a] > NoCap =>
                Excess(a, redis'[today][a]) + over[a] <= Excess(a, redis[today][a]) + over[a]
<1>1. job[w].held \in Nat
  BY CallParts DEF IInv
<1>2. Asks(job[w], a) \in Nat
  BY <1>1 DEF Asks
<1>3. redis[today][a] \in Int /\ Cap[a] \in Int /\ over[a] \in Nat
  BY Numbers
<1>4. redis'[today][a] = redis[today][a] + Asks(job[w], a)
  BY <1>1, <1>3, RedisBooks DEF Asks
<1>5. ASSUME Cap[a] > NoCap
      PROVE  Excess(a, redis'[today][a]) + over[a] <= Excess(a, redis[today][a]) + over[a]
  <2>1. CASE a \in Books(job[w].who)
    <3>1. redis'[today][a] <= Cap[a]
      BY <1>1, <1>3, <1>4, <1>5, <2>1 DEF CapsAllow, Asks
    <3>2. Excess(a, redis'[today][a]) = 0
      BY <1>2, <1>3, <1>4, <3>1 DEF Excess, FloorAtZero
    <3>3. Excess(a, redis[today][a]) \in Nat
      BY <1>3, FloorType DEF Excess
    <3> QED
      BY <1>3, <3>2, <3>3
  <2>2. CASE a \notin Books(job[w].who)
    <3>1. redis'[today][a] = redis[today][a]
      BY <1>3, <1>4, <2>2 DEF Asks
    <3>2. Excess(a, redis[today][a]) \in Nat
      BY <1>3, FloorType DEF Excess
    <3> QED
      BY <1>3, <3>1, <3>2
  <2> QED
    BY <2>1, <2>2
<1> QED
  BY <1>2, <1>3, <1>4, <1>5

\* A reserve call under way holds nothing yet.
LEMMA ReserveHoldsNothing ==
    ASSUME NEW j, j.call = "reserve", NEW a, NEW day
    PROVE  Settles(j, a, day) = 0
BY DEF Settles, Pending

(* Booked on Redis, and the reply came: the estimate is now held.          *)
LEMMA StepReserved ==
    ASSUME IInv, NEW w \in DOMAIN job, job[w].call = "reserve", redisUp,
           CapsAllow(redis[today], job[w].who, job[w].held),
           OnRedis(Books(job[w].who), job[w].held),
           Store(w, today), Finish(w), UNCHANGED faults,
           UNCHANGED <<today, redisUp, health, file, issued, outages>>,
           UNCHANGED <<charged, over, stray>>
    PROVE  IInv'
<1>1. TypeOK /\ today \in Nat /\ today <= today
  BY TodayType DEF IInv
<1>2. /\ HeldOK'
      /\ DOMAIN reservations' = DOMAIN reservations \cup {job[w].rid}
      /\ reservations'[job[w].rid].day = today
      /\ \A r \in DOMAIN reservations : reservations'[r] = reservations[r]
      /\ \A r \in DOMAIN reservations' : reservations'[r].day <= today
      /\ \A v \in DOMAIN job \ {w} :
            job[v].call = "reserve" => job[v].rid \notin DOMAIN reservations'
  BY <1>1, Stores
<1>3. /\ JobsOK' /\ SavesKept /\ Progress'
      /\ DOMAIN job' = DOMAIN job \ {w} /\ \A v \in DOMAIN job' : job'[v] = job[v]
      /\ \A v \in DOMAIN job' : /\ job'[v].day <= today
                                /\ job'[v].at = "save" => job'[v].draft.day <= today
  BY <1>2, Ends DEF Finish
<1>4. WorldOK'
  BY <1>1 DEF TypeOK, WorldOK
<1>5. /\ redis' \in [1 .. MaxDay -> [Accounts -> Int]]
      /\ \A d \in 1 .. MaxDay : d # today => redis'[d] = redis[d]
  <2>1. job[w].held \in Nat
    BY <1>1, CallParts
  <2>2. job[w].held \in Int
    BY <2>1
  <2> QED
    BY <2>2, RedisBooks
<1>6. BooksOK'
  BY <1>1, <1>5 DEF TypeOK, BooksOK
<1>7. ASSUME NEW a \in Accounts
      PROVE  /\ FiniteR(a)' /\ FiniteS(a)' /\ Owed(a)' = Owed(a) + Asks(job[w], a)
  <2> DEFINE e == [worker |-> w, who |-> job[w].who,
                   held |-> job[w].held, day |-> today]
  <2>1. Reserves(e, a, today) = Asks(job[w], a) /\ e.held \in Nat
    BY <1>1, CallParts DEF Reserves, Booked, Asks
  <2>2. /\ reservations' = With(reservations, job[w].rid, e)
        /\ job[w].rid \notin DOMAIN reservations
    BY <1>1, Stores
  <2> HIDE DEF e
  <2>3. FiniteR(a)' /\ RSum(a)' = RSum(a) + Reserves(e, a, today)
    BY <2>1, <2>2, SumStored
  <2>4. FiniteS(a)' /\ SSum(a) = SSum(a)' + Settles(job[w], a, today)
    BY SumEnds DEF Finish
  <2>5. SSum(a)' \in Nat
    BY <2>4, FS_CardinalityType DEF FiniteS, SSum
  <2>6. SSum(a)' = SSum(a)
    BY <2>4, <2>5, ReserveHoldsNothing
  <2>7. Owed(a)' = charged[a] + (RSum(a)' + SSum(a)')
    <3>1. Owed(a)' = charged'[a] + (RSum(a)' + SSum(a)')
      BY DEF Owed, Outstanding, RSum, SSum
    <3> QED
      BY <3>1
  <2>8. Asks(job[w], a) \in Nat
    BY ScriptBooks
  <2>9. Owed(a) = charged[a] + (RSum(a) + SSum(a)) /\ charged[a] \in Nat
        /\ RSum(a) \in Nat /\ SSum(a) \in Nat
    BY Sums, Numbers
  <2> QED
    BY <2>1, <2>3, <2>4, <2>6, <2>7, <2>8, <2>9
<1>8. Counted'
  <2>1. ASSUME NEW a \in Accounts PROVE (Finite(a) /\ Covered(a) /\ Within(a))'
    <3>1. /\ redis'[today][a] = redis[today][a] + Asks(job[w], a)
          /\ redis'[today][a] \in Int /\ Asks(job[w], a) \in Nat
          /\ Cap[a] > NoCap =>
               Excess(a, redis'[today][a]) + over'[a] <= Excess(a, redis[today][a]) + over[a]
      BY ScriptBooks
    <3>2. /\ over'[a] = over[a] /\ stray'[a] = stray[a] /\ today' = today /\ file' = file
          /\ over[a] \in Nat /\ stray[a] \in Nat /\ redis[today][a] \in Int
          /\ Owed(a) \in Nat
      BY Numbers
    <3>3. /\ Owed(a)' \in Nat
          /\ Owed(a)' + redis[today][a] + stray[a] <= Owed(a) + redis'[today][a] + stray'[a]
      BY <1>7, <3>1, <3>2
    <3> QED
      BY <1>3, <1>7, <3>1, <3>2, <3>3, BooksMove
  <2> QED
    BY <2>1 DEF Counted
<1>9. Dated'
  <2>1. Dated
    BY DEF IInv
  <2>2. \A d \in 1 .. MaxDay : d > today => redis'[d] = Empty
    BY <1>1, <1>5, <2>1 DEF Dated
  <2> QED
    BY <1>2, <1>3, <2>1, <2>2 DEF Dated
<1>10. Quiet'
  <2> SUFFICES ASSUME Still' PROVE OnRedisOnly' /\ Exact'
    BY DEF Quiet
  <2>1. Still
    BY DEF Still
  <2>2. OnRedisOnly /\ Exact /\ today = 1
    BY <2>1 DEF IInv, Quiet, Still
  <2>3. OnRedisOnly'
    <3>1. \A x \in DOMAIN reservations' : reservations'[x].day = 1
      BY <1>2, <2>2 DEF OnRedisOnly
    <3> QED
      BY <1>3, <2>2, <3>1 DEF OnRedisOnly
  <2>4. ASSUME NEW a \in Accounts PROVE redis'[1][a] = Owed(a)'
    BY <1>7, <2>2, ScriptBooks DEF Exact
  <2> QED
    BY <2>3, <2>4 DEF Exact
<1> QED
  BY <1>2, <1>3, <1>4, <1>6, <1>8, <1>9, <1>10, TypePartsNext DEF IInv


(* A refused estimate leaves everything as it was.                         *)
LEMMA StepRefused ==
    ASSUME IInv, NEW w \in DOMAIN job, job[w].call = "reserve", Finish(w),
           UNCHANGED <<today, redisUp, health, redis, file, reservations, issued,
                       outages, faults>>,
           UNCHANGED <<charged, over, stray>>
    PROVE  IInv'
<1>1. TypeOK /\ Progress /\ Dated
  BY DEF IInv
<1>2. \A v \in DOMAIN job \ {w} :
         job[v].call = "reserve" => job[v].rid \notin DOMAIN reservations'
  BY <1>1 DEF Progress
<1>3. /\ JobsOK' /\ SavesKept /\ Progress'
      /\ DOMAIN job' = DOMAIN job \ {w} /\ \A v \in DOMAIN job' : job'[v] = job[v]
      /\ \A v \in DOMAIN job' : /\ job'[v].day <= today
                                /\ job'[v].at = "save" => job'[v].draft.day <= today
  BY <1>2, Ends DEF Finish
<1>4. HeldOK' /\ WorldOK'
  BY <1>1 DEF TypeOK, HeldOK, WorldOK
<1>5. BooksOK' /\ Counted' /\ \A a \in Accounts : Owed(a)' = Owed(a)
  <2>1. ASSUME NEW a \in Accounts
        PROVE  /\ FiniteR(a)' /\ FiniteS(a)'
               /\ RSum(a)' + SSum(a)' = RSum(a) + SSum(a)
    <3>1. FiniteS(a)' /\ SSum(a) = SSum(a)' + Settles(job[w], a, today)
      BY SumEnds DEF Finish
    <3>2. SSum(a)' \in Nat
      BY <3>1, FS_CardinalityType DEF FiniteS, SSum
    <3>3. SSum(a)' = SSum(a)
      BY <3>1, <3>2, ReserveHoldsNothing
    <3>4. FiniteR(a)' /\ RSum(a)' = RSum(a)
      BY SumKept
    <3> QED
      BY <3>1, <3>3, <3>4
  <2> QED
    BY <1>3, <2>1, BooksKept
<1>6. Dated'
  BY <1>1, <1>3 DEF Dated
<1>7. Quiet'
  <2> SUFFICES ASSUME Still' PROVE OnRedisOnly' /\ Exact'
    BY DEF Quiet
  <2>1. Still
    BY DEF Still
  <2>2. OnRedisOnly /\ Exact
    BY <2>1 DEF IInv, Quiet
  <2>3. OnRedisOnly'
    BY <1>3, <2>2 DEF OnRedisOnly
  <2>4. Exact'
    BY <1>5, <2>2 DEF Exact
  <2> QED
    BY <2>3, <2>4
<1> QED
  BY <1>3, <1>4, <1>5, <1>6, <1>7, TypePartsNext DEF IInv

(* So does a call that goes on to the file.                                *)
LEMMA StepFallsBack ==
    ASSUME IInv, NEW w \in DOMAIN job, Fallback(w),
           UNCHANGED <<today, redisUp, health, redis, file, reservations, issued,
                       outages>>,
           UNCHANGED <<charged, over, stray>>,
           faults' \in Nat, ~Still'
    PROVE  IInv'
<1>1. TypeOK /\ Progress /\ Dated
  BY DEF IInv
<1>2. /\ JobsOK' /\ DOMAIN job' = DOMAIN job /\ OthersKept(w)
      /\ SameCall(job'[w], job[w]) /\ job'[w].at = "load"
      /\ job'[w].applied = job[w].applied
  BY <1>1, FallsBack
<1>3. /\ SavesKept /\ Progress'
      /\ \A v \in DOMAIN job' : /\ job'[v].day <= today
                                /\ job'[v].at = "save" => job'[v].draft.day <= today
  BY <1>2, Moves
<1>4. HeldOK' /\ WorldOK'
  BY <1>1 DEF TypeOK, HeldOK, WorldOK
<1>5. BooksOK' /\ Counted'
  <2>1. ASSUME NEW a \in Accounts
        PROVE  /\ FiniteR(a)' /\ FiniteS(a)'
               /\ RSum(a)' + SSum(a)' = RSum(a) + SSum(a)
    <3>1. /\ FiniteS(a)'
          /\ SSum(a) + Settles(job'[w], a, today) = SSum(a)' + Settles(job[w], a, today)
      BY <1>2, SumMoves
    <3>2. Settles(job'[w], a, today) = Settles(job[w], a, today)
      BY <1>2 DEF SameCall, Settles, Pending, Booked
    <3>3. SSum(a)' \in Nat /\ Settles(job[w], a, today) \in Nat
      BY <1>1, <3>1, ShareType, FS_CardinalityType DEF FiniteS, SSum
    <3>4. SSum(a)' = SSum(a)
      BY <3>1, <3>2, <3>3, Numbers
    <3>5. FiniteR(a)' /\ RSum(a)' = RSum(a)
      BY SumKept
    <3> QED
      BY <3>1, <3>4, <3>5
  <2> QED
    BY <1>3, <2>1, BooksKept
<1>6. Dated'
  BY <1>1, <1>3 DEF Dated
<1> QED
  BY <1>2, <1>3, <1>4, <1>5, <1>6, TypePartsNext DEF IInv, Quiet

LEMMA StepRedisFails ==
    ASSUME IInv, NEW w \in Workers, RedisFails(w)
    PROVE  IInv'
<1>1. /\ w \in DOMAIN job /\ ~redisUp /\ Fallback(w)
      /\ UNCHANGED <<today, redisUp, health, redis, file, reservations, issued,
                     outages, faults>>
      /\ UNCHANGED <<charged, over, stray>>
  BY DEF RedisFails, At, bookkeeping
<1>2. ~Still'
  <2> SUFFICES ASSUME Still' PROVE FALSE
    OBVIOUS
  <2>1. Still
    BY <1>1 DEF Still
  <2> QED
    BY <1>1, <2>1 DEF IInv, Quiet, OnRedisOnly
<1>3. faults' \in Nat
  BY <1>1 DEF IInv, Dated
<1> QED
  BY <1>1, <1>2, <1>3, StepFallsBack

(* Booked on Redis, but the reply was lost: nobody holds the estimate, and *)
(* the call goes on to the file.                                           *)
LEMMA StepReplyLost ==
    ASSUME IInv, NEW w \in DOMAIN job, job[w].call = "reserve",
           CapsAllow(redis[today], job[w].who, job[w].held),
           OnRedis(Books(job[w].who), job[w].held), Fault, Fallback(w),
           UNCHANGED <<today, redisUp, health, file, reservations, issued, outages>>,
           UNCHANGED <<charged, over, stray>>
    PROVE  IInv'
<1>1. TypeOK /\ Progress /\ Dated /\ today \in Nat
  BY TodayType DEF IInv
<1>2. /\ JobsOK' /\ DOMAIN job' = DOMAIN job /\ OthersKept(w)
      /\ SameCall(job'[w], job[w]) /\ job'[w].at = "load"
      /\ job'[w].applied = job[w].applied
  BY <1>1, FallsBack
<1>3. /\ SavesKept /\ Progress'
      /\ \A v \in DOMAIN job' : /\ job'[v].day <= today
                                /\ job'[v].at = "save" => job'[v].draft.day <= today
  BY <1>2, Moves
<1>4. HeldOK' /\ WorldOK'
  BY <1>1 DEF TypeOK, HeldOK, WorldOK
<1>5. /\ redis' \in [1 .. MaxDay -> [Accounts -> Int]]
      /\ \A d \in 1 .. MaxDay : d # today => redis'[d] = redis[d]
  <2>1. job[w].held \in Nat
    BY <1>1, CallParts
  <2>2. job[w].held \in Int
    BY <2>1
  <2> QED
    BY <2>2, RedisBooks
<1>6. BooksOK'
  BY <1>1, <1>5 DEF TypeOK, BooksOK
<1>7. ASSUME NEW a \in Accounts
      PROVE  FiniteR(a)' /\ FiniteS(a)' /\ Owed(a)' = Owed(a)
  <2>1. /\ FiniteS(a)'
        /\ SSum(a) + Settles(job'[w], a, today) = SSum(a)' + Settles(job[w], a, today)
    BY <1>2, SumMoves
  <2>2. Settles(job'[w], a, today) = 0 /\ Settles(job[w], a, today) = 0
    BY <1>2, ReserveHoldsNothing DEF SameCall
  <2>3. SSum(a)' \in Nat
    BY <2>1, FS_CardinalityType DEF FiniteS, SSum
  <2>4. SSum(a)' = SSum(a)
    BY <2>1, <2>2, <2>3, Numbers
  <2>5. FiniteR(a)' /\ RSum(a)' = RSum(a)
    BY SumKept
  <2>6. Owed(a)' = charged'[a] + (RSum(a)' + SSum(a)')
    BY DEF Owed, Outstanding, RSum, SSum
  <2> QED
    BY <2>1, <2>4, <2>5, <2>6, Sums
<1>8. Counted'
  <2>1. ASSUME NEW a \in Accounts PROVE (Finite(a) /\ Covered(a) /\ Within(a))'
    <3>1. /\ redis'[today][a] = redis[today][a] + Asks(job[w], a)
          /\ redis'[today][a] \in Int /\ Asks(job[w], a) \in Nat
          /\ Cap[a] > NoCap =>
               Excess(a, redis'[today][a]) + over'[a] <= Excess(a, redis[today][a]) + over[a]
      BY ScriptBooks
    <3>2. /\ over'[a] = over[a] /\ stray'[a] = stray[a] /\ today' = today /\ file' = file
          /\ over[a] \in Nat /\ stray[a] \in Nat /\ redis[today][a] \in Int
          /\ Owed(a) \in Nat
      BY Numbers
    <3>3. /\ Owed(a)' \in Nat
          /\ Owed(a)' + redis[today][a] + stray[a] <= Owed(a) + redis'[today][a] + stray'[a]
      BY <1>7, <3>1, <3>2
    <3> QED
      BY <1>3, <1>7, <3>1, <3>2, <3>3, BooksMove
  <2> QED
    BY <2>1 DEF Counted
<1>9. ~Still' /\ faults' \in Nat
  BY FaultEndsStill
<1>10. Dated'
  <2>1. \A d \in 1 .. MaxDay : d > today => redis'[d] = Empty
    BY <1>1, <1>5 DEF Dated
  <2> QED
    BY <1>1, <1>3, <1>9, <2>1 DEF Dated
<1> QED
  BY <1>2, <1>3, <1>4, <1>6, <1>8, <1>9, <1>10, TypePartsNext DEF IInv, Quiet

LEMMA StepRedisReserve ==
    ASSUME IInv, NEW w \in Workers, RedisReserve(w)
    PROVE  IInv'
<1>1. /\ w \in DOMAIN job /\ job[w].call = "reserve" /\ redisUp
      /\ UNCHANGED <<today, redisUp, health, file, issued, outages>>
      /\ UNCHANGED <<charged, over, stray>>
  BY DEF RedisReserve, At, bookkeeping
<1>2. \/ /\ CapsAllow(redis[today], job[w].who, job[w].held)
         /\ OnRedis(Books(job[w].who), job[w].held)
         /\ \/ Store(w, today) /\ Finish(w) /\ UNCHANGED faults
            \/ Fault /\ Fallback(w) /\ UNCHANGED reservations
      \/ /\ \/ Finish(w) /\ UNCHANGED faults
            \/ Fault /\ Fallback(w)
         /\ UNCHANGED <<redis, reservations>>
  BY DEF RedisReserve
<1>3. CASE /\ CapsAllow(redis[today], job[w].who, job[w].held)
           /\ OnRedis(Books(job[w].who), job[w].held)
           /\ Store(w, today) /\ Finish(w) /\ UNCHANGED faults
  BY <1>1, <1>3, StepReserved
<1>4. CASE /\ CapsAllow(redis[today], job[w].who, job[w].held)
           /\ OnRedis(Books(job[w].who), job[w].held)
           /\ Fault /\ Fallback(w) /\ UNCHANGED reservations
  BY <1>1, <1>4, StepReplyLost
<1>5. CASE Finish(w) /\ UNCHANGED faults /\ UNCHANGED <<redis, reservations>>
  BY <1>1, <1>5, StepRefused
<1>6. CASE Fault /\ Fallback(w) /\ UNCHANGED <<redis, reservations>>
  BY <1>1, <1>6, FaultEndsStill, StepFallsBack
<1> QED
  BY <1>2, <1>3, <1>4, <1>5, <1>6


-----------------------------------------------------------------------------
(* Settling on Redis.                                                      *)

\* some is what a pipeline of w may carry out now, and to where it leads.
NextPipeline(w, some, to) ==
    /\ some \subseteq Books(job[w].who) /\ some \cap job[w].applied = {}
    /\ \/ to = "done" /\ Books(job[w].who) \subseteq some \cup job[w].applied
       \/ /\ to = "redis key" /\ some = {Global}
          /\ job[w].who \in Keys /\ job[w].applied = {}

\* What pipeline some of w stops counting as held on account a.
TakenOff(w, some, a) == IF a \in some /\ job[w].day = today THEN job[w].held ELSE 0

LEMMA TakesOff ==
    ASSUME NEW j, NEW k, SameCall(k, j), j.call = "settle", j.held \in Nat,
           NEW some, some \subseteq Books(j.who), some \cap j.applied = {},
           k.applied = j.applied \cup some, NEW a, NEW day
    PROVE  /\ Settles(k, a, day) \in Nat
           /\ Settles(j, a, day) =
                Settles(k, a, day) + (IF a \in some /\ j.day = day THEN j.held ELSE 0)
<1> DEFINE h == j.held
<1>1. Settles(j, a, day) =
        IF j.day = day /\ a \in Books(j.who) /\ a \notin j.applied THEN h ELSE 0
  BY DEF Settles, Pending, Booked
<1>2. Settles(k, a, day) =
        IF j.day = day /\ a \in Books(j.who) /\ a \notin j.applied /\ a \notin some
        THEN h ELSE 0
  BY DEF SameCall, Settles, Pending, Booked
<1>3. a \in some => a \in Books(j.who) /\ a \notin j.applied
  OBVIOUS
<1>4. h \in Nat
  OBVIOUS
<1> HIDE DEF h
<1> QED
  BY <1>1, <1>2, <1>3, <1>4 DEF h

(* The three ways a pipeline ends: the call is over, goes on to the key's  *)
(* bucket, or lost its reply and goes on to the file.                      *)
LEMMA PipelineCall ==
    ASSUME IInv, NEW w \in DOMAIN job, NEW from, NEW some, NEW to,
           NextPipeline(w, some, to), Pipeline(w, from, some, to)
    PROVE  /\ JobsOK' /\ SavesKept /\ Progress' /\ faults' \in Nat
           /\ \A v \in DOMAIN job' : /\ job'[v].day <= today
                                     /\ job'[v].at = "save" => job'[v].draft.day <= today
           /\ Still' => /\ Still
                        /\ \A v \in DOMAIN job' :
                              v \in DOMAIN job /\ (job'[v] = job[v] \/
                                 (job'[v].at = "redis key" /\ job'[v].day = job[v].day))
           /\ \A a \in Accounts : /\ FiniteS(a)'
                                  /\ SSum(a) = SSum(a)' + TakenOff(w, some, a)
<1>1. TypeOK /\ Progress /\ Dated
  BY DEF IInv
<1>2. /\ job[w].call = "settle" /\ job[w].held \in Nat
      /\ some \in SUBSET Accounts
  BY <1>1, CallParts, BooksType DEF Pipeline, NextPipeline
<1>3. UNCHANGED <<today, redisUp, health, file, reservations, issued, outages>>
  BY DEF Pipeline
<1>4. ASSUME NEW a
      PROVE  Settles(job[w], a, today) =
               IF /\ job[w].day = today /\ a \in Books(job[w].who)
                  /\ a \notin job[w].applied
               THEN job[w].held ELSE 0
  BY <1>2 DEF Settles, Pending, Booked
<1>5. CASE to = "done" /\ Finish(w) /\ UNCHANGED faults
  <2>1. \A v \in DOMAIN job \ {w} :
           job[v].call = "reserve" => job[v].rid \notin DOMAIN reservations'
    BY <1>1, <1>3 DEF Progress
  <2>2. /\ JobsOK' /\ SavesKept /\ Progress'
        /\ DOMAIN job' = DOMAIN job \ {w} /\ \A v \in DOMAIN job' : job'[v] = job[v]
        /\ \A v \in DOMAIN job' : /\ job'[v].day <= today
                                  /\ job'[v].at = "save" => job'[v].draft.day <= today
    BY <1>3, <1>5, <2>1, Ends DEF Finish
  <2>3. faults' \in Nat /\ (Still' => Still)
    BY <1>1, <1>3, <1>5 DEF Dated, Still
  <2>4. ASSUME NEW a \in Accounts
        PROVE  FiniteS(a)' /\ SSum(a) = SSum(a)' + TakenOff(w, some, a)
    <3>1. FiniteS(a)' /\ SSum(a) = SSum(a)' + Settles(job[w], a, today)
      BY <1>3, <1>5, SumEnds DEF Finish
    <3>2. a \in some <=> a \in Books(job[w].who) /\ a \notin job[w].applied
      BY <1>5 DEF NextPipeline
    <3>3. Settles(job[w], a, today) = TakenOff(w, some, a)
      BY <1>4, <3>2 DEF TakenOff
    <3> QED
      BY <3>1, <3>3
  <2> QED
    BY <2>2, <2>3, <2>4
<1>6. ASSUME NEW place, place = "redis key" \/ place = "load",
             place = "redis key" => to = "redis key",
             job' = [job EXCEPT ![w].at = place, ![w].applied = @ \cup some]
      PROVE  /\ JobsOK' /\ SavesKept /\ Progress'
             /\ DOMAIN job' = DOMAIN job /\ OthersKept(w)
             /\ SameCall(job'[w], job[w]) /\ job'[w].at = place
             /\ \A v \in DOMAIN job' : /\ job'[v].day <= today
                                       /\ job'[v].at = "save" => job'[v].draft.day <= today
             /\ \A a \in Accounts : /\ FiniteS(a)'
                                    /\ SSum(a) = SSum(a)' + TakenOff(w, some, a)
  <2>1. place = "redis key" => job[w].who \in Keys /\ some = {Global} /\ job[w].applied = {}
    BY <1>6 DEF NextPipeline
  <2>2. /\ JobsOK' /\ DOMAIN job' = DOMAIN job /\ OthersKept(w)
        /\ SameCall(job'[w], job[w]) /\ job'[w].at = place
        /\ job'[w].applied = job[w].applied \cup some
    BY <1>1, <1>2, <1>6, <2>1, MovesOn
  <2>3. /\ job'[w].at # "redis" /\ job'[w].at # "save"
        /\ job'[w].at = "redis key" =>
             job[w].call = "settle" /\ job'[w].applied = {Global}
    BY <1>2, <1>6, <2>1, <2>2
  <2>4. /\ SavesKept /\ Progress'
        /\ \A v \in DOMAIN job' : /\ job'[v].day <= today
                                  /\ job'[v].at = "save" => job'[v].draft.day <= today
    BY <1>3, <2>2, <2>3, Moves
  <2>5. ASSUME NEW a \in Accounts
        PROVE  FiniteS(a)' /\ SSum(a) = SSum(a)' + TakenOff(w, some, a)
    <3>1. /\ FiniteS(a)'
          /\ SSum(a) + Settles(job'[w], a, today) = SSum(a)' + Settles(job[w], a, today)
      BY <1>3, <2>2, SumMoves
    <3>4. /\ Settles(job'[w], a, today) \in Nat
          /\ Settles(job[w], a, today) =
               Settles(job'[w], a, today) + TakenOff(w, some, a)
      <4> DEFINE j == job[w]
                 k == job'[w]
      <4>1. /\ SameCall(k, j) /\ j.call = "settle" /\ j.held \in Nat
            /\ some \subseteq Books(j.who) /\ some \cap j.applied = {}
            /\ k.applied = j.applied \cup some
        BY <1>2, <2>2 DEF NextPipeline
      <4> HIDE DEF j, k
      <4>2. /\ Settles(k, a, today) \in Nat
            /\ Settles(j, a, today) =
                 Settles(k, a, today) + (IF a \in some /\ j.day = today THEN j.held ELSE 0)
        BY <4>1, TakesOff
      <4> QED
        BY <4>2 DEF TakenOff, j, k
    <3>5. TakenOff(w, some, a) \in Nat
      BY <1>2 DEF TakenOff
    <3>6. SSum(a)' \in Nat /\ SSum(a) \in Nat
      BY <3>1, FS_CardinalityType, Numbers DEF FiniteS, SSum
    <3> QED
      BY <3>1, <3>4, <3>5, <3>6
  <2> QED
    BY <2>2, <2>4, <2>5
<1>7. CASE /\ to # "done" /\ UNCHANGED faults
           /\ job' = [job EXCEPT ![w].at = to, ![w].applied = @ \cup some]
  <2>1. to = "redis key"
    BY <1>7 DEF NextPipeline
  <2>2. faults' \in Nat /\ (Still' => Still)
    BY <1>1, <1>3, <1>7 DEF Dated, Still
  <2>3. \A v \in DOMAIN job' :
           v \in DOMAIN job /\ (job'[v] = job[v] \/
              (job'[v].at = "redis key" /\ job'[v].day = job[v].day))
    BY <1>6, <1>7, <2>1 DEF OthersKept, SameCall
  <2> QED
    BY <1>6, <1>7, <2>1, <2>2, <2>3
<1>8. CASE /\ Fault
           /\ job' = [job EXCEPT ![w].at = "load", ![w].applied = @ \cup some]
  <2>1. faults' \in Nat /\ ~Still'
    BY <1>8, FaultEndsStill
  <2>2. /\ JobsOK' /\ SavesKept /\ Progress'
        /\ \A v \in DOMAIN job' : /\ job'[v].day <= today
                                  /\ job'[v].at = "save" => job'[v].draft.day <= today
        /\ \A a \in Accounts : /\ FiniteS(a)'
                               /\ SSum(a) = SSum(a)' + TakenOff(w, some, a)
    <3>1. PICK place : place = "load"
      OBVIOUS
    <3>2. job' = [job EXCEPT ![w].at = place, ![w].applied = @ \cup some]
      BY <1>8, <3>1
    <3>3. place # "redis key"
      BY <3>1
    <3> QED
      BY <1>6, <3>1, <3>2, <3>3
  <2> QED
    BY <2>1, <2>2
<1> QED
  BY <1>5, <1>7, <1>8 DEF Pipeline


\* What a pipeline moves on account a, in Redis and in the auditor's books.
LEMMA PipelineBooks ==
    ASSUME IInv, NEW w \in DOMAIN job, NEW from, NEW some, NEW to,
           NextPipeline(w, some, to), Pipeline(w, from, some, to)
    PROVE  LET n    == job[w].used - job[w].held
               late == IF job[w].day = today THEN 0 ELSE job[w].held
           IN  /\ BooksOK'
               /\ \A d \in 1 .. MaxDay : d # today => redis'[d] = redis[d]
               /\ \A a \in Accounts :
                     IF a \in some
                     THEN /\ redis'[today][a] = redis[today][a] + n
                          /\ charged'[a] = charged[a] + job[w].used
                          /\ over'[a] = over[a] + FloorAtZero(n)
                          /\ stray'[a] = stray[a] + late
                     ELSE /\ redis'[today][a] = redis[today][a]
                          /\ charged'[a] = charged[a]
                          /\ over'[a] = over[a]
                          /\ stray'[a] = stray[a]
<1> DEFINE n    == job[w].used - job[w].held
           late == IF job[w].day = today THEN 0 ELSE job[w].held
<1>1. TypeOK
  BY DEF IInv
<1>2. /\ job[w].used \in Nat /\ job[w].held \in Nat
  BY <1>1, CallParts
<1>3. n \in Int /\ late \in Nat
  BY <1>2
<1>4. FloorAtZero(n) \in Nat
  BY <1>3, FloorType
<1>5. some \ job[w].applied = some
  BY DEF NextPipeline
<1>6. /\ OnRedis(some, n) /\ file' = file
      /\ charged' = Add(charged, some, job[w].used)
      /\ over' = Add(over, some, FloorAtZero(n))
      /\ stray' = Add(stray, some, late)
  BY <1>5 DEF Pipeline, Settled
<1> HIDE DEF n, late
<1>7. /\ redis' \in [1 .. MaxDay -> [Accounts -> Int]]
      /\ \A d \in 1 .. MaxDay : d # today => redis'[d] = redis[d]
      /\ \A a \in Accounts :
            redis'[today][a] = IF a \in some THEN redis[today][a] + n
                                             ELSE redis[today][a]
  BY <1>3, <1>6, RedisBooks
<1>8. /\ charged \in [Accounts -> Nat] /\ over \in [Accounts -> Nat]
      /\ stray \in [Accounts -> Nat] /\ file \in Ledger
  BY <1>1 DEF TypeOK
<1>9. charged' \in [Accounts -> Nat]
  <2>1. job[w].used \in Nat /\ job[w].used \in Int
    BY <1>2
  <2> QED
    BY <1>6, <1>8, <2>1, AddType
<1>10. over' \in [Accounts -> Nat]
  BY <1>4, <1>6, <1>8, AddType
<1>11. stray' \in [Accounts -> Nat]
  BY <1>3, <1>6, <1>8, AddType
<1>12. BooksOK'
  BY <1>6, <1>7, <1>8, <1>9, <1>10, <1>11 DEF BooksOK
<1>13. ASSUME NEW a \in Accounts
       PROVE  IF a \in some
              THEN /\ redis'[today][a] = redis[today][a] + n
                   /\ charged'[a] = charged[a] + job[w].used
                   /\ over'[a] = over[a] + FloorAtZero(n)
                   /\ stray'[a] = stray[a] + late
              ELSE /\ redis'[today][a] = redis[today][a]
                   /\ charged'[a] = charged[a]
                   /\ over'[a] = over[a]
                   /\ stray'[a] = stray[a]
  BY <1>6, <1>7, AddAt
<1> QED
  BY <1>7, <1>12, <1>13 DEF n, late

(* One pipeline: Redis moves by actual minus reserved on the accounts of   *)
(* its bucket, what is owed on them by the actual usage, and the estimate  *)
(* is off.                                                                 *)
LEMMA StepPipeline ==
    ASSUME IInv, NEW w \in DOMAIN job, NEW from, NEW some, NEW to,
           NextPipeline(w, some, to), Pipeline(w, from, some, to)
    PROVE  IInv'
<1> DEFINE n    == job[w].used - job[w].held
           late == IF job[w].day = today THEN 0 ELSE job[w].held
<1>1. TypeOK /\ Dated /\ today \in Nat
  BY TodayType DEF IInv
<1>2. UNCHANGED <<today, redisUp, health, file, reservations, issued, outages>>
  BY DEF Pipeline
<1>3. HeldOK' /\ WorldOK'
  BY <1>1, <1>2 DEF TypeOK, HeldOK, WorldOK
<1>4. /\ JobsOK' /\ SavesKept /\ Progress' /\ faults' \in Nat
      /\ \A v \in DOMAIN job' : /\ job'[v].day <= today
                                /\ job'[v].at = "save" => job'[v].draft.day <= today
      /\ Still' => /\ Still
                   /\ \A v \in DOMAIN job' :
                         v \in DOMAIN job /\ (job'[v] = job[v] \/
                            (job'[v].at = "redis key" /\ job'[v].day = job[v].day))
      /\ \A a \in Accounts : /\ FiniteS(a)'
                             /\ SSum(a) = SSum(a)' + TakenOff(w, some, a)
  BY PipelineCall
<1>5. /\ BooksOK'
      /\ \A d \in 1 .. MaxDay : d # today => redis'[d] = redis[d]
      /\ \A a \in Accounts :
            IF a \in some
            THEN /\ redis'[today][a] = redis[today][a] + n
                 /\ charged'[a] = charged[a] + job[w].used
                 /\ over'[a] = over[a] + FloorAtZero(n)
                 /\ stray'[a] = stray[a] + late
            ELSE /\ redis'[today][a] = redis[today][a]
                 /\ charged'[a] = charged[a]
                 /\ over'[a] = over[a]
                 /\ stray'[a] = stray[a]
  BY PipelineBooks
<1>6. job[w].used \in Nat /\ job[w].held \in Nat
  BY <1>1, CallParts
<1>7. n = job[w].used - job[w].held /\ n \in Int /\ late \in Nat
  BY <1>6
<1>8. job[w].day = today => late = 0
  OBVIOUS
<1>9. ASSUME NEW a \in Accounts
      PROVE  IF a \in some THEN TakenOff(w, some, a) + late = job[w].held
                           ELSE TakenOff(w, some, a) = 0
  BY <1>6 DEF TakenOff
<1> HIDE DEF n, late
<1>10. ASSUME NEW a \in Accounts
       PROVE  /\ FiniteR(a)' /\ FiniteS(a)' /\ Owed(a)' \in Nat
              /\ Owed(a)' + redis[today][a] + stray[a] = Owed(a) + redis'[today][a] + stray'[a]
  <2> DEFINE t == TakenOff(w, some, a)
  <2>1. /\ FiniteS(a)' /\ SSum(a) = SSum(a)' + t /\ t \in Nat
    BY <1>4, <1>6 DEF TakenOff
  <2>2. FiniteR(a)' /\ RSum(a)' = RSum(a)
    BY <1>2, SumKept
  <2>3. SSum(a)' \in Nat
    BY <2>1, FS_CardinalityType DEF FiniteS, SSum
  <2>4. Owed(a)' = charged'[a] + (RSum(a)' + SSum(a)')
    BY DEF Owed, Outstanding, RSum, SSum
  <2>5. /\ Owed(a) = charged[a] + (RSum(a) + SSum(a)) /\ charged[a] \in Nat
        /\ RSum(a) \in Nat /\ SSum(a) \in Nat
        /\ redis[today][a] \in Int /\ stray[a] \in Nat
    BY Sums, Numbers
  <2>6. charged'[a] \in Nat
    BY <1>5 DEF BooksOK
  <2>7. CASE a \in some
    <3>1. t + late = job[w].held
      BY <1>9, <2>7
    <3>2. /\ redis'[today][a] = redis[today][a] + n
          /\ charged'[a] = charged[a] + job[w].used
          /\ stray'[a] = stray[a] + late
      BY <1>5, <2>7
    <3> HIDE DEF t
    <3> QED
      BY <1>6, <1>7, <2>1, <2>2, <2>3, <2>4, <2>5, <2>6, <3>1, <3>2
  <2>8. CASE a \notin some
    <3>1. t = 0
      BY <1>9, <2>8
    <3>2. /\ redis'[today][a] = redis[today][a]
          /\ charged'[a] = charged[a] /\ stray'[a] = stray[a]
      BY <1>5, <2>8
    <3> HIDE DEF t
    <3> QED
      BY <2>1, <2>2, <2>3, <2>4, <2>5, <2>6, <3>1, <3>2
  <2> QED
    BY <2>7, <2>8
<1>11. ASSUME NEW a \in Accounts, Cap[a] > NoCap
       PROVE  Excess(a, redis'[today][a]) + over[a] <= Excess(a, redis[today][a]) + over'[a]
  <2>1. redis[today][a] \in Int /\ over[a] \in Nat /\ Cap[a] \in Int
    BY Numbers
  <2>2. CASE a \in some
    <3>1. /\ redis'[today][a] = redis[today][a] + n
          /\ over'[a] = over[a] + FloorAtZero(n)
      BY <1>5, <2>2
    <3> QED
      BY <1>7, <2>1, <3>1 DEF Excess, FloorAtZero
  <2>3. CASE a \notin some
    <3>1. redis'[today][a] = redis[today][a] /\ over'[a] = over[a]
      BY <1>5, <2>3
    <3>2. Excess(a, redis[today][a]) \in Nat
      BY <2>1, FloorType DEF Excess
    <3> QED
      BY <2>1, <3>1, <3>2
  <2> QED
    BY <2>2, <2>3
<1>12. Counted'
  <2>1. ASSUME NEW a \in Accounts PROVE (Finite(a) /\ Covered(a) /\ Within(a))'
    <3>1. /\ redis'[today][a] \in Int /\ over'[a] \in Nat /\ stray'[a] \in Nat
      BY <1>1, TodayType, <1>5 DEF BooksOK
    <3>2. Owed(a)' + redis[today][a] + stray[a] <= Owed(a) + redis'[today][a] + stray'[a]
      BY <1>10, <3>1, Numbers
    <3> QED
      BY <1>2, <1>4, <1>10, <1>11, <3>1, <3>2, BooksMove
  <2> QED
    BY <2>1 DEF Counted
<1>13. Dated'
  <2>1. \A d \in 1 .. MaxDay : d > today => redis'[d] = Empty
    BY <1>1, <1>5 DEF Dated
  <2> QED
    BY <1>1, <1>2, <1>4, <2>1 DEF Dated
<1>14. Quiet'
  <2> SUFFICES ASSUME Still' PROVE OnRedisOnly' /\ Exact'
    BY DEF Quiet
  <2>1. Still
    BY <1>4
  <2>2. OnRedisOnly /\ Exact /\ today = 1 /\ today' = 1
    BY <1>2, <2>1 DEF IInv, Quiet, Still
  <2>3. OnRedisOnly'
    <3>1. \A v \in DOMAIN job' : /\ job'[v].at \in {"redis", "redis key"}
                                 /\ job'[v].day = 1
      BY <1>4, <2>2 DEF OnRedisOnly
    <3>2. redisUp'
      BY DEF Pipeline
    <3> QED
      BY <1>2, <2>2, <3>1, <3>2 DEF OnRedisOnly
  <2>4. late = 0
    BY <1>8, <2>2 DEF OnRedisOnly
  <2>5. ASSUME NEW a \in Accounts PROVE redis'[1][a] = Owed(a)'
    <3>1. stray[a] \in Nat /\ redis[1][a] = Owed(a) /\ Owed(a) \in Nat
      BY <2>2, Numbers DEF Exact
    <3>2. stray'[a] = stray[a]
      BY <1>5, <2>4, <3>1
    <3>3. redis'[1][a] \in Int
      BY <1>1, <1>5, <2>2, TodayType DEF BooksOK
    <3> QED
      BY <1>10, <2>2, <3>1, <3>2, <3>3
  <2> QED
    BY <2>3, <2>5 DEF Exact
<1> QED
  BY <1>3, <1>4, <1>5, <1>12, <1>13, <1>14, TypePartsNext DEF IInv

LEMMA StepSettleGlobal ==
    ASSUME IInv, NEW w \in Workers, SettleGlobal(w)
    PROVE  IInv'
<1> DEFINE to == IF job[w].who = Global THEN "done" ELSE "redis key"
<1>1. Pipeline(w, "redis", {Global}, to)
  BY DEF SettleGlobal
<1>2. w \in DOMAIN job /\ job[w].at = "redis"
  BY <1>1 DEF Pipeline, At
<1>3. job[w].applied = {} /\ job[w].who \in Accounts
  BY <1>2, CallParts DEF IInv, Progress
<1>4. NextPipeline(w, {Global}, to)
  BY <1>3 DEF NextPipeline, Books, Accounts
<1> QED
  BY <1>1, <1>2, <1>4, StepPipeline

LEMMA StepSettleKey ==
    ASSUME IInv, NEW w \in Workers, SettleKey(w)
    PROVE  IInv'
<1>1. Pipeline(w, "redis key", {job[w].who}, "done")
  BY DEF SettleKey
<1>2. w \in DOMAIN job /\ job[w].at = "redis key"
  BY <1>1 DEF Pipeline, At
<1>3. job[w].applied = {Global} /\ job[w].who # Global
  BY <1>2, SharedAssumption DEF IInv, Progress, TypeOK
<1>4. NextPipeline(w, {job[w].who}, "done")
  BY <1>3 DEF NextPipeline, Books
<1> QED
  BY <1>1, <1>2, <1>4, StepPipeline


-----------------------------------------------------------------------------
(* The file.                                                               *)

\* Nobody is at the file while all is still.
LEMMA FileIsNotStill ==
    ASSUME IInv, NEW w \in DOMAIN job, job[w].at \in {"load", "save"},
           UNCHANGED <<today, health, outages, faults>>
    PROVE  ~Still'
<1> SUFFICES ASSUME Still' PROVE FALSE
  OBVIOUS
<1>1. Still
  BY DEF Still
<1>2. job[w].at \in {"redis", "redis key"}
  BY <1>1 DEF IInv, Quiet, OnRedisOnly
<1> QED
  BY <1>2

LEMMA StepDraft ==
    ASSUME IInv, NEW w \in DOMAIN job, job[w].at = "load",
           job[w].call = "reserve" => CapsAllow(Load(today), job[w].who, job[w].held),
           job' = [job EXCEPT ![w].at = "save",
                              ![w].draft = [day |-> today, spent |-> Load(today)]],
           UNCHANGED <<today, redisUp, health, redis, file, reservations, issued,
                       outages, faults>>,
           UNCHANGED <<charged, over, stray>>
    PROVE  IInv'
<1> DEFINE d == [day |-> today, spent |-> Load(today)]
<1>1. TypeOK /\ Progress /\ Dated /\ today \in Nat
  BY TodayType DEF IInv
<1>2. d \in Ledger
  BY <1>1, LoadType DEF Ledger
<1>3. job' = [job EXCEPT ![w].at = "save", ![w].draft = d]
  OBVIOUS
<1> HIDE DEF d
<1>4. /\ JobsOK' /\ DOMAIN job' = DOMAIN job /\ OthersKept(w)
      /\ SameCall(job'[w], job[w]) /\ job'[w].at = "save"
      /\ job'[w].applied = job[w].applied /\ job'[w].draft = d
  BY <1>1, <1>2, <1>3, Drafts
<1>5. /\ SavesKept /\ Progress'
      /\ \A v \in DOMAIN job' : /\ job'[v].day <= today
                                /\ job'[v].at = "save" => job'[v].draft.day <= today
  BY <1>4, Moves DEF d
<1>6. HeldOK' /\ WorldOK'
  BY <1>1 DEF TypeOK, HeldOK, WorldOK
<1>7. BooksOK' /\ Counted'
  <2>1. ASSUME NEW a \in Accounts
        PROVE  /\ FiniteR(a)' /\ FiniteS(a)'
               /\ RSum(a)' + SSum(a)' = RSum(a) + SSum(a)
    <3>1. /\ FiniteS(a)'
          /\ SSum(a) + Settles(job'[w], a, today) = SSum(a)' + Settles(job[w], a, today)
      BY <1>4, SumMoves
    <3>2. Settles(job'[w], a, today) = Settles(job[w], a, today)
      BY <1>4 DEF SameCall, Settles, Pending, Booked
    <3>3. SSum(a)' \in Nat /\ Settles(job[w], a, today) \in Nat
      BY <1>1, <3>1, ShareType, FS_CardinalityType DEF FiniteS, SSum
    <3>4. SSum(a)' = SSum(a)
      BY <3>1, <3>2, <3>3, Numbers
    <3>5. FiniteR(a)' /\ RSum(a)' = RSum(a)
      BY SumKept
    <3> QED
      BY <3>1, <3>4, <3>5
  <2> QED
    BY <1>5, <2>1, BooksKept
<1>8. Dated'
  BY <1>1, <1>5 DEF Dated
<1>9. ~Still'
  BY FileIsNotStill
<1> QED
  BY <1>4, <1>5, <1>6, <1>7, <1>8, <1>9, TypePartsNext DEF IInv, Quiet

LEMMA StepFileLoad ==
    ASSUME IInv, NEW w \in Workers, FileLoad(w)
    PROVE  IInv'
<1>1. /\ w \in DOMAIN job /\ job[w].at = "load"
      /\ UNCHANGED <<today, redisUp, health, redis, file, reservations, issued,
                     outages, faults>>
      /\ UNCHANGED <<charged, over, stray>>
  BY DEF FileLoad, At, bookkeeping
<1>2. CASE job[w].call = "reserve" /\ Finish(w)
  BY <1>1, <1>2, StepRefused
<1>3. CASE /\ job[w].call = "reserve" => CapsAllow(Load(today), job[w].who, job[w].held)
           /\ job' = [job EXCEPT ![w].at = "save",
                                 ![w].draft = [day |-> today, spent |-> Load(today)]]
  BY <1>1, <1>3, StepDraft
<1> QED
  BY <1>2, <1>3 DEF FileLoad

(* A draft replaces the file: the caps hold on the file if they do on the  *)
(* draft with the change applied.                                          *)
LEMMA WithinSaved ==
    ASSUME IInv, NEW a \in Accounts, today' = today, redis' = redis,
           \A v \in DOMAIN job' : v \in DOMAIN job /\ job'[v] = job[v],
           over'[a] \in Nat, over[a] <= over'[a], NEW l \in Nat, Load(today)'[a] = l,
           Cap[a] > NoCap => Excess(a, redis[today][a]) + Excess(a, l) <= over'[a]
    PROVE  Within(a)'
<1> SUFFICES ASSUME Cap[a] > NoCap
             PROVE  /\ Excess(a, redis[today][a]) + Excess(a, Load(today)'[a]) <= over'[a]
                    /\ \A v \in DOMAIN job' :
                          job'[v].at = "save" /\ job'[v].draft.day = today =>
                            Excess(a, redis[today][a]) + Excess(a, job'[v].draft.spent[a])
                              <= over'[a]
  BY DEF Within, Excess
<1>1. ASSUME NEW v \in DOMAIN job', job'[v].at = "save", job'[v].draft.day = today
      PROVE  Excess(a, redis[today][a]) + Excess(a, job'[v].draft.spent[a]) <= over'[a]
  <2>1. v \in DOMAIN job /\ job'[v] = job[v]
    OBVIOUS
  <2>2. Excess(a, redis[today][a]) + Excess(a, job[v].draft.spent[a]) <= over[a]
    BY <1>1, <2>1, Numbers DEF Within
  <2>3. job[v].draft.spent \in [Accounts -> Nat]
    BY <2>1, CallParts DEF IInv
  <2>4. /\ Excess(a, redis[today][a]) \in Nat /\ Excess(a, job[v].draft.spent[a]) \in Nat
    BY <2>3, Numbers, FloorType DEF Excess
  <2>5. over[a] \in Nat
    BY Numbers
  <2> QED
    BY <2>1, <2>2, <2>4, <2>5
<1> QED
  BY <1>1


\* Account a in the file once draft d of a change by n to who is saved.
Saved(d, who, n, a) ==
    IF d.day = today
    THEN IF a \in Books(who) THEN FloorAtZero(d.spent[a] + n) ELSE d.spent[a]
    ELSE 0

LEMMA SavedFile ==
    ASSUME IInv, NEW d \in Ledger, d.day <= today, NEW who, NEW n \in Int,
           file' = [day |-> d.day, spent |-> Bump(d.spent, who, n)], today' = today
    PROVE  /\ file' \in Ledger /\ file'.day <= today'
           /\ \A a \in Accounts : /\ Load(today)'[a] = Saved(d, who, n, a)
                                  /\ Saved(d, who, n, a) \in Nat
<1>1. d.day \in Nat /\ d.spent \in [Accounts -> Nat]
  BY DEF Ledger
<1>2. Bump(d.spent, who, n) \in [Accounts -> Nat]
  BY <1>1, BumpType
<1>3. file' \in Ledger /\ file'.day <= today'
  BY <1>1, <1>2 DEF Ledger
<1>4. Load(today)' = IF d.day = today THEN Bump(d.spent, who, n) ELSE Empty
  BY DEF Load
<1>5. ASSUME NEW a \in Accounts
      PROVE  Load(today)'[a] = Saved(d, who, n, a) /\ Saved(d, who, n, a) \in Nat
  <2>1. Load(today)'[a] = Saved(d, who, n, a)
    BY <1>4 DEF Saved, Bump, Empty
  <2>2. Load(today)'[a] \in Nat
    BY <1>2, <1>4 DEF Empty
  <2> QED
    BY <2>1, <2>2
<1> QED
  BY <1>3, <1>5

\* What a draft that was loaded today leaves room for.
LEMMA DraftWithin ==
    ASSUME IInv, NEW w \in DOMAIN job, job[w].at = "save", NEW a \in Accounts,
           Cap[a] > NoCap, job[w].draft.day = today
    PROVE  /\ job[w].draft.spent[a] \in Nat
           /\ Excess(a, redis[today][a]) + Excess(a, job[w].draft.spent[a]) <= over[a]
<1>1. job[w].draft.spent \in [Accounts -> Nat]
  BY CallParts DEF IInv
<1> QED
  BY <1>1, Numbers DEF Within

\* What is lost of the file when a draft replaces it.
LEMMA Loses ==
    ASSUME IInv, NEW d \in Ledger, NEW a \in Accounts
    PROVE  /\ d.spent[a] \in Nat /\ Overwritten(d)[a] \in Nat
           /\ d.day = today => Load(today)[a] - d.spent[a] <= Overwritten(d)[a]
           /\ d.day # today => Overwritten(d)[a] = Load(today)[a]
<1>1. d.spent[a] \in Nat /\ Load(today)[a] \in Nat
  BY Numbers DEF Ledger
<1>2. Overwritten(d)[a] =
        FloorAtZero(Load(today)[a] - (IF d.day = today THEN d.spent[a] ELSE 0))
  BY DEF Overwritten
<1> QED
  BY <1>1, <1>2 DEF FloorAtZero

(* An estimate is booked in the file.                                      *)
LEMMA StepSaveEstimate ==
    ASSUME IInv, NEW w \in DOMAIN job, job[w].at = "save", job[w].call = "reserve",
           file' = [day   |-> job[w].draft.day,
                    spent |-> Bump(job[w].draft.spent, job[w].who, job[w].held)],
           Store(w, job[w].draft.day), Finish(w),
           stray' = [a \in Accounts |-> stray[a] + Overwritten(job[w].draft)[a]],
           UNCHANGED <<charged, over>>,
           UNCHANGED <<today, redisUp, health, redis, issued, outages, faults>>
    PROVE  IInv'
<1> DEFINE d == job[w].draft
           h == job[w].held
<1>1. TypeOK /\ Progress /\ Dated /\ today \in Nat
  BY TodayType DEF IInv
<1>2. /\ d \in Ledger /\ d.day \in Nat /\ d.day <= today /\ d.spent \in [Accounts -> Nat]
  BY <1>1, CallParts DEF Dated
<1>3. /\ HeldOK' /\ \A r \in DOMAIN reservations' : reservations'[r].day <= today
      /\ \A v \in DOMAIN job \ {w} :
            job[v].call = "reserve" => job[v].rid \notin DOMAIN reservations'
  BY <1>2, Stores
<1>4. /\ JobsOK' /\ Progress'
      /\ \A v \in DOMAIN job' : v \in DOMAIN job /\ job'[v] = job[v]
      /\ \A v \in DOMAIN job' : /\ job'[v].day <= today
                                /\ job'[v].at = "save" => job'[v].draft.day <= today
  BY <1>3, Ends DEF Finish
<1>5. WorldOK'
  BY <1>1 DEF TypeOK, WorldOK
<1>6. h \in Nat /\ h \in Int
  <2>1. h \in Nat
    BY <1>1, CallParts
  <2> QED
    BY <2>1
<1>7. /\ file' \in Ledger /\ file'.day <= today'
      /\ \A a \in Accounts : /\ Load(today)'[a] = Saved(d, job[w].who, h, a)
                             /\ Saved(d, job[w].who, h, a) \in Nat
  BY <1>2, <1>6, SavedFile
<1>8. ASSUME NEW a \in Accounts
      PROVE  /\ stray'[a] = stray[a] + Overwritten(d)[a]
             /\ stray'[a] \in Nat
  BY Numbers, <1>2, Loses
<1>9. BooksOK'
  <2>1. stray' \in [Accounts -> Nat]
    BY <1>8
  <2> QED
    BY <1>1, <1>7, <2>1 DEF TypeOK, BooksOK
<1>10. ASSUME NEW a \in Accounts
       PROVE  /\ FiniteR(a)' /\ FiniteS(a)'
              /\ Owed(a)' = Owed(a) + (IF d.day = today /\ a \in Books(job[w].who)
                                       THEN h ELSE 0)
  <2> DEFINE e == [worker |-> w, who |-> job[w].who, held |-> h, day |-> d.day]
             c == IF d.day = today /\ a \in Books(job[w].who) THEN h ELSE 0
  <2>1. Reserves(e, a, today) = c /\ e.held \in Nat
    BY <1>6 DEF Reserves, Booked
  <2>2. /\ reservations' = With(reservations, job[w].rid, e)
        /\ job[w].rid \notin DOMAIN reservations
    BY <1>2, Stores
  <2>3. c \in Nat
    BY <1>6
  <2> HIDE DEF e, c
  <2>4. FiniteR(a)' /\ RSum(a)' = RSum(a) + Reserves(e, a, today)
    BY <2>1, <2>2, SumStored
  <2>5. FiniteS(a)' /\ SSum(a) = SSum(a)' + Settles(job[w], a, today)
    BY SumEnds DEF Finish
  <2>6. SSum(a)' \in Nat
    BY <2>5, FS_CardinalityType DEF FiniteS, SSum
  <2>7. SSum(a)' = SSum(a)
    BY <2>5, <2>6, ReserveHoldsNothing
  <2>8. Owed(a)' = charged[a] + (RSum(a)' + SSum(a)')
    <3>1. Owed(a)' = charged'[a] + (RSum(a)' + SSum(a)')
      BY DEF Owed, Outstanding, RSum, SSum
    <3> QED
      BY <3>1
  <2>9. Owed(a) = charged[a] + (RSum(a) + SSum(a)) /\ charged[a] \in Nat
        /\ RSum(a) \in Nat /\ SSum(a) \in Nat
    BY Sums, Numbers
  <2>10. Owed(a)' = Owed(a) + c
    BY <2>1, <2>3, <2>4, <2>7, <2>8, <2>9
  <2> QED
    BY <2>4, <2>5, <2>10 DEF c
<1>11. ASSUME NEW a \in Accounts PROVE (Finite(a) /\ Covered(a) /\ Within(a))'
  <2> DEFINE l == Saved(d, job[w].who, h, a)
             D == d.spent[a]
             V == Load(today)[a]
             O == Overwritten(d)[a]
  <2>1. /\ l \in Nat /\ Load(today)'[a] = l
    BY <1>7
  <2>2. /\ D \in Nat /\ V \in Nat /\ O \in Nat
        /\ d.day = today => V - D <= O
        /\ d.day # today => O = V
    BY <1>2, Loses, Numbers
  <2>3. /\ redis[today][a] \in Int /\ stray[a] \in Nat /\ Owed(a) \in Nat
        /\ Owed(a) <= (redis[today][a] + V) + stray[a]
    BY Numbers DEF Covered, Total
  <2>4. l = IF d.day = today
            THEN IF a \in Books(job[w].who) THEN FloorAtZero(D + h) ELSE D
            ELSE 0
    BY DEF Saved
  <2>5. Total(a)' = redis[today][a] + l
    BY <2>1 DEF Total
  <2>6. Covered(a)'
    <3>1. Owed(a)' <= (redis[today][a] + l) + stray'[a]
      <4> HIDE DEF l, D, V, O, d, h
      <4>1. CASE d.day = today /\ a \in Books(job[w].who)
        <5>1. Owed(a)' = Owed(a) + h /\ l = D + h
          BY <1>6, <1>10, <2>2, <2>4, <4>1 DEF FloorAtZero
        <5> QED
          BY <1>6, <1>8, <2>2, <2>3, <4>1, <5>1 DEF O
      <4>2. CASE d.day = today /\ a \notin Books(job[w].who)
        <5>1. Owed(a)' = Owed(a) /\ l = D
          BY <1>10, <2>3, <2>4, <4>2
        <5> QED
          BY <1>8, <2>2, <2>3, <4>2, <5>1 DEF O
      <4>3. CASE d.day # today
        <5>1. Owed(a)' = Owed(a) /\ l = 0
          BY <1>10, <2>3, <2>4, <4>3
        <5> QED
          BY <1>8, <2>2, <2>3, <4>3, <5>1 DEF O
      <4> QED
        BY <4>1, <4>2, <4>3
    <3> QED
      BY <2>5, <3>1 DEF Covered
  <2>7. ASSUME Cap[a] > NoCap
        PROVE  Excess(a, redis[today][a]) + Excess(a, l) <= over[a]
    <3>1. Cap[a] \in Int /\ over[a] \in Nat
      BY Numbers
    <3>2. /\ Excess(a, redis[today][a]) \in Nat
          /\ Excess(a, redis[today][a]) <= over[a]
      <4>1. /\ Excess(a, redis[today][a]) \in Nat /\ Excess(a, V) \in Nat
            /\ Excess(a, redis[today][a]) + Excess(a, V) <= over[a]
        BY <2>2, <2>3, <2>7, <3>1, Numbers, FloorType DEF Excess, Within
      <4> QED
        BY <3>1, <4>1
    <3>3. CASE d.day = today /\ a \in Books(job[w].who)
      <4>1. D + h <= Cap[a]
        BY <1>1, <2>7, <3>3 DEF Progress, CapsAllow
      <4>2. Excess(a, l) = 0
        <5> HIDE DEF l, D, h
        <5> QED
          BY <1>6, <2>2, <2>4, <3>1, <3>3, <4>1 DEF Excess, FloorAtZero
      <4> QED
        BY <3>1, <3>2, <4>2
    <3>4. CASE d.day = today /\ a \notin Books(job[w].who)
      <4>1. l = D
        BY <2>4, <3>4
      <4> QED
        BY <2>7, <3>4, <4>1, DraftWithin
    <3>5. CASE d.day # today
      <4>1. l = 0
        BY <2>4, <3>5
      <4>2. Excess(a, l) = 0
        BY <2>7, <3>1, <4>1 DEF Excess, FloorAtZero, NoCap
      <4> QED
        BY <3>1, <3>2, <4>2
    <3> QED
      BY <3>3, <3>4, <3>5
  <2>8. Within(a)'
    <3>1. over'[a] = over[a] /\ over[a] \in Nat /\ over[a] <= over'[a]
      BY Numbers
    <3> HIDE DEF l
    <3> QED
      BY <1>4, <2>1, <2>7, <3>1, WithinSaved
  <2>9. Finite(a)'
    BY <1>10 DEF Finite, FiniteR, FiniteS
  <2> QED
    BY <2>6, <2>8, <2>9
<1>12. Counted'
  BY <1>11 DEF Counted
<1>13. Dated'
  BY <1>1, <1>3, <1>4, <1>7 DEF Dated
<1>14. ~Still'
  BY FileIsNotStill
<1> QED
  BY <1>3, <1>4, <1>5, <1>9, <1>12, <1>13, <1>14, TypePartsNext DEF IInv, Quiet


(* The auditor's entries on account a for a change saved in the file.      *)
LEMMA SettledInFile ==
    ASSUME IInv, NEW w \in DOMAIN job, job[w].call = "settle", job[w].draft \in Ledger,
           FileSave(w), NEW a \in Accounts
    PROVE  LET j     == job[w]
               mine  == j.draft.day = today /\ a \in Books(j.who)
               fresh == mine /\ a \notin j.applied
           IN  /\ charged'[a] = charged[a] + (IF fresh THEN j.used ELSE 0)
               /\ over'[a] = over[a] + (IF mine THEN FloorAtZero(j.used - j.held) ELSE 0)
               /\ stray'[a] = stray[a] + Overwritten(j.draft)[a]
                    + (IF fresh /\ j.day # today THEN j.held ELSE 0)
                    + (IF mine /\ a \in j.applied
                       THEN FloorAtZero(j.held - j.used) ELSE 0)
<1> DEFINE j     == job[w]
           d     == j.draft
           mine  == d.day = today /\ a \in Books(j.who)
           new   == IF d.day = today THEN Books(j.who) \ j.applied ELSE {}
           both  == IF d.day = today THEN Books(j.who) ELSE {}
           twice == IF d.day = today THEN Books(j.who) \cap j.applied ELSE {}
           late  == IF j.day = today THEN 0 ELSE j.held
           lost  == [x \in Accounts |-> stray[x] + Overwritten(d)[x]]
           o     == FloorAtZero(j.used - j.held)
           t     == FloorAtZero(j.held - j.used)
<1>1. /\ charged' = Add(charged, new, j.used)
      /\ over' = Add(over, both, o)
      /\ stray' = Add(Add(lost, new, late), twice, t)
  BY DEF FileSave
<1>2. /\ a \in new <=> mine /\ a \notin j.applied
      /\ a \in both <=> mine
      /\ a \in twice <=> mine /\ a \in j.applied
  OBVIOUS
<1>3. lost[a] = stray[a] + Overwritten(d)[a]
  OBVIOUS
<1>4. /\ charged[a] \in Nat /\ over[a] \in Nat /\ stray[a] \in Nat
      /\ Overwritten(d)[a] \in Nat
  BY Numbers, Loses
<1>5. /\ j.used \in Nat /\ j.held \in Nat /\ o \in Nat /\ t \in Nat /\ late \in Nat
  <2>1. j.used \in Nat /\ j.held \in Nat
    BY CallParts DEF IInv
  <2>2. j.used - j.held \in Int /\ j.held - j.used \in Int
    BY <2>1
  <2> QED
    BY <2>1, <2>2, FloorType
<1>6. late = IF j.day # today THEN j.held ELSE 0
  OBVIOUS
<1> HIDE DEF new, both, twice, lost, o, t, mine, d, late
<1>7. charged'[a] = charged[a] + (IF mine /\ a \notin j.applied THEN j.used ELSE 0)
  BY <1>1, <1>2, <1>4, AddAt
<1>8. over'[a] = over[a] + (IF mine THEN o ELSE 0)
  BY <1>1, <1>2, <1>4, AddAt
<1>9. Add(lost, new, late)[a] = lost[a] + (IF mine /\ a \notin j.applied THEN late ELSE 0)
  <2>1. lost[a] \in Nat
    BY <1>3, <1>4
  <2> QED
    BY <1>2, <2>1, AddAt
<1>10. stray'[a] = Add(lost, new, late)[a] + (IF mine /\ a \in j.applied THEN t ELSE 0)
  <2>1. Add(lost, new, late)[a] \in Nat
    BY <1>3, <1>4, <1>5, <1>9
  <2>2. stray'[a] = IF a \in twice THEN Add(lost, new, late)[a] + t
                    ELSE Add(lost, new, late)[a]
    BY <1>1, AddAt
  <2> QED
    BY <1>2, <2>1, <2>2
<1>11. stray'[a] = stray[a] + Overwritten(d)[a]
                     + (IF mine /\ a \notin j.applied /\ j.day # today THEN j.held ELSE 0)
                     + (IF mine /\ a \in j.applied THEN t ELSE 0)
  BY <1>3, <1>6, <1>9, <1>10
<1> QED
  BY <1>7, <1>8, <1>11 DEF d, mine, o, t

(* A settlement is booked in the file.                                     *)
LEMMA StepSaveSettled ==
    ASSUME IInv, NEW w \in DOMAIN job, job[w].at = "save", job[w].call = "settle",
           FileSave(w)
    PROVE  IInv'
<1> DEFINE j == job[w]
           d == job[w].draft
           n == job[w].used - job[w].held
<1>1. TypeOK /\ Progress /\ Dated /\ today \in Nat
  BY TodayType DEF IInv
<1>2. /\ d \in Ledger /\ d.day \in Nat /\ d.day <= today /\ d.spent \in [Accounts -> Nat]
      /\ j.used \in Nat /\ j.held \in Nat
  BY <1>1, CallParts DEF Dated
<1>3. n \in Int /\ FloorAtZero(n) \in Nat
  <2>1. n \in Int
    BY <1>2
  <2> QED
    BY <2>1, FloorType
<1>4. /\ file' = [day |-> d.day, spent |-> Bump(d.spent, job[w].who, n)]
      /\ Finish(w)
      /\ UNCHANGED <<today, redisUp, health, redis, issued, outages, faults, reservations>>
  BY DEF FileSave
<1>5. \A v \in DOMAIN job \ {w} :
         job[v].call = "reserve" => job[v].rid \notin DOMAIN reservations'
  BY <1>1, <1>4 DEF Progress
<1>6. /\ JobsOK' /\ Progress'
      /\ \A v \in DOMAIN job' : v \in DOMAIN job /\ job'[v] = job[v]
      /\ \A v \in DOMAIN job' : /\ job'[v].day <= today
                                /\ job'[v].at = "save" => job'[v].draft.day <= today
  BY <1>4, <1>5, Ends DEF Finish
<1>7. HeldOK' /\ WorldOK'
  BY <1>1, <1>4 DEF TypeOK, HeldOK, WorldOK
<1>8. /\ file' \in Ledger /\ file'.day <= today'
      /\ \A a \in Accounts : /\ Load(today)'[a] = Saved(d, job[w].who, n, a)
                             /\ Saved(d, job[w].who, n, a) \in Nat
  <2> HIDE DEF d, n
  <2> QED
    BY <1>2, <1>3, <1>4, SavedFile
<1>9. ASSUME NEW a \in Accounts
      PROVE  LET mine  == d.day = today /\ a \in Books(j.who)
                 fresh == mine /\ a \notin j.applied
             IN  /\ charged'[a] = charged[a] + (IF fresh THEN j.used ELSE 0)
                 /\ over'[a] = over[a] + (IF mine THEN FloorAtZero(n) ELSE 0)
                 /\ stray'[a] = stray[a] + Overwritten(d)[a]
                      + (IF fresh /\ j.day # today THEN j.held ELSE 0)
                      + (IF mine /\ a \in j.applied
                         THEN FloorAtZero(j.held - j.used) ELSE 0)
  BY <1>2, SettledInFile
<1>10. BooksOK'
  <2>1. ASSUME NEW a \in Accounts
        PROVE  charged'[a] \in Nat /\ over'[a] \in Nat /\ stray'[a] \in Nat
    <3>1. /\ charged[a] \in Nat /\ over[a] \in Nat /\ stray[a] \in Nat
          /\ Overwritten(d)[a] \in Nat
      BY <1>2, Numbers, Loses
    <3>2. FloorAtZero(j.held - j.used) \in Nat
      <4>1. j.held - j.used \in Int
        BY <1>2
      <4> QED
        BY <4>1, FloorType
    <3>3. /\ charged'[a] \in Nat /\ over'[a] \in Nat
      <4> HIDE DEF j, d, n
      <4> QED
        BY <1>2, <1>3, <1>9, <3>1
    <3>4. stray'[a] \in Nat
      <4> HIDE DEF j, d, n
      <4> QED
        BY <1>2, <1>9, <3>1, <3>2
    <3> QED
      BY <3>3, <3>4
  <2>2. /\ charged' = [a \in Accounts |-> charged'[a]]
        /\ over' = [a \in Accounts |-> over'[a]]
        /\ stray' = [a \in Accounts |-> stray'[a]]
    BY DEF FileSave, Add
  <2> QED
    BY <1>1, <1>4, <1>8, <2>1, <2>2 DEF TypeOK, BooksOK
<1>11. ASSUME NEW a \in Accounts
       PROVE  LET s == IF j.day = today /\ a \in Books(j.who) /\ a \notin j.applied
                       THEN j.held ELSE 0
              IN  /\ FiniteR(a)' /\ FiniteS(a)' /\ Owed(a)' \in Nat
                  /\ Owed(a)' + s = Owed(a) + (charged'[a] - charged[a])
  <2> DEFINE s == Settles(job[w], a, today)
  <2>1. s = IF j.day = today /\ a \in Books(j.who) /\ a \notin j.applied
            THEN j.held ELSE 0
    BY DEF Settles, Pending, Booked
  <2>2. FiniteS(a)' /\ SSum(a) = SSum(a)' + s
    BY <1>4, SumEnds DEF Finish
  <2>3. s \in Nat
    BY <1>2, <2>1
  <2>4. FiniteR(a)' /\ RSum(a)' = RSum(a)
    BY <1>4, SumKept
  <2>5. SSum(a)' \in Nat
    BY <2>2, FS_CardinalityType DEF FiniteS, SSum
  <2>6. Owed(a)' = charged'[a] + (RSum(a)' + SSum(a)')
    BY DEF Owed, Outstanding, RSum, SSum
  <2>7. Owed(a) = charged[a] + (RSum(a) + SSum(a)) /\ charged[a] \in Nat
        /\ RSum(a) \in Nat /\ SSum(a) \in Nat
    BY Sums, Numbers
  <2>8. charged'[a] \in Nat
    BY <1>10 DEF BooksOK
  <2> HIDE DEF s
  <2>9. Owed(a)' \in Nat /\ Owed(a)' + s = Owed(a) + (charged'[a] - charged[a])
    BY <2>2, <2>3, <2>4, <2>5, <2>6, <2>7, <2>8
  <2> QED
    BY <2>1, <2>2, <2>4, <2>9
<1>12. ASSUME NEW a \in Accounts PROVE (Finite(a) /\ Covered(a) /\ Within(a))'
  <2> DEFINE l  == Saved(d, job[w].who, n, a)
             D  == d.spent[a]
             V  == Load(today)[a]
             O  == Overwritten(d)[a]
             R  == redis[today][a]
             u  == j.used
             h  == j.held
             hit   == a \in Books(j.who)
             done  == a \in j.applied
             now   == d.day = today
             same  == j.day = today
             s  == IF same /\ hit /\ ~done THEN h ELSE 0
  <2>1. l \in Nat /\ Load(today)'[a] = l
    BY <1>8
  <2>2. /\ D \in Nat /\ V \in Nat /\ O \in Nat
        /\ now => V - D <= O
        /\ ~now => O = V
    BY <1>2, Loses, Numbers
  <2>3. /\ R \in Int /\ stray[a] \in Nat /\ Owed(a) \in Nat
        /\ Owed(a) <= (R + V) + stray[a]
    BY Numbers DEF Covered, Total
  <2>4. l = IF now THEN IF hit THEN FloorAtZero(D + n) ELSE D ELSE 0
    BY DEF Saved
  <2>5. Total(a)' = R + l
    BY <1>4, <2>1 DEF Total
  <2>6. u \in Nat /\ h \in Nat /\ n = u - h /\ charged[a] \in Nat /\ over[a] \in Nat
    BY <1>2, Numbers
  <2>7. /\ charged'[a] = charged[a] + (IF now /\ hit /\ ~done THEN u ELSE 0)
        /\ over'[a] = over[a] + (IF now /\ hit THEN FloorAtZero(n) ELSE 0)
        /\ stray'[a] = stray[a] + O + (IF now /\ hit /\ ~done /\ ~same THEN h ELSE 0)
                         + (IF now /\ hit /\ done THEN FloorAtZero(h - u) ELSE 0)
    BY <1>9
  <2>8. Owed(a)' \in Nat /\ Owed(a)' + s = Owed(a) + (charged'[a] - charged[a])
    BY <1>11
  <2>9. s = IF same /\ hit /\ ~done THEN h ELSE 0
    OBVIOUS
  <2> HIDE DEF l, D, V, O, R, u, h, hit, done, now, same, s, n, j, d
  <2>10. Covered(a)'
    <3>1. Owed(a)' <= (R + l) + stray'[a]
      <4>1. CASE now /\ hit /\ ~done
        <5>1. /\ D + n <= l
              /\ stray'[a] = stray[a] + O + (IF same THEN 0 ELSE h) + 0
              /\ Owed(a)' + s = Owed(a) + u
              /\ s = IF same THEN h ELSE 0
          BY <2>2, <2>4, <2>6, <2>7, <2>8, <2>9, <4>1 DEF FloorAtZero
        <5> QED
          BY <2>1, <2>2, <2>3, <2>6, <2>8, <4>1, <5>1
      <4>2. CASE now /\ hit /\ done
        <5>1. /\ D + n <= l
              /\ stray'[a] = stray[a] + O + 0 + FloorAtZero(h - u)
              /\ Owed(a)' = Owed(a)
          BY <2>2, <2>3, <2>4, <2>6, <2>7, <2>8, <2>9, <4>2 DEF FloorAtZero
        <5>2. h - u <= FloorAtZero(h - u) /\ FloorAtZero(h - u) \in Nat
          BY <2>6 DEF FloorAtZero
        <5> QED
          BY <2>1, <2>2, <2>3, <2>6, <4>2, <5>1, <5>2
      <4>3. CASE now /\ ~hit
        <5>1. l = D /\ stray'[a] = stray[a] + O + 0 + 0 /\ Owed(a)' = Owed(a)
          BY <2>3, <2>4, <2>6, <2>7, <2>8, <2>9, <4>3
        <5> QED
          BY <2>2, <2>3, <4>3, <5>1
      <4>4. CASE ~now
        <5>1. l = 0 /\ stray'[a] = stray[a] + O + 0 + 0 /\ Owed(a)' + s = Owed(a)
          BY <2>3, <2>4, <2>6, <2>7, <2>8, <4>4
        <5>2. s \in Nat
          BY <2>6, <2>9
        <5> QED
          BY <2>2, <2>3, <2>8, <4>4, <5>1, <5>2
      <4> QED
        BY <4>1, <4>2, <4>3, <4>4
    <3> QED
      BY <2>5, <3>1 DEF Covered
  <2>11. ASSUME Cap[a] > NoCap
         PROVE  Excess(a, R) + Excess(a, l) <= over'[a]
    <3>1. Cap[a] \in Int
      BY Numbers
    <3>2. /\ Excess(a, R) \in Nat /\ Excess(a, D) \in Nat /\ Excess(a, R) <= over[a]
      <4>1. /\ Excess(a, R) \in Nat /\ Excess(a, V) \in Nat
            /\ Excess(a, R) + Excess(a, V) <= over[a]
        BY <2>2, <2>3, <2>11, <3>1, Numbers, FloorType DEF Excess, Within, R, V
      <4>2. Excess(a, D) \in Nat
        BY <2>2, <3>1, FloorType DEF Excess
      <4> QED
        BY <2>6, <4>1, <4>2
    <3>3. now => Excess(a, R) + Excess(a, D) <= over[a]
      BY <2>11, DraftWithin DEF now, R, D, d
    <3>4. CASE now /\ hit
      <4>1. Excess(a, l) <= Excess(a, D) + FloorAtZero(n)
        BY <2>2, <2>4, <2>6, <2>11, <3>1, <3>4 DEF Excess, FloorAtZero, NoCap
      <4>2. Excess(a, l) \in Nat /\ FloorAtZero(n) \in Nat
        BY <2>1, <2>6, <3>1, FloorType DEF Excess, FloorAtZero
      <4>3. over'[a] = over[a] + FloorAtZero(n)
        BY <2>7, <3>4
      <4> QED
        BY <2>6, <3>2, <3>3, <3>4, <4>1, <4>2, <4>3
    <3>5. CASE now /\ ~hit
      <4>1. l = D /\ over'[a] = over[a]
        BY <2>4, <2>6, <2>7, <3>5
      <4> QED
        BY <3>3, <3>5, <4>1
    <3>6. CASE ~now
      <4>1. l = 0 /\ over'[a] = over[a]
        BY <2>4, <2>6, <2>7, <3>6
      <4>2. Excess(a, l) = 0
        BY <2>11, <3>1, <4>1 DEF Excess, FloorAtZero, NoCap
      <4> QED
        BY <2>6, <3>2, <4>1, <4>2
    <3> QED
      BY <3>4, <3>5, <3>6
  <2>12. Within(a)'
    <3>1. over'[a] \in Nat /\ over[a] <= over'[a]
      BY <1>3, <2>6, <2>7
    <3>2. Cap[a] > NoCap => Excess(a, redis[today][a]) + Excess(a, l) <= over'[a]
      BY <2>11 DEF R
    <3> QED
      BY <1>4, <1>6, <2>1, <3>1, <3>2, WithinSaved
  <2>13. Finite(a)'
    BY <1>11 DEF Finite, FiniteR, FiniteS
  <2> QED
    BY <2>10, <2>12, <2>13
<1>13. Counted'
  BY <1>12 DEF Counted
<1>14. Dated'
  BY <1>1, <1>4, <1>6, <1>8 DEF Dated
<1>15. ~Still'
  BY <1>4, FileIsNotStill
<1> QED
  BY <1>6, <1>7, <1>10, <1>13, <1>14, <1>15, TypePartsNext DEF IInv, Quiet

LEMMA StepFileSave ==
    ASSUME IInv, NEW w \in Workers, FileSave(w)
    PROVE  IInv'
<1>1. w \in DOMAIN job /\ job[w].at = "save"
  BY DEF FileSave, At
<1>2. CASE job[w].call = "settle"
  BY <1>1, <1>2, StepSaveSettled
<1>3. CASE job[w].call = "reserve"
  <2>1. /\ file' = [day   |-> job[w].draft.day,
                    spent |-> Bump(job[w].draft.spent, job[w].who, job[w].held)]
        /\ Store(w, job[w].draft.day)
        /\ stray' = [a \in Accounts |-> stray[a] + Overwritten(job[w].draft)[a]]
        /\ UNCHANGED <<charged, over>>
    BY <1>3 DEF FileSave
  <2>2. Finish(w) /\ UNCHANGED <<today, redisUp, health, redis, issued, outages, faults>>
    BY DEF FileSave
  <2> QED
    BY <1>1, <1>3, <2>1, <2>2, StepSaveEstimate
<1>4. job[w].call \in {"reserve", "settle"}
  BY <1>1, CallParts DEF IInv
<1> QED
  BY <1>2, <1>3, <1>4


-----------------------------------------------------------------------------
(* The rest of the world.                                                  *)

(* A step that only touches what is known of Redis, or whether it answers. *)
LEMMA StepElsewhere ==
    ASSUME IInv, WorldOK', today' = today, outages' \in Nat,
           UNCHANGED <<redis, file, reservations, job, issued, faults>>,
           UNCHANGED <<charged, over, stray>>, Quiet'
    PROVE  IInv'
<1>1. TypeOK /\ Dated /\ Progress /\ Counted
  BY DEF IInv
<1>2. TypeOK'
  <2>1. JobsOK' /\ HeldOK' /\ BooksOK'
    BY <1>1 DEF TypeOK, JobsOK, HeldOK, BooksOK
  <2> QED
    BY <2>1, TypePartsNext
<1>3. Dated'
  BY <1>1 DEF Dated
<1>4. Progress'
  BY <1>1 DEF Progress
<1>5. Counted'
  <2>1. SavesKept
    BY DEF SavesKept
  <2>2. ASSUME NEW a \in Accounts
        PROVE  /\ FiniteR(a)' /\ FiniteS(a)'
               /\ RSum(a)' + SSum(a)' = RSum(a) + SSum(a)
    BY SumKept
  <2> QED
    BY <2>1, <2>2, BooksKept
<1> QED
  BY <1>2, <1>3, <1>4, <1>5 DEF IInv

LEMMA StillOwed ==
    ASSUME UNCHANGED <<today, redis, reservations, job, charged>>, Exact
    PROVE  Exact'
BY DEF Exact, Owed, Outstanding

LEMMA StepProbe ==
    ASSUME IInv, NEW w \in Workers, Probe(w)
    PROVE  IInv'
<1>1. /\ health' = [health EXCEPT ![w] = Probed(w)]
      /\ UNCHANGED <<today, redisUp, redis, file, reservations, job, issued,
                     outages, faults>>
      /\ UNCHANGED <<charged, over, stray>>
  BY DEF Probe, bookkeeping
<1>2. TypeOK /\ Dated
  BY DEF IInv
<1>3. /\ health' \in [Workers -> {"unknown", "up", "down"}]
      /\ \A v \in Workers : health[v] = "down" => health'[v] = "down"
      /\ health'[w] # "down" /\ (~redisUp => health[w] = "unknown") =>
            redisUp /\ Entry(w) = "redis"
  BY <1>1, <1>2, Probing
<1>4. WorldOK'
  BY <1>1, <1>2, <1>3 DEF TypeOK, WorldOK
<1>5. Quiet'
  <2> SUFFICES ASSUME Still' PROVE OnRedisOnly' /\ Exact'
    BY DEF Quiet
  <2>1. Still
    BY <1>1, <1>3, StillBefore
  <2>2. OnRedisOnly /\ Exact
    BY <2>1 DEF IInv, Quiet
  <2>3. redisUp
    BY <1>3, <2>2 DEF Still, OnRedisOnly
  <2>4. OnRedisOnly'
    BY <1>1, <2>2, <2>3 DEF OnRedisOnly
  <2>5. Exact'
    BY <1>1, <2>2, StillOwed
  <2> QED
    BY <2>4, <2>5
<1>6. outages' \in Nat
  BY <1>1, <1>2 DEF Dated
<1> QED
  BY <1>1, <1>4, <1>5, <1>6, StepElsewhere

LEMMA StepOutage ==
    ASSUME IInv, Outage
    PROVE  IInv'
<1>1. /\ redisUp' = FALSE /\ outages' = outages + 1
      /\ UNCHANGED <<today, health, redis, file, reservations, job, issued, faults>>
      /\ UNCHANGED <<charged, over, stray>>
  BY DEF Outage, bookkeeping
<1>2. outages \in Nat
  BY DEF IInv, Dated
<1>3. outages' \in Nat /\ outages' # 0
  BY <1>1, <1>2
<1>4. Quiet'
  BY <1>3 DEF Quiet, Still
<1>5. WorldOK'
  BY <1>1 DEF IInv, TypeOK, WorldOK
<1> QED
  BY <1>1, <1>3, <1>4, <1>5, StepElsewhere

LEMMA StepRecover ==
    ASSUME IInv, Recover
    PROVE  IInv'
<1>1. /\ redisUp' = TRUE
      /\ UNCHANGED <<today, health, redis, file, reservations, job, issued,
                     outages, faults>>
      /\ UNCHANGED <<charged, over, stray>>
  BY DEF Recover, bookkeeping
<1>2. outages' \in Nat
  BY <1>1 DEF IInv, Dated
<1>3. Quiet'
  <2> SUFFICES ASSUME Still' PROVE OnRedisOnly' /\ Exact'
    BY DEF Quiet
  <2>1. Still
    BY <1>1 DEF Still
  <2>2. OnRedisOnly /\ Exact
    BY <2>1 DEF IInv, Quiet
  <2>3. OnRedisOnly'
    BY <1>1, <2>2 DEF OnRedisOnly
  <2>4. Exact'
    BY <1>1, <2>2, StillOwed
  <2> QED
    BY <2>3, <2>4
<1>4. WorldOK'
  BY <1>1 DEF IInv, TypeOK, WorldOK
<1> QED
  BY <1>1, <1>2, <1>3, <1>4, StepElsewhere

(* Holders that are gone are owed for no more.                             *)
LEMMA FewerOwed ==
    ASSUME IInv, NEW a \in Accounts, today' = today, charged' = charged,
           \A r \in DOMAIN reservations' :
              r \in DOMAIN reservations /\ reservations'[r] = reservations[r],
           \A v \in DOMAIN job' : v \in DOMAIN job /\ job'[v] = job[v]
    PROVE  /\ FiniteR(a)' /\ FiniteS(a)'
           /\ Owed(a)' \in Nat /\ Owed(a)' <= Owed(a)
<1> DEFINE P == {r \in DOMAIN reservations : Booked(reservations[r], a, today)}
           Q == {r \in DOMAIN reservations' : Booked(reservations'[r], a, today)}
           S == {v \in DOMAIN job : Pending(job[v], a, today)}
           T == {v \in DOMAIN job' : Pending(job'[v], a, today)}
<1>1. IsFiniteSet(Units(reservations, P)) /\ IsFiniteSet(Units(job, S))
  BY Numbers DEF FiniteR, FiniteS, Reserved, ToSettle
<1>2. Q \subseteq P /\ \A r \in Q : reservations[r].held = reservations'[r].held
  OBVIOUS
<1>3. T \subseteq S /\ \A v \in T : job[v].held = job'[v].held
  OBVIOUS
<1>4. /\ Units(reservations, P) = Reserved(reservations, a, today)
      /\ Units(reservations', Q) = Reserved(reservations', a, today)
      /\ Units(job, S) = ToSettle(job, a, today)
      /\ Units(job', T) = ToSettle(job', a, today)
  BY DEF Reserved, ToSettle
<1> HIDE DEF P, Q, S, T
<1>5. /\ IsFiniteSet(Units(reservations', Q))
      /\ Cardinality(Units(reservations', Q)) <= Cardinality(Units(reservations, P))
  BY ONLY <1>1, <1>2, UnitsFewer
<1>6. /\ IsFiniteSet(Units(job', T))
      /\ Cardinality(Units(job', T)) <= Cardinality(Units(job, S))
  BY ONLY <1>1, <1>3, UnitsFewer
<1>7. /\ FiniteR(a)' /\ RSum(a)' <= RSum(a) /\ RSum(a)' \in Nat
      /\ FiniteS(a)' /\ SSum(a)' <= SSum(a) /\ SSum(a)' \in Nat
  BY <1>4, <1>5, <1>6, FS_CardinalityType DEF FiniteR, FiniteS, RSum, SSum
<1>8. Owed(a)' = charged'[a] + (RSum(a)' + SSum(a)')
  BY DEF Owed, Outstanding, RSum, SSum
<1>9. /\ Owed(a) = charged[a] + (RSum(a) + SSum(a)) /\ charged[a] \in Nat
      /\ RSum(a) \in Nat /\ SSum(a) \in Nat
  BY Sums, Numbers
<1> QED
  BY <1>7, <1>8, <1>9

LEMMA StepCrash ==
    ASSUME IInv, NEW w \in Workers, Crash(w)
    PROVE  IInv'
<1>1. /\ Fault /\ job' = Without(job, w)
      /\ reservations' = [r \in {x \in DOMAIN reservations : reservations[x].worker # w}
                            |-> reservations[r]]
      /\ health' = [health EXCEPT ![w] = "unknown"]
      /\ UNCHANGED <<today, redisUp, redis, file, issued, outages>>
      /\ UNCHANGED <<charged, over, stray>>
  BY DEF Crash, bookkeeping
<1>2. TypeOK /\ Progress /\ Dated
  BY DEF IInv
<1>3. \A r \in DOMAIN reservations' :
         r \in DOMAIN reservations /\ reservations'[r] = reservations[r]
  BY <1>1
<1>4. HeldOK' /\ WorldOK'
  <2>1. HeldOK'
    BY <1>1, <1>2 DEF TypeOK, HeldOK
  <2>2. WorldOK'
    BY <1>1, <1>2 DEF TypeOK, WorldOK
  <2> QED
    BY <2>1, <2>2
<1>5. \A v \in DOMAIN job \ {w} :
         job[v].call = "reserve" => job[v].rid \notin DOMAIN reservations'
  BY <1>2, <1>3 DEF Progress
<1>6. /\ JobsOK' /\ SavesKept /\ Progress'
      /\ \A v \in DOMAIN job' : v \in DOMAIN job /\ job'[v] = job[v]
      /\ \A v \in DOMAIN job' : /\ job'[v].day <= today
                                /\ job'[v].at = "save" => job'[v].draft.day <= today
  BY <1>1, <1>5, Ends
<1>7. BooksOK'
  BY <1>1, <1>2 DEF TypeOK, BooksOK
<1>8. Counted'
  <2>1. ASSUME NEW a \in Accounts PROVE (Finite(a) /\ Covered(a) /\ Within(a))'
    <3>1. /\ FiniteR(a)' /\ FiniteS(a)'
          /\ Owed(a)' \in Nat /\ Owed(a)' <= Owed(a)
      BY <1>1, <1>3, <1>6, FewerOwed
    <3>2. /\ redis'[today][a] = redis[today][a] /\ over'[a] = over[a] /\ stray'[a] = stray[a]
          /\ redis[today][a] \in Int /\ over[a] \in Nat /\ stray[a] \in Nat
          /\ Owed(a) \in Nat /\ Excess(a, redis[today][a]) \in Nat
      BY <1>1, Numbers, FloorType DEF Excess
    <3>3. /\ Excess(a, redis'[today][a]) + over[a] <= Excess(a, redis[today][a]) + over'[a]
          /\ Owed(a)' + redis[today][a] + stray[a] <= Owed(a) + redis'[today][a] + stray'[a]
      BY <3>1, <3>2
    <3>4. redis'[today][a] \in Int /\ over'[a] \in Nat /\ stray'[a] \in Nat
      BY <3>2
    <3> QED
      BY <1>1, <1>6, <3>1, <3>3, <3>4, BooksMove
  <2> QED
    BY <2>1 DEF Counted
<1>9. ~Still' /\ faults' \in Nat
  BY <1>1, FaultEndsStill
<1>10. Dated'
  BY <1>1, <1>2, <1>3, <1>6, <1>9 DEF Dated
<1> QED
  BY <1>4, <1>6, <1>7, <1>8, <1>9, <1>10, TypePartsNext DEF IInv, Quiet

(* At midnight the books start anew: nothing is dated tomorrow.            *)
LEMMA StepMidnight ==
    ASSUME IInv, Midnight
    PROVE  IInv'
<1> DEFINE next == today + 1
<1>1. /\ today < MaxDay /\ today' = next
      /\ charged' = Empty /\ over' = Empty /\ stray' = Empty
      /\ UNCHANGED <<redisUp, health, redis, file, reservations, job, issued,
                     outages, faults>>
  BY DEF Midnight
<1>2. TypeOK /\ Dated /\ Progress
  BY DEF IInv
<1>3. /\ today \in 1 .. MaxDay /\ today \in Nat /\ MaxDay \in Nat
      /\ next \in 1 .. MaxDay /\ next > today /\ next # 1
  <2>1. today \in 1 .. MaxDay /\ today \in Nat /\ MaxDay \in Nat
    BY <1>2, TodayType, SharedAssumption
  <2> QED
    BY <1>1, <2>1
<1>4. Empty \in [Accounts -> Nat] /\ \A a \in Accounts : Empty[a] = 0
  BY DEF Empty
<1>5. \A n \in Nat : n <= today => n <= next /\ n # next
  BY <1>3
<1>6. /\ file.day <= next /\ file.day # next
      /\ \A r \in DOMAIN reservations :
            reservations[r].day <= next /\ reservations[r].day # next
      /\ \A w \in DOMAIN job :
            /\ job[w].day <= next /\ job[w].day # next
            /\ job[w].at = "save" => job[w].draft.day <= next /\ job[w].draft.day # next
  <2> HIDE DEF next
  <2>1. file.day \in Nat /\ file.day <= today
    BY <1>2 DEF TypeOK, Ledger, Dated
  <2>2. ASSUME NEW r \in DOMAIN reservations
        PROVE  reservations[r].day \in Nat /\ reservations[r].day <= today
    BY <1>2, ReservationParts DEF Dated
  <2>3. ASSUME NEW w \in DOMAIN job
        PROVE  /\ job[w].day \in Nat /\ job[w].day <= today
               /\ job[w].draft.day \in Nat
               /\ job[w].at = "save" => job[w].draft.day <= today
    BY <1>2, CallParts DEF Dated
  <2> QED
    BY <1>5, <2>1, <2>2, <2>3
<1>7. TypeOK'
  <2>1. JobsOK' /\ HeldOK'
    BY <1>1, <1>2 DEF TypeOK, JobsOK, HeldOK
  <2>2. WorldOK'
    BY <1>1, <1>2, <1>3 DEF TypeOK, WorldOK
  <2>3. BooksOK'
    BY <1>1, <1>2, <1>4 DEF TypeOK, BooksOK
  <2> QED
    BY <2>1, <2>2, <2>3, TypePartsNext
<1>8. Dated'
  <2>1. \A d \in 1 .. MaxDay : d > next => redis[d] = Empty
    BY <1>2, <1>3 DEF Dated
  <2> QED
    BY <1>1, <1>2, <1>6, <2>1 DEF Dated
<1>9. Progress'
  BY <1>1, <1>2 DEF Progress
<1>10. ~Still'
  BY <1>1, <1>3 DEF Still
<1>11. ASSUME NEW a \in Accounts PROVE (Finite(a) /\ Covered(a) /\ Within(a))'
  <2> HIDE DEF next
  <2>1. redis[next] = Empty /\ redis'[next][a] = 0
    BY <1>1, <1>2, <1>3, <1>4 DEF Dated
  <2>2. Load(next) = Empty /\ Load(today)' = Empty
    BY <1>1, <1>6 DEF Load
  <2>3. Reserved(reservations, a, next) = {} /\ ToSettle(job, a, next) = {}
    <3>1. \A r \in DOMAIN reservations : ~Booked(reservations[r], a, next)
      BY <1>6 DEF Booked
    <3>2. \A w \in DOMAIN job : ~Pending(job[w], a, next)
      BY <1>6 DEF Booked, Pending
    <3> QED
      BY <3>1, <3>2 DEF Reserved, ToSettle, Units
  <2>4. Reserved(reservations, a, today)' = {} /\ ToSettle(job, a, today)' = {}
    BY <1>1, <2>3
  <2>5. Finite(a)' /\ Outstanding(a)' = 0
    BY <2>4, FS_EmptySet DEF Finite, Outstanding
  <2>6. Owed(a)' = 0 /\ Total(a)' = 0 /\ stray'[a] = 0 /\ over'[a] = 0
    BY <1>1, <1>4, <2>1, <2>2, <2>5 DEF Owed, Total
  <2>7. Covered(a)'
    BY <2>6 DEF Covered
  <2>8. Within(a)'
    <3> SUFFICES ASSUME Cap[a] > NoCap
                 PROVE  /\ Excess(a, 0) + Excess(a, 0) <= 0
                        /\ \A w \in DOMAIN job' :
                              job'[w].at = "save" => job'[w].draft.day # next
      BY <1>1, <1>4, <2>1, <2>2, <2>6 DEF Within, Excess
    <3>1. Excess(a, 0) = 0
      BY SharedAssumption DEF Excess, FloorAtZero, NoCap
    <3> QED
      BY <1>1, <1>6, <3>1
  <2> QED
    BY <2>5, <2>7, <2>8
<1>12. Counted'
  BY <1>11 DEF Counted
<1> QED
  BY <1>7, <1>8, <1>9, <1>10, <1>12 DEF IInv, Quiet


-----------------------------------------------------------------------------
(* The theorems.                                                           *)

LEMMA InitInductive == Init => IInv
<1> SUFFICES ASSUME Init PROVE IInv
  OBVIOUS
<1>1. /\ today = 1 /\ redisUp \in BOOLEAN
      /\ health = [w \in Workers |-> "unknown"]
      /\ redis = [d \in 1 .. MaxDay |-> Empty]
      /\ file = NoDraft /\ issued = {}
      /\ outages = 0 /\ faults = 0
      /\ charged = Empty /\ over = Empty /\ stray = Empty
  BY DEF Init
<1>2. DOMAIN reservations = {} /\ DOMAIN job = {}
  BY DEF Init
<1>3. reservations \in [DOMAIN reservations -> Reservation] /\ job \in [DOMAIN job -> Job]
  BY EmptyMap DEF Init
<1>4. MaxDay \in Nat /\ 1 \in 1 .. MaxDay
  BY SharedAssumption
<1>5. Empty \in [Accounts -> Nat] /\ \A a \in Accounts : Empty[a] = 0
  BY DEF Empty
<1>6. TypeOK
  <2>1. NoDraft \in Ledger
    BY <1>5 DEF NoDraft, Ledger
  <2>2. redis \in [1 .. MaxDay -> [Accounts -> Int]]
    BY <1>1, <1>5
  <2> QED
    BY <1>1, <1>2, <1>3, <1>4, <1>5, <2>1, <2>2 DEF TypeOK
<1>7. Dated
  BY <1>1, <1>2 DEF Dated, NoDraft
<1>8. Progress
  BY <1>2 DEF Progress
<1>9. ASSUME NEW a \in Accounts
      PROVE  /\ Finite(a) /\ Owed(a) = 0 /\ redis[1][a] = 0 /\ redis[today][a] = 0
             /\ Load(today)[a] = 0 /\ over[a] = 0 /\ stray[a] = 0
  <2>1. Reserved(reservations, a, today) = {} /\ ToSettle(job, a, today) = {}
    BY <1>2 DEF Reserved, ToSettle, Units
  <2>2. Finite(a) /\ Outstanding(a) = 0
    BY <2>1, FS_EmptySet DEF Finite, Outstanding
  <2>3. Owed(a) = 0 /\ over[a] = 0 /\ stray[a] = 0
    BY <1>1, <1>5, <2>2 DEF Owed
  <2>4. redis[1][a] = 0 /\ redis[today][a] = 0
    BY <1>1, <1>4, <1>5
  <2>5. Load(today)[a] = 0
    BY <1>1, <1>5 DEF Load, NoDraft
  <2> QED
    BY <2>2, <2>3, <2>4, <2>5
<1>10. Counted
  <2>1. ASSUME NEW a \in Accounts PROVE Finite(a) /\ Covered(a) /\ Within(a)
    <3>1. Covered(a)
      BY <1>9 DEF Covered, Total
    <3>2. Within(a)
      <4>1. Cap[a] > NoCap => Excess(a, 0) = 0
        BY SharedAssumption DEF Excess, FloorAtZero, NoCap
      <4> QED
        BY <1>2, <1>9, <4>1 DEF Within
    <3> QED
      BY <1>9, <3>1, <3>2
  <2> QED
    BY <2>1 DEF Counted
<1>11. Quiet
  <2>1. OnRedisOnly
    BY <1>1, <1>2 DEF OnRedisOnly
  <2>2. Exact
    BY <1>9 DEF Exact
  <2> QED
    BY <2>1, <2>2 DEF Quiet
<1> QED
  BY <1>6, <1>7, <1>8, <1>10, <1>11 DEF IInv

LEMMA StepCall ==
    ASSUME IInv, NEW w \in Workers, Call(w)
    PROVE  IInv'
<1>1. ASSUME NEW r \in Rids, NEW q \in Requests, StartReserve(w, r, q)
      PROVE  IInv'
  BY <1>1, StepStartReserve
<1>2. ASSUME NEW r \in Rids, NEW used \in Uses \cup {0}, StartSettle(w, r, used)
      PROVE  IInv'
  <2>1. used \in Nat
    BY SharedAssumption
  <2>2. CASE used = reservations[r].held
    BY <1>2, <2>1, <2>2, StepSettleEven
  <2>3. CASE used # reservations[r].held
    BY <1>2, <2>1, <2>3, StepSettleBegins
  <2> QED
    BY <2>2, <2>3
<1>3. ASSUME NEW r \in Rids, NEW who \in Accounts, NEW used \in Uses,
             StartBill(w, r, who, used)
      PROVE  IInv'
  BY <1>3, StepStartBill
<1> QED
  BY <1>1, <1>2, <1>3 DEF Call

LEMMA NextInductive == IInv /\ [Next]_vars => IInv'
<1> SUFFICES ASSUME IInv, [Next]_vars PROVE IInv'
  OBVIOUS
<1>1. ASSUME NEW w \in Workers, Call(w) PROVE IInv'
  BY <1>1, StepCall
<1>2. ASSUME NEW w \in Workers, RedisReserve(w) PROVE IInv'
  BY <1>2, StepRedisReserve
<1>3. ASSUME NEW w \in Workers, SettleGlobal(w) PROVE IInv'
  BY <1>3, StepSettleGlobal
<1>4. ASSUME NEW w \in Workers, SettleKey(w) PROVE IInv'
  BY <1>4, StepSettleKey
<1>5. ASSUME NEW w \in Workers, RedisFails(w) PROVE IInv'
  BY <1>5, StepRedisFails
<1>6. ASSUME NEW w \in Workers, FileLoad(w) PROVE IInv'
  BY <1>6, StepFileLoad
<1>7. ASSUME NEW w \in Workers, FileSave(w) PROVE IInv'
  BY <1>7, StepFileSave
<1>8. ASSUME NEW w \in Workers, Probe(w) PROVE IInv'
  BY <1>8, StepProbe
<1>9. ASSUME NEW w \in Workers, Crash(w) PROVE IInv'
  BY <1>9, StepCrash
<1>10. CASE Outage
  BY <1>10, StepOutage
<1>11. CASE Recover
  BY <1>11, StepRecover
<1>12. CASE Midnight
  BY <1>12, StepMidnight
<1>13. CASE UNCHANGED vars
  <2>1. UNCHANGED <<today, redisUp, health, redis, file, reservations, job, issued,
                    outages, faults, charged, over, stray>>
    BY <1>13 DEF vars
  <2>2. WorldOK' /\ outages' \in Nat
    BY <2>1 DEF IInv, TypeOK, WorldOK, Dated
  <2>3. Quiet'
    BY <2>1 DEF IInv, Quiet, Still, OnRedisOnly, Exact, Owed, Outstanding
  <2> QED
    BY <2>1, <2>2, <2>3, StepElsewhere
<1> QED
  BY <1>1, <1>2, <1>3, <1>4, <1>5, <1>6, <1>7, <1>8, <1>9, <1>10, <1>11, <1>12,
     <1>13 DEF Next

(* The invariant of several processes on one Redis and one file, through   *)
(* outages, lost replies, crashes and midnight: the type invariant,        *)
(* nothing dated in the future, and the books of every account.            *)
THEOREM Inductive == Spec => []IInv
<1>1. Init => IInv
  BY InitInductive
<1>2. IInv /\ [Next]_vars => IInv'
  BY NextInductive
<1> HIDE DEF IInv
<1> QED
  BY <1>1, <1>2, PTL DEF Spec

(* Redis and the file together never show less than was used and is        *)
(* reserved, but for the strays: however many processes and calls there    *)
(* are, and at whatever step each of them is.                              *)
THEOREM NothingUncounted == Spec => []NoUndercount
<1>1. IInv => NoUndercount
  BY DEF IInv, Counted, Covered, NoUndercount
<1> HIDE DEF IInv, NoUndercount
<1> QED
  BY <1>1, Inductive, PTL

(* Every bucket on Redis stays within its cap but for usage in excess of   *)
(* estimates, and the fallback to the file gives a cap a second time and   *)
(* not a third.                                                            *)
THEOREM CapsHold == Spec => []CapTwiceAtMost
<1>1. IInv => CapTwiceAtMost
  <2> SUFFICES ASSUME IInv, NEW a \in Accounts, Cap[a] > NoCap
               PROVE  /\ redis[today][a] <= Cap[a] + over[a]
                      /\ Owed(a) <= 2 * Cap[a] + over[a] + stray[a]
    BY DEF IInv, CapTwiceAtMost
  <2> DEFINE R == redis[today][a]
             V == Load(today)[a]
             C == Cap[a]
  <2>1. /\ R \in Int /\ V \in Nat /\ C \in Int /\ over[a] \in Nat /\ stray[a] \in Nat
        /\ Owed(a) \in Nat /\ Owed(a) <= (R + V) + stray[a]
    BY Numbers DEF Covered, Total
  <2>2. FloorAtZero(R - C) + FloorAtZero(V - C) <= over[a]
    BY Numbers DEF Within, Excess
  <2> HIDE DEF R, V, C
  <2>3. R <= C + over[a] /\ R + V <= 2 * C + over[a]
    BY <2>1, <2>2 DEF FloorAtZero
  <2>4. Owed(a) <= 2 * C + over[a] + stray[a]
    BY <2>1, <2>3
  <2> QED
    BY <2>3, <2>4 DEF R, C
<1> HIDE DEF IInv, CapTwiceAtMost
<1> QED
  BY <1>1, Inductive, PTL

(* While Redis has always answered and no process died, its buckets show   *)
(* exactly what was used and is reserved, between two pipelines as well.   *)
THEOREM BooksAreExact == Spec => []ExactWhileCalm
<1>1. IInv => ExactWhileCalm
  <2> SUFFICES ASSUME IInv, Calm
               PROVE  \A a \in Accounts : redis[today][a] = Owed(a)
    BY DEF ExactWhileCalm
  <2>1. Still /\ today = 1
    BY DEF Calm, Still
  <2>2. Exact
    BY <2>1 DEF IInv, Quiet
  <2> QED
    BY <2>1, <2>2 DEF Exact
<1> HIDE DEF IInv, ExactWhileCalm
<1> QED
  BY <1>1, Inductive, PTL
=============================================================================
