------------------------- MODULE ChatConsole_proofs -------------------------
(***************************************************************************)
(* Proofs about ChatConsole, for any number of turns, pieces of text and   *)
(* reported errors, and however the chunks are cut.                        *)
(***************************************************************************)
EXTENDS ChatConsole, FiniteSetTheorems, SequenceTheorems, WellFoundedInduction, TLAPS

-----------------------------------------------------------------------------
(* The inductive invariant.                                                *)

Tokens == [kind : {"meta", "text", "done", "error", "nl"}, n : Nat]
Rows == [kind : {"system", "user", "assistant", "error"}, turn : 0..MaxTurns,
         text : Seq(Nat)]
Messages == [role : {"user", "assistant"}, turn : Turns, text : Seq(Nat)]
Went == [ended : {"not", "finished", "mute", "failed", "left"}, sent : Nat]

Typed ==
  /\ TypeOK
  /\ wire \in Seq(Tokens) /\ buffer \in Seq(Tokens)
  /\ messages \in Seq(Messages) /\ asked \in Seq(Messages)
  /\ log \in Seq(Rows) /\ log # <<>>
  /\ how \in [Turns -> Went]
  /\ busy => turn \in Turns

\* What has been sent and was not handled yet.
Pending == buffer \o wire

(* The beginning of a stream of frames, each a body and two line ends, and *)
(* one of whole frames.                                                    *)
Lined(tokens) == \A i \in DOMAIN tokens : tokens[i] # NL <=> i % 3 = 1
Framed(tokens) == Lined(tokens) /\ Len(tokens) % 3 = 0

Pieces(n) == [i \in 1..n |-> i]

(* The buffer begins with a frame and holds none that is complete, and the *)
(* text not yet put together is pending.                                   *)
Stream ==
  /\ Framed(Pending) /\ Len(buffer) <= 2
  /\ ~Reading => buffer = <<>> /\ wire = <<>>
  /\ Reading => reply \o TextOf(Pending) = Pieces(produced)
  /\ conn = "waiting" => produced = 0 /\ reply = <<>>

(* How the answer went is known when it has ended.  The frame of a failure *)
(* is pending until it is handled, and then the turn is over.              *)
Outcome ==
  conn = "ended" =>
    /\ how[turn].sent = produced
    /\ how[turn].ended \in {"finished", "mute", "failed"}
    /\ how[turn].ended = "failed" =>
         \E i \in DOMAIN Pending : IsError(Pending[i])

(* While the session is busy, what it sent ends with the question of this  *)
(* turn, and no answer to it is there.                                     *)
Waits ==
  busy =>
    /\ asked = messages /\ messages # <<>> /\ since < turn
    /\ messages[Len(messages)] = Message("user", turn, <<>>)
    /\ \A i \in DOMAIN messages : messages[i].role = "assistant" => messages[i].turn < turn

NotAhead ==
  /\ \A i \in DOMAIN messages : messages[i].turn <= turn
  /\ \A i \in DOMAIN log :
       log[i].kind \in {"user", "assistant"} => log[i].turn <= turn

(* While the session is busy the answer row that is last is that of this   *)
(* turn, and only an error of the page takes its place.                    *)
Writes ==
  busy => /\ LastIsAnswer(log) => log[Len(log)].turn = turn
          /\ turn \in hit \/ LastIsAnswer(log)

Session == /\ Waits /\ NotAhead /\ Writes
           /\ TranscriptHonest /\ StaysInConversation /\ ShownAsSent

IInv == Typed /\ Stream /\ Outcome /\ Session

-----------------------------------------------------------------------------
(* The k-th of a set of numbers.                                           *)

\* How many are not above i.
Rank(S, i) == Cardinality({j \in S : j <= i})

LEMMA RankProperty ==
    ASSUME NEW S, S \subseteq Int, IsFiniteSet(S)
    PROVE  /\ \A i \in S : Rank(S, i) \in 1 .. Cardinality(S)
           /\ \A i, j \in S : i < j => Rank(S, i) < Rank(S, j)
           /\ \A k \in 1 .. Cardinality(S) : \E i \in S : Rank(S, i) = k
<1> DEFINE Upto(i) == {j \in S : j <= i}
           n == Cardinality(S)
<1>1. n \in Nat
  BY FS_CardinalityType
<1>2. \A i : /\ IsFiniteSet(Upto(i)) /\ Cardinality(Upto(i)) \in Nat
             /\ Cardinality(Upto(i)) <= n
  <2> TAKE i
  <2>1. Upto(i) \in SUBSET S
    OBVIOUS
  <2> HIDE DEF Upto
  <2>2. IsFiniteSet(Upto(i)) /\ Cardinality(Upto(i)) <= n
    BY <2>1, FS_Subset
  <2> QED
    BY <2>2, FS_CardinalityType
<1>3. ASSUME NEW i \in S PROVE Rank(S, i) \in 1 .. n
  <2>1. i \in Upto(i)
    BY <1>3
  <2> HIDE DEF Upto
  <2>2. Cardinality(Upto(i)) # 0
    BY <1>2, <2>1, FS_EmptySet
  <2>3. Cardinality(Upto(i)) \in 1 .. n
    BY <1>1, <1>2, <2>2
  <2> QED
    BY <2>3 DEF Rank, Upto
<1>4. ASSUME NEW i \in S, NEW j \in S, i < j
      PROVE  Rank(S, i) < Rank(S, j)
  <2>0. i \in Int /\ j \in Int /\ \A k \in S : k \in Int
    OBVIOUS
  <2>1. Upto(i) \in SUBSET Upto(j) /\ j \in Upto(j) /\ j \notin Upto(i)
    <3>1. ASSUME NEW k \in S, k <= i PROVE k <= j
      BY <1>4, <2>0, <3>1
    <3>2. j <= j /\ ~(j <= i)
      BY <1>4, <2>0
    <3> QED
      BY <3>1, <3>2
  <2>2. Rank(S, i) = Cardinality(Upto(i)) /\ Rank(S, j) = Cardinality(Upto(j))
    BY DEF Rank
  <2> HIDE DEF Upto
  <2>3. /\ Cardinality(Upto(i)) <= Cardinality(Upto(j))
        /\ Cardinality(Upto(j)) # Cardinality(Upto(i))
    BY <1>2, <2>1, FS_Subset
  <2> QED
    BY <1>2, <2>2, <2>3
<1> DEFINE f == [i \in S |-> Rank(S, i)]
<1>5. f \in Injection(S, 1 .. n)
  <2>1. f \in [S -> 1 .. n]
    BY <1>3
  <2>2. ASSUME NEW i \in S, NEW j \in S, f[i] = f[j] PROVE i = j
    <3>1. f[i] = Rank(S, i) /\ f[j] = Rank(S, j)
      OBVIOUS
    <3>2. i < j \/ j < i \/ i = j
      BY <2>2
    <3>3. Rank(S, i) \in Int /\ Rank(S, j) \in Int
      BY <1>3
    <3>4. Rank(S, i) = Rank(S, j)
      BY <2>2, <3>1
    <3> HIDE DEF f
    <3>5. ~(i < j) /\ ~(j < i)
      BY <1>4, <3>3, <3>4
    <3> QED
      BY <3>2, <3>5
  <2> HIDE DEF f
  <2> QED
    BY <2>1, <2>2 DEF Injection, IsInjective
<1>6. IsFiniteSet(1 .. n) /\ Cardinality(1 .. n) = n
  BY <1>1, FS_Interval
<1>7. f \in Surjection(S, 1 .. n)
  <2> HIDE DEF f
  <2> QED
    BY <1>5, <1>6, FS_Injection
<1>8. ASSUME NEW k \in 1 .. n PROVE \E i \in S : Rank(S, i) = k
  <2>1. PICK i \in S : f[i] = k
    <3> HIDE DEF f
    <3> QED
      BY <1>7, <1>8 DEF Surjection
  <2> QED
    BY <2>1
<1> QED
  BY <1>3, <1>4, <1>8

LEMMA NthProperty ==
    ASSUME NEW S, S \subseteq Int, IsFiniteSet(S)
    PROVE  /\ Cardinality(S) \in Nat
           /\ \A k \in 1 .. Cardinality(S) : Nth(S, k) \in S /\ Rank(S, Nth(S, k)) = k
           /\ \A k, l \in 1 .. Cardinality(S) : k < l => Nth(S, k) < Nth(S, l)
           /\ \A i \in S : Rank(S, i) \in 1 .. Cardinality(S) /\ Nth(S, Rank(S, i)) = i
<1>0. /\ \A i \in S : Rank(S, i) \in 1 .. Cardinality(S)
      /\ \A i, j \in S : i < j => Rank(S, i) < Rank(S, j)
  BY RankProperty
<1>1. Cardinality(S) \in Nat
  BY FS_CardinalityType
<1>2. ASSUME NEW k \in 1 .. Cardinality(S)
      PROVE  Nth(S, k) \in S /\ Rank(S, Nth(S, k)) = k
  <2>1. \E i \in S : Rank(S, i) = k
    BY <1>2, RankProperty
  <2>2. Nth(S, k) = CHOOSE i \in S : Rank(S, i) = k
    BY DEF Nth, Rank
  <2> QED
    BY <2>1, <2>2
<1>3. \A i, j \in S : Rank(S, i) = Rank(S, j) => i = j
  <2> SUFFICES ASSUME NEW i \in S, NEW j \in S, Rank(S, i) = Rank(S, j)
               PROVE  i = j
    OBVIOUS
  <2>1. Rank(S, i) \in Int /\ ~(i < j) /\ ~(j < i)
    BY <1>0
  <2>2. i \in Int /\ j \in Int
    OBVIOUS
  <2> QED
    BY <2>1, <2>2
<1>4. ASSUME NEW k \in 1 .. Cardinality(S), NEW l \in 1 .. Cardinality(S), k < l
      PROVE  Nth(S, k) < Nth(S, l)
  <2> DEFINE i == Nth(S, k)
             j == Nth(S, l)
  <2>1. i \in S /\ j \in S /\ Rank(S, i) = k /\ Rank(S, j) = l
    BY <1>2
  <2> HIDE DEF i, j
  <2>2. ~(j < i) /\ i # j
    BY <1>0, <1>4, <2>1
  <2>3. i \in Int /\ j \in Int
    BY <2>1
  <2>4. i < j
    BY <2>2, <2>3
  <2> QED
    BY <2>4 DEF i, j
<1>5. ASSUME NEW i \in S
      PROVE  Rank(S, i) \in 1 .. Cardinality(S) /\ Nth(S, Rank(S, i)) = i
  <2>1. Rank(S, i) \in 1 .. Cardinality(S)
    BY RankProperty
  <2> QED
    BY <1>2, <1>3, <2>1
<1> QED
  BY <1>1, <1>2, <1>4, <1>5

(* Positions listed in ascending order are the first, the second ...       *)
LEMMA NthIs ==
    ASSUME NEW S, S \subseteq Int, NEW n \in Nat, NEW q \in [1 .. n -> S],
           \A k, l \in 1 .. n : k < l => q[k] < q[l],
           \A i \in S : \E k \in 1 .. n : q[k] = i
    PROVE  /\ IsFiniteSet(S) /\ Cardinality(S) = n
           /\ \A k \in 1 .. n : Nth(S, k) = q[k]
<1>1. \A k, l \in 1 .. n : q[k] = q[l] => k = l
  <2> SUFFICES ASSUME NEW k \in 1 .. n, NEW l \in 1 .. n, q[k] = q[l]
               PROVE  k = l
    OBVIOUS
  <2>1. q[k] \in Int
    OBVIOUS
  <2>2. ~(k < l) /\ ~(l < k)
    BY <2>1
  <2> QED
    BY <2>2
<1>2. q \in Bijection(1 .. n, S)
  BY <1>1 DEF Bijection, Injection, Surjection, IsInjective
<1>3. IsFiniteSet(1 .. n) /\ Cardinality(1 .. n) = n
  BY FS_Interval
<1>4. IsFiniteSet(S) /\ Cardinality(S) = n
  BY <1>2, <1>3, FS_Bijection DEF ExistsBijection
<1>5. ASSUME NEW k \in 1 .. n PROVE Rank(S, q[k]) = k
  <2> DEFINE T == {j \in S : j <= q[k]}
             g == [l \in 1 .. k |-> q[l]]
  <2>1. ASSUME NEW l \in 1 .. k PROVE q[l] \in T /\ g[l] = q[l] /\ l \in 1 .. n
    <3>1. l \in 1 .. n /\ (l < k \/ l = k)
      BY <2>1
    <3>2. q[l] \in S /\ q[l] \in Int /\ q[k] \in Int /\ (q[l] < q[k] \/ q[l] = q[k])
      BY <3>1
    <3>3. q[l] <= q[k]
      BY <3>2
    <3> QED
      BY <3>1, <3>2, <3>3
  <2>2. ASSUME NEW i \in T PROVE \E l \in 1 .. k : g[l] = i
    <3>1. PICK l \in 1 .. n : q[l] = i
      OBVIOUS
    <3>2. i <= q[k] /\ i \in Int /\ q[k] \in Int
      OBVIOUS
    <3>3. ~(k < l)
      BY <3>1, <3>2
    <3> QED
      BY <3>1, <3>3
  <2>3. g \in [1 .. k -> T]
    BY <2>1
  <2> HIDE DEF T
  <2>4. g \in Bijection(1 .. k, T)
    BY <1>1, <2>1, <2>2, <2>3 DEF Bijection, Injection, Surjection, IsInjective
  <2>5. IsFiniteSet(1 .. k) /\ Cardinality(1 .. k) = k
    BY FS_Interval
  <2> HIDE DEF g
  <2>6. Cardinality(T) = k
    BY <2>4, <2>5, FS_Bijection DEF ExistsBijection
  <2> QED
    BY <2>6 DEF Rank, T
<1>6. ASSUME NEW k \in 1 .. n PROVE Nth(S, k) = q[k]
  <2>1. q[k] \in S
    OBVIOUS
  <2>2. Nth(S, Rank(S, q[k])) = q[k]
    BY <1>4, <2>1, NthProperty
  <2> QED
    BY <1>5, <2>2
<1> QED
  BY <1>4, <1>6

(* What is picked from a sequence stands in it, and nothing is left out.   *)
LEMMA PickedProperty ==
    ASSUME NEW T, NEW s \in Seq(T), NEW S, S \subseteq DOMAIN s
    PROVE  /\ IsFiniteSet(S) /\ S \subseteq Int /\ Cardinality(S) \in Nat
           /\ Picked(s, S) \in Seq(T)
           /\ Len(Picked(s, S)) = Cardinality(S)
           /\ DOMAIN Picked(s, S) = 1 .. Cardinality(S)
           /\ \A k \in 1 .. Cardinality(S) :
                /\ Nth(S, k) \in S
                /\ Picked(s, S)[k] = s[Nth(S, k)]
           /\ \A i \in S : \E k \in 1 .. Cardinality(S) : Picked(s, S)[k] = s[i]
<1>1. /\ Len(s) \in Nat /\ DOMAIN s = 1 .. Len(s)
      /\ \A i \in 1 .. Len(s) : s[i] \in T
  BY LenProperties, ElementOfSeq
<1>2. IsFiniteSet(1 .. Len(s))
  BY <1>1, FS_Interval
<1>3. IsFiniteSet(S) /\ S \subseteq Int
  BY <1>1, <1>2, FS_Subset
<1>4. /\ Cardinality(S) \in Nat
      /\ \A k \in 1 .. Cardinality(S) : Nth(S, k) \in S
      /\ \A i \in S : \E k \in 1 .. Cardinality(S) : Nth(S, k) = i
  BY <1>3, NthProperty
<1> DEFINE n == Cardinality(S)
<1>5. Picked(s, S) = [k \in 1 .. n |-> s[Nth(S, k)]]
  BY DEF Picked
<1> HIDE DEF n
<1>6. \A k \in 1 .. n : s[Nth(S, k)] \in T
  BY <1>1, <1>4 DEF n
<1>7. n \in Nat
  BY <1>4 DEF n
<1>8. Picked(s, S) \in [1 .. n -> T]
  BY <1>5, <1>6
<1>9. Picked(s, S) \in Seq(T)
  BY <1>7, <1>8
<1>10. Len(Picked(s, S)) = n /\ DOMAIN Picked(s, S) = 1 .. n
  BY <1>5, <1>7, <1>9, LenProperties
<1>11. \A k \in 1 .. n : Picked(s, S)[k] = s[Nth(S, k)]
  BY <1>5
<1>12. \A i \in S : \E k \in 1 .. n : Picked(s, S)[k] = s[i]
  BY <1>4, <1>11 DEF n
<1> QED
  BY <1>3, <1>4, <1>9, <1>10, <1>11, <1>12 DEF n

-----------------------------------------------------------------------------
(* The text of a sequence of tokens.                                       *)

LEMMA TextProperty ==
    ASSUME NEW s \in Seq(Tokens)
    PROVE  LET at == TextAt(s)
           IN  /\ IsFiniteSet(at) /\ at \subseteq 1 .. Len(s) /\ at \subseteq Int
               /\ Cardinality(at) \in Nat
               /\ TextOf(s) \in Seq(Nat)
               /\ Len(TextOf(s)) = Cardinality(at)
               /\ \A k \in 1 .. Cardinality(at) :
                    /\ Nth(at, k) \in at
                    /\ TextOf(s)[k] = s[Nth(at, k)].n
<1> DEFINE at == TextAt(s)
           n == Cardinality(at)
           texts == Picked(s, at)
<1>1. at \subseteq DOMAIN s
  BY DEF TextAt
<1>2. /\ Len(s) \in Nat /\ DOMAIN s = 1 .. Len(s)
      /\ \A i \in 1 .. Len(s) : s[i] \in Tokens
  BY LenProperties, ElementOfSeq
<1>3. TextOf(s) = [k \in DOMAIN texts |-> texts[k].n]
  BY DEF TextOf
<1> HIDE DEF at
<1>4. /\ IsFiniteSet(at) /\ at \subseteq Int /\ n \in Nat
      /\ texts \in Seq(Tokens) /\ Len(texts) = n /\ DOMAIN texts = 1 .. n
      /\ \A k \in 1 .. n : Nth(at, k) \in at /\ texts[k] = s[Nth(at, k)]
  BY <1>1, PickedProperty
<1> HIDE DEF texts, n
<1>5. \A k \in 1 .. n : texts[k].n \in Nat
  <2>1. \A k \in 1 .. n : texts[k] \in Tokens
    BY <1>4, ElementOfSeq
  <2> QED
    BY <2>1 DEF Tokens
<1>6. TextOf(s) \in [1 .. n -> Nat]
  BY <1>3, <1>4, <1>5
<1>7. TextOf(s) \in Seq(Nat)
  BY <1>4, <1>6
<1>8. Len(TextOf(s)) = n
  BY <1>3, <1>4, <1>7, LenProperties
<1>9. \A k \in 1 .. n : TextOf(s)[k] = s[Nth(at, k)].n
  BY <1>3, <1>4
<1> QED
  BY <1>1, <1>2, <1>4, <1>7, <1>8, <1>9 DEF at, n

LEMMA TextConcat ==
    ASSUME NEW a \in Seq(Tokens), NEW b \in Seq(Tokens)
    PROVE  TextOf(a \o b) = TextOf(a) \o TextOf(b)
<1> DEFINE A == TextAt(a)
           B == TextAt(b)
           S == TextAt(a \o b)
           l == Cardinality(A)
           m == Cardinality(B)
           q == [k \in 1 .. l + m |-> IF k <= l THEN Nth(A, k) ELSE Nth(B, k - l) + Len(a)]
<1>1. /\ a \o b \in Seq(Tokens) /\ Len(a) \in Nat /\ Len(b) \in Nat
      /\ Len(a \o b) = Len(a) + Len(b)
      /\ \A i \in 1 .. Len(a) : (a \o b)[i] = a[i]
      /\ \A i \in 1 .. Len(b) : (a \o b)[i + Len(a)] = b[i]
  BY ConcatProperties, LenProperties
<1>2. /\ IsFiniteSet(A) /\ A \subseteq 1 .. Len(a) /\ A \subseteq Int /\ l \in Nat
      /\ TextOf(a) \in Seq(Nat) /\ Len(TextOf(a)) = l
      /\ \A k \in 1 .. l : Nth(A, k) \in A /\ TextOf(a)[k] = a[Nth(A, k)].n
  BY TextProperty
<1>3. /\ IsFiniteSet(B) /\ B \subseteq 1 .. Len(b) /\ B \subseteq Int /\ m \in Nat
      /\ TextOf(b) \in Seq(Nat) /\ Len(TextOf(b)) = m
      /\ \A k \in 1 .. m : Nth(B, k) \in B /\ TextOf(b)[k] = b[Nth(B, k)].n
  BY TextProperty
<1>4. /\ S \subseteq Int /\ TextOf(a \o b) \in Seq(Nat)
      /\ Len(TextOf(a \o b)) = Cardinality(S)
      /\ \A k \in 1 .. Cardinality(S) : TextOf(a \o b)[k] = (a \o b)[Nth(S, k)].n
  BY <1>1, TextProperty
<1>5. /\ \A i \in 1 .. Len(a) : i \in S <=> i \in A
      /\ \A i \in 1 .. Len(b) : i + Len(a) \in S <=> i \in B
      /\ S \subseteq 1 .. Len(a) + Len(b)
  <2>1. /\ DOMAIN (a \o b) = 1 .. Len(a) + Len(b)
        /\ DOMAIN a = 1 .. Len(a) /\ DOMAIN b = 1 .. Len(b)
    BY <1>1, LenProperties
  <2>2. \A i \in 1 .. Len(a) : i \in S <=> i \in A
    BY <1>1, <2>1 DEF TextAt
  <2>3. \A i \in 1 .. Len(b) : i + Len(a) \in 1 .. Len(a) + Len(b)
    BY <1>1
  <2>4. \A i \in 1 .. Len(b) : i + Len(a) \in S <=> i \in B
    BY <1>1, <2>1, <2>3 DEF TextAt
  <2>5. S \subseteq 1 .. Len(a) + Len(b)
    BY <2>1 DEF TextAt
  <2> QED
    BY <2>2, <2>4, <2>5
<1>6. /\ \A k, j \in 1 .. l : k < j => Nth(A, k) < Nth(A, j)
      /\ \A i \in A : \E k \in 1 .. l : Nth(A, k) = i
  BY <1>2, NthProperty
<1>7. /\ \A k, j \in 1 .. m : k < j => Nth(B, k) < Nth(B, j)
      /\ \A i \in B : \E k \in 1 .. m : Nth(B, k) = i
  BY <1>3, NthProperty
<1> HIDE DEF A, B, S, l, m
<1>8. ASSUME NEW k \in 1 .. l
      PROVE  /\ k \in 1 .. l + m /\ q[k] = Nth(A, k)
             /\ Nth(A, k) \in S /\ Nth(A, k) \in 1 .. Len(a)
  <2>1. k \in 1 .. l + m /\ k <= l
    BY <1>2, <1>3
  <2>2. q[k] = Nth(A, k)
    BY <2>1
  <2>3. Nth(A, k) \in A /\ Nth(A, k) \in 1 .. Len(a)
    BY <1>2
  <2> HIDE DEF q
  <2> QED
    BY <1>5, <2>1, <2>2, <2>3
<1>9. ASSUME NEW k \in 1 .. m
      PROVE  /\ k + l \in 1 .. l + m /\ q[k + l] = Nth(B, k) + Len(a)
             /\ Nth(B, k) + Len(a) \in S /\ Nth(B, k) \in 1 .. Len(b)
  <2>1. k + l \in 1 .. l + m /\ ~(k + l <= l) /\ (k + l) - l = k
    BY <1>2, <1>3
  <2>2. q[k + l] = Nth(B, k) + Len(a)
    BY <2>1
  <2>3. Nth(B, k) \in B /\ Nth(B, k) \in 1 .. Len(b)
    BY <1>3
  <2> HIDE DEF q
  <2> QED
    BY <1>5, <2>1, <2>2, <2>3
<1>10. \A k \in 1 .. l + m : k \in 1 .. l \/ \E j \in 1 .. m : k = j + l
  <2> SUFFICES ASSUME NEW k \in 1 .. l + m, k \notin 1 .. l
               PROVE  \E j \in 1 .. m : k = j + l
    OBVIOUS
  <2>1. k - l \in 1 .. m /\ k = (k - l) + l
    BY <1>2, <1>3
  <2> QED
    BY <2>1
<1>11. DOMAIN q = 1 .. l + m
  OBVIOUS
<1> HIDE DEF q
<1>12. q \in [1 .. l + m -> S]
  <2>1. \A k \in 1 .. l + m : q[k] \in S
    BY <1>8, <1>9, <1>10
  <2>2. q = [k \in 1 .. l + m |-> q[k]]
    BY DEF q
  <2> QED
    BY <2>1, <2>2
<1>13. ASSUME NEW k \in 1 .. l + m, NEW j \in 1 .. l + m, k < j
       PROVE  q[k] < q[j]
  <2>1. CASE k \in 1 .. l /\ j \in 1 .. l
    BY <1>6, <1>8, <1>13, <2>1
  <2>2. CASE k \in 1 .. l /\ j \notin 1 .. l
    <3>1. PICK h \in 1 .. m : j = h + l
      BY <1>10, <2>2
    <3>2. q[k] \in 1 .. Len(a) /\ q[j] = Nth(B, h) + Len(a) /\ Nth(B, h) \in 1 .. Len(b)
      BY <1>8, <1>9, <2>2, <3>1
    <3> QED
      BY <1>1, <3>2
  <2>3. CASE k \notin 1 .. l
    <3>1. PICK h \in 1 .. m : k = h + l
      BY <1>10, <2>3
    <3>2. j \notin 1 .. l
      BY <1>2, <1>13, <2>3
    <3>3. PICK g \in 1 .. m : j = g + l
      BY <1>10, <3>2
    <3>4. h < g
      BY <1>2, <1>3, <1>13, <3>1, <3>3
    <3>5. Nth(B, h) < Nth(B, g) /\ Nth(B, h) \in Int /\ Nth(B, g) \in Int
      BY <1>3, <1>7, <3>4
    <3> QED
      BY <1>1, <1>9, <3>1, <3>3, <3>5
  <2> QED
    BY <2>1, <2>2, <2>3
<1>14. ASSUME NEW i \in S PROVE \E k \in 1 .. l + m : q[k] = i
  <2>1. CASE i \in 1 .. Len(a)
    <3>1. PICK k \in 1 .. l : Nth(A, k) = i
      BY <1>5, <1>6, <2>1
    <3> QED
      BY <1>8, <3>1
  <2>2. CASE i \notin 1 .. Len(a)
    <3>1. i - Len(a) \in 1 .. Len(b) /\ (i - Len(a)) + Len(a) = i
      BY <1>1, <1>5, <2>2
    <3>2. PICK k \in 1 .. m : Nth(B, k) = i - Len(a)
      BY <1>5, <1>7, <3>1
    <3> QED
      BY <1>9, <3>1, <3>2
  <2> QED
    BY <2>1, <2>2
<1>15. /\ Cardinality(S) = l + m
       /\ \A k \in 1 .. l + m : Nth(S, k) = q[k]
  <2> DEFINE n == l + m
  <2>1. n \in Nat /\ S \subseteq Int
    BY <1>2, <1>3, <1>4
  <2>0. q \in [1 .. n -> S]
    BY <1>12
  <2>2. \A k, j \in 1 .. n : k < j => q[k] < q[j]
    BY <1>13
  <2>3. \A i \in S : \E k \in 1 .. n : q[k] = i
    BY <1>14
  <2> HIDE DEF n
  <2>4. Cardinality(S) = n /\ \A k \in 1 .. n : Nth(S, k) = q[k]
    BY <2>0, <2>1, <2>2, <2>3, NthIs, ZenonT(60)
  <2> QED
    BY <2>4 DEF n
<1> DEFINE ta == TextOf(a)
           tb == TextOf(b)
           both == ta \o tb
<1>16. /\ both \in Seq(Nat) /\ Len(both) = l + m
       /\ \A k \in 1 .. l : both[k] = TextOf(a)[k]
       /\ \A k \in 1 .. m : both[k + l] = TextOf(b)[k]
  <2>1. ta \in Seq(Nat) /\ tb \in Seq(Nat) /\ Len(ta) = l /\ Len(tb) = m
    BY <1>2, <1>3
  <2> HIDE DEF ta, tb
  <2>2. both \in Seq(Nat) /\ Len(both) = l + m
    BY <2>1, ConcatProperties
  <2>3. \A k \in 1 .. l : both[k] = ta[k]
    BY <2>1
  <2>4. ASSUME NEW k \in 1 .. m PROVE both[k + l] = tb[k]
    <3>1. k + l \in 1 .. Len(ta) + Len(tb) /\ ~(k + l <= Len(ta)) /\ (k + l) - Len(ta) = k
      BY <1>2, <1>3, <2>1
    <3>2. both[k + l] = tb[(k + l) - Len(ta)]
      BY <2>1, <3>1, ConcatProperties
    <3> QED
      BY <3>1, <3>2
  <2> QED
    BY <2>2, <2>3, <2>4 DEF ta, tb
<1>17. ASSUME NEW k \in 1 .. l + m PROVE TextOf(a \o b)[k] = both[k]
  <2>1. TextOf(a \o b)[k] = (a \o b)[q[k]].n
    BY <1>4, <1>15
  <2> HIDE DEF both
  <2>2. CASE k \in 1 .. l
    <3>1. (a \o b)[q[k]] = a[Nth(A, k)]
      BY <1>1, <1>8, <2>2
    <3> QED
      BY <1>2, <1>16, <2>1, <2>2, <3>1
  <2>3. CASE k \notin 1 .. l
    <3>1. PICK h \in 1 .. m : k = h + l
      BY <1>10, <2>3
    <3>2. (a \o b)[q[k]] = b[Nth(B, h)]
      BY <1>1, <1>9, <3>1
    <3> QED
      BY <1>3, <1>16, <2>1, <3>1, <3>2
  <2> QED
    BY <2>2, <2>3
<1> HIDE DEF both
<1>18. TextOf(a \o b) = both
  BY <1>4, <1>15, <1>16, <1>17, SeqEqual
<1> QED
  BY <1>18 DEF both


LEMMA TextShort ==
    ASSUME NEW s \in Seq(Tokens)
    PROVE  /\ TextAt(s) = {} => TextOf(s) = <<>>
           /\ TextAt(s) = {1} => TextOf(s) = <<s[1].n>>
<1> DEFINE at == TextAt(s)
<1>1. /\ at \subseteq Int /\ Cardinality(at) \in Nat /\ TextOf(s) \in Seq(Nat)
      /\ Len(TextOf(s)) = Cardinality(at)
      /\ \A k \in 1 .. Cardinality(at) : Nth(at, k) \in at /\ TextOf(s)[k] = s[Nth(at, k)].n
  BY TextProperty
<1>2. CASE at = {}
  BY <1>1, <1>2, FS_EmptySet, EmptySeq
<1>3. CASE at = {1}
  <2>1. Cardinality(at) = 1
    BY <1>3, FS_Singleton
  <2>2. Len(TextOf(s)) = 1 /\ TextOf(s)[1] = s[1].n
    <3>1. Nth(at, 1) \in at /\ TextOf(s)[1] = s[Nth(at, 1)].n
      BY <1>1, <2>1
    <3> QED
      BY <1>1, <1>3, <2>1, <3>1
  <2> DEFINE x == s[1].n
             t == TextOf(s)
  <2>3. t \in Seq(Nat) /\ Len(t) = 1 /\ t[1] = x
    BY <1>1, <2>2
  <2> HIDE DEF x, t
  <2>4. x \in Nat
    <3>1. 1 \in 1 .. Len(t)
      BY <2>3
    <3> QED
      BY <2>3, <3>1, ElementOfSeq
  <2>5. <<x>> \in Seq(Nat) /\ Len(<<x>>) = 1 /\ <<x>>[1] = x
    BY <2>4
  <2>6. t = <<x>>
    BY <2>3, <2>5, SeqEqual
  <2> QED
    BY <1>3, <2>6, FS_Singleton DEF x, t
<1> QED
  BY <1>2, <1>3

(* Text is not lost by leaving out tokens that are none.                   *)
LEMMA TextPicked ==
    ASSUME NEW s \in Seq(Tokens), NEW S, S \subseteq DOMAIN s, TextAt(s) \subseteq S
    PROVE  TextOf(Picked(s, S)) = TextOf(s)
<1> DEFINE p == Picked(s, S)
           A == TextAt(s)
           B == TextAt(p)
           m == Cardinality(B)
           q == [k \in 1 .. m |-> Nth(S, Nth(B, k))]
<1>1. /\ IsFiniteSet(S) /\ S \subseteq Int /\ Cardinality(S) \in Nat
      /\ p \in Seq(Tokens) /\ DOMAIN p = 1 .. Cardinality(S)
      /\ \A k \in 1 .. Cardinality(S) : Nth(S, k) \in S /\ p[k] = s[Nth(S, k)]
  BY PickedProperty
<1>2. /\ \A k, l \in 1 .. Cardinality(S) : k < l => Nth(S, k) < Nth(S, l)
      /\ \A i \in S : Rank(S, i) \in 1 .. Cardinality(S) /\ Nth(S, Rank(S, i)) = i
  BY <1>1, NthProperty
<1>3. /\ A \subseteq Int /\ TextOf(s) \in Seq(Nat) /\ Len(TextOf(s)) = Cardinality(A)
      /\ \A k \in 1 .. Cardinality(A) : TextOf(s)[k] = s[Nth(A, k)].n
  BY TextProperty
<1>4. /\ IsFiniteSet(B) /\ B \subseteq Int /\ m \in Nat
      /\ TextOf(p) \in Seq(Nat) /\ Len(TextOf(p)) = m
      /\ \A k \in 1 .. m : Nth(B, k) \in B /\ TextOf(p)[k] = p[Nth(B, k)].n
  BY <1>1, TextProperty
<1>5. /\ \A k, l \in 1 .. m : k < l => Nth(B, k) < Nth(B, l)
      /\ \A i \in B : \E k \in 1 .. m : Nth(B, k) = i
  BY <1>4, NthProperty
<1>6. /\ B \subseteq 1 .. Cardinality(S)
      /\ \A k \in 1 .. Cardinality(S) : k \in B <=> Nth(S, k) \in A
      /\ A \subseteq S
  <2>1. \A k \in 1 .. Cardinality(S) : k \in B <=> p[k].kind = "text"
    BY <1>1 DEF TextAt
  <2>2. \A i \in S : i \in A <=> s[i].kind = "text"
    BY DEF TextAt
  <2>3. B \subseteq DOMAIN p
    BY DEF TextAt
  <2> HIDE DEF p, A, B
  <2>4. \A k \in 1 .. Cardinality(S) : k \in B <=> Nth(S, k) \in A
    BY <1>1, <2>1, <2>2
  <2> QED
    BY <1>1, <2>3, <2>4 DEF A
<1>7. /\ DOMAIN q = 1 .. m
      /\ \A k \in 1 .. m : q[k] = Nth(S, Nth(B, k))
  OBVIOUS
<1>8. q = [k \in 1 .. m |-> q[k]]
  OBVIOUS
<1> HIDE DEF p, A, B, m, q
<1>9. \A k \in 1 .. m : Nth(B, k) \in 1 .. Cardinality(S) /\ q[k] \in A
  BY <1>4, <1>6, <1>7
<1>10. q \in [1 .. m -> A]
  BY <1>8, <1>9
<1>11. \A k, l \in 1 .. m : k < l => q[k] < q[l]
  BY <1>2, <1>5, <1>7, <1>9
<1>12. \A i \in A : \E k \in 1 .. m : q[k] = i
  <2> SUFFICES ASSUME NEW i \in A PROVE \E k \in 1 .. m : q[k] = i
    OBVIOUS
  <2>1. Rank(S, i) \in B /\ Nth(S, Rank(S, i)) = i
    BY <1>2, <1>6
  <2>2. PICK k \in 1 .. m : Nth(B, k) = Rank(S, i)
    BY <1>5, <2>1
  <2> QED
    BY <1>7, <2>1, <2>2
<1>13. A \subseteq Int /\ m \in Nat
  BY <1>3, <1>4
<1>14. Cardinality(A) = m /\ \A k \in 1 .. m : Nth(A, k) = q[k]
  BY <1>10, <1>11, <1>12, <1>13, NthIs, ZenonT(60)
<1>15. \A k \in 1 .. m : TextOf(s)[k] = TextOf(p)[k]
  <2> SUFFICES ASSUME NEW k \in 1 .. m PROVE TextOf(s)[k] = TextOf(p)[k]
    OBVIOUS
  <2>1. TextOf(s)[k] = s[Nth(S, Nth(B, k))].n
    BY <1>3, <1>7, <1>14
  <2>2. TextOf(p)[k] = s[Nth(S, Nth(B, k))].n
    BY <1>1, <1>4, <1>9
  <2> QED
    BY <2>1, <2>2
<1>16. TextOf(s) = TextOf(p)
  BY <1>3, <1>4, <1>14, <1>15, SeqEqual
<1> QED
  BY <1>16 DEF p


-----------------------------------------------------------------------------
(* Frames, and what the parser takes from them.                            *)

LEMMA Split ==
    ASSUME NEW T, NEW s \in Seq(T), NEW m \in 0 .. Len(s)
    PROVE  /\ SubSeq(s, 1, m) \in Seq(T) /\ Len(SubSeq(s, 1, m)) = m
           /\ SubSeq(s, m + 1, Len(s)) \in Seq(T)
           /\ Len(SubSeq(s, m + 1, Len(s))) = Len(s) - m
           /\ s = SubSeq(s, 1, m) \o SubSeq(s, m + 1, Len(s))
<1> DEFINE a == SubSeq(s, 1, m)
           b == SubSeq(s, m + 1, Len(s))
<1>1. Len(s) \in Nat /\ m \in Nat /\ m <= Len(s) /\ \A i \in 1 .. Len(s) : s[i] \in T
  BY LenProperties, ElementOfSeq
<1>2. /\ a \in Seq(T) /\ Len(a) = m
      /\ \A i \in 1 .. m : a[i] = s[i]
  <2>1. \A i \in 1 .. m : s[i] \in T
    BY <1>1
  <2>2. /\ a \in Seq(T) /\ Len(a) = (IF 1 <= m THEN m - 1 + 1 ELSE 0)
        /\ \A i \in 1 .. m - 1 + 1 : a[i] = s[1 + i - 1]
    BY <1>1, <2>1, SubSeqProperties
  <2> HIDE DEF a
  <2> QED
    BY <1>1, <2>2
<1>3. /\ b \in Seq(T) /\ Len(b) = Len(s) - m
      /\ \A i \in 1 .. Len(s) - m : b[i] = s[m + i]
  <2>1. \A i \in m + 1 .. Len(s) : s[i] \in T
    BY <1>1
  <2>2. /\ b \in Seq(T) /\ Len(b) = (IF m + 1 <= Len(s) THEN Len(s) - (m + 1) + 1 ELSE 0)
        /\ \A i \in 1 .. Len(s) - (m + 1) + 1 : b[i] = s[(m + 1) + i - 1]
    BY <1>1, <2>1, SubSeqProperties
  <2> HIDE DEF b
  <2>3. \A i \in 1 .. Len(s) - m : i \in 1 .. Len(s) - (m + 1) + 1 /\ (m + 1) + i - 1 = m + i
    BY <1>1
  <2> QED
    BY <1>1, <2>2, <2>3
<1> HIDE DEF a, b
<1>4. /\ a \o b \in Seq(T) /\ Len(a \o b) = Len(s)
      /\ \A i \in 1 .. Len(s) : (a \o b)[i] = IF i <= m THEN a[i] ELSE b[i - m]
  BY <1>1, <1>2, <1>3, ConcatProperties
<1>5. \A i \in 1 .. Len(s) : (a \o b)[i] = s[i]
  <2> SUFFICES ASSUME NEW i \in 1 .. Len(s) PROVE (a \o b)[i] = s[i]
    OBVIOUS
  <2>1. CASE i <= m
    BY <1>1, <1>2, <1>4, <2>1
  <2>2. CASE ~(i <= m)
    <3>1. i - m \in 1 .. Len(s) - m /\ m + (i - m) = i
      BY <1>1, <2>2
    <3> QED
      BY <1>3, <1>4, <2>2, <3>1
  <2> QED
    BY <2>1, <2>2
<1>6. s = a \o b
  BY <1>4, <1>5, SeqEqual
<1> QED
  BY <1>2, <1>3, <1>6 DEF a, b

LEMMA LinedConcat ==
    ASSUME NEW a \in Seq(Tokens), NEW b \in Seq(Tokens)
    PROVE  /\ Lined(a \o b) => Lined(a)
           /\ Len(a) % 3 = 0 => (Framed(a \o b) <=> Lined(a) /\ Framed(b))
<1>1. /\ a \o b \in Seq(Tokens) /\ Len(a) \in Nat /\ Len(b) \in Nat
      /\ Len(a \o b) = Len(a) + Len(b)
      /\ \A i \in 1 .. Len(a) : (a \o b)[i] = a[i]
      /\ \A i \in 1 .. Len(b) : (a \o b)[i + Len(a)] = b[i]
  BY ConcatProperties, LenProperties
<1>2. /\ DOMAIN (a \o b) = 1 .. Len(a) + Len(b)
      /\ DOMAIN a = 1 .. Len(a) /\ DOMAIN b = 1 .. Len(b)
  BY <1>1, LenProperties
<1> DEFINE l == Len(a)
           m == Len(b)
           c == a \o b
<1> HIDE DEF l, m, c
<1>3. /\ l \in Nat /\ m \in Nat /\ Len(a) = l /\ Len(b) = m /\ Len(c) = l + m
      /\ DOMAIN c = 1 .. l + m /\ DOMAIN a = 1 .. l /\ DOMAIN b = 1 .. m
      /\ \A i \in 1 .. l : c[i] = a[i]
      /\ \A i \in 1 .. m : c[i + l] = b[i]
  BY <1>1, <1>2 DEF l, m, c
<1>4. Lined(c) => Lined(a)
  <2>1. \A i \in 1 .. l : i \in 1 .. l + m
    BY <1>3
  <2> QED
    BY <1>3, <2>1 DEF Lined
<1>5. ASSUME l % 3 = 0 PROVE Framed(c) <=> Lined(a) /\ Framed(b)
  <2>0. l \in Nat /\ m \in Nat
    BY <1>3
  <2>1. (l + m) % 3 = 0 <=> m % 3 = 0
    BY <1>5, <2>0
  <2>2. \A i \in 1 .. m : i + l \in 1 .. l + m /\ (i % 3 = 1 <=> (i + l) % 3 = 1)
    BY <1>3, <1>5
  <2>3. \A i \in 1 .. l + m : i \in 1 .. l \/ (i - l \in 1 .. m /\ i = (i - l) + l)
    BY <1>3
  <2>4. ASSUME Lined(c) PROVE Lined(b)
    BY <1>3, <2>2, <2>4 DEF Lined
  <2>5. ASSUME Lined(a), Lined(b) PROVE Lined(c)
    <3> SUFFICES ASSUME NEW i \in 1 .. l + m PROVE c[i] # NL <=> i % 3 = 1
      BY <1>3 DEF Lined
    <3>1. CASE i \in 1 .. l
      BY <1>3, <2>5, <3>1 DEF Lined
    <3>2. CASE i \notin 1 .. l
      <4>1. PICK k \in 1 .. m : i = k + l
        BY <2>3, <3>2
      <4>2. c[i] = b[k] /\ (k % 3 = 1 <=> i % 3 = 1)
        BY <1>3, <2>2, <4>1
      <4>3. b[k] # NL <=> k % 3 = 1
        BY <1>3, <2>5 DEF Lined
      <4> QED
        BY <4>2, <4>3
    <3> QED
      BY <3>1, <3>2
  <2> QED
    BY <1>3, <1>4, <2>1, <2>4, <2>5 DEF Framed
<1> QED
  BY <1>4, <1>5 DEF l, c

(* A frame adds the text of its body.                                      *)
LEMMA FrameProperty ==
    ASSUME NEW body \in Tokens, body # NL, body.kind # "nl"
    PROVE  /\ Frame(body) \in Seq(Tokens) /\ Framed(Frame(body))
           /\ Frame(body)[1] = body /\ 1 \in DOMAIN Frame(body)
           /\ TextOf(Frame(body)) = IF body.kind = "text" THEN <<body.n>> ELSE <<>>
<1> DEFINE f == Frame(body)
<1>1. NL \in Tokens /\ NL.kind = "nl"
  BY DEF NL, Token, Tokens
<1>2. /\ f \in Seq(Tokens) /\ Len(f) = 3 /\ DOMAIN f = 1 .. 3
      /\ f[1] = body /\ f[2] = NL /\ f[3] = NL
  BY <1>1 DEF Frame
<1> HIDE DEF f
<1>3. Framed(f)
  <2>1. \A i \in 1 .. 3 : f[i] # NL <=> i % 3 = 1
    <3> SUFFICES ASSUME NEW i \in 1 .. 3 PROVE f[i] # NL <=> i % 3 = 1
      OBVIOUS
    <3>1. (i = 1 \/ i = 2 \/ i = 3) /\ 1 % 3 = 1 /\ 2 % 3 # 1 /\ 3 % 3 # 1
      OBVIOUS
    <3> QED
      BY <1>2, <3>1
  <2>2. Len(f) % 3 = 0
    BY <1>2
  <2> QED
    BY <1>2, <2>1, <2>2 DEF Framed, Lined
<1>4. TextAt(f) = IF body.kind = "text" THEN {1} ELSE {}
  <2>1. TextAt(f) = {i \in 1 .. 3 : f[i].kind = "text"}
    BY <1>2 DEF TextAt
  <2>2. \A i \in 1 .. 3 : f[i].kind = "text" <=> i = 1 /\ body.kind = "text"
    <3> SUFFICES ASSUME NEW i \in 1 .. 3
                 PROVE  f[i].kind = "text" <=> i = 1 /\ body.kind = "text"
      OBVIOUS
    <3>1. i = 1 \/ i = 2 \/ i = 3
      OBVIOUS
    <3> QED
      BY <1>1, <1>2, <3>1
  <2> QED
    BY <2>1, <2>2
<1>5. TextOf(f) = IF body.kind = "text" THEN <<body.n>> ELSE <<>>
  BY <1>2, <1>4, TextShort
<1> QED
  BY <1>2, <1>3, <1>5 DEF f


(* Of what has arrived the parser takes all but less than a frame.         *)
LEMMA Cut ==
    ASSUME NEW b \in Seq(Tokens), Lined(b)
    PROVE  /\ LastBlank(b) \in 0 .. Len(b)
           /\ LastBlank(b) % 3 = 0 /\ Len(b) - LastBlank(b) <= 2
<1> DEFINE l == Len(b)
           ends == {i \in DOMAIN b : Blank(b, i)}
           m == l - (l % 3)
<1>1. l \in Nat /\ DOMAIN b = 1 .. l
  BY LenProperties
<1>2. LastBlank(b) = IF ends = {} THEN 0 ELSE CHOOSE i \in ends : \A j \in ends : j <= i
  BY DEF LastBlank
<1>3. ends = {i \in 1 .. l : i % 3 = 0}
  <2>1. \A i \in 1 .. l : Blank(b, i) <=> i % 3 = 0
    <3> SUFFICES ASSUME NEW i \in 1 .. l PROVE Blank(b, i) <=> i % 3 = 0
      OBVIOUS
    <3>1. CASE i = 1
      BY <3>1 DEF Blank
    <3>2. CASE i # 1
      <4>1. i \in Int /\ i > 1 /\ i - 1 \in 1 .. l
        BY <1>1, <3>2
      <4>2. b[i] # NL <=> i % 3 = 1
        BY <1>1 DEF Lined
      <4>3. b[i - 1] # NL <=> (i - 1) % 3 = 1
        BY <1>1, <4>1 DEF Lined
      <4>4. (i % 3 # 1 /\ (i - 1) % 3 # 1) <=> i % 3 = 0
        BY <4>1
      <4> QED
        BY <4>1, <4>2, <4>3, <4>4 DEF Blank
    <3> QED
      BY <3>1, <3>2
  <2> QED
    BY <1>1, <2>1
<1> HIDE DEF l, ends
<1>4. m \in 0 .. l /\ m % 3 = 0 /\ l - m <= 2 /\ \A i \in 1 .. l : i % 3 = 0 => i <= m
  BY <1>1
<1> HIDE DEF m
<1>5. LastBlank(b) = m
  <2>1. CASE ends = {}
    <3>1. m \notin 1 .. l
      BY <1>3, <1>4, <2>1
    <3>2. m = 0
      BY <1>1, <1>4, <3>1
    <3> QED
      BY <1>2, <2>1, <3>2
  <2>2. CASE ends # {}
    <3>1. PICK i \in ends : TRUE
      BY <2>2
    <3>2. i \in 1 .. l /\ i <= m
      BY <1>3, <1>4
    <3>3. m \in 1 .. l
      BY <1>1, <1>4, <3>2
    <3>4. m \in ends /\ \A j \in ends : j <= m
      BY <1>3, <1>4, <3>3
    <3>5. \A j \in ends : (\A k \in ends : k <= j) => j = m
      <4> SUFFICES ASSUME NEW j \in ends, \A k \in ends : k <= j PROVE j = m
        OBVIOUS
      <4>1. m <= j /\ j <= m /\ j \in Int /\ m \in Int
        BY <1>3, <1>4, <3>4
      <4> QED
        BY <4>1
    <3>6. (CHOOSE j \in ends : \A k \in ends : k <= j) = m
      BY <3>4, <3>5
    <3> QED
      BY <1>2, <2>2, <3>6
  <2> QED
    BY <2>1, <2>2
<1> QED
  BY <1>1, <1>4, <1>5 DEF l

(* The events of whole frames hold their text and their errors.            *)
LEMMA EventsProperty ==
    ASSUME NEW c \in Seq(Tokens), Framed(c)
    PROVE  /\ Events(c) \in Seq(Tokens)
           /\ TextOf(Events(c)) = TextOf(c)
           /\ \A i \in DOMAIN c : IsError(c[i]) => Throws(Events(c))
<1> DEFINE S == Starts(c)
           l == Len(c)
<1>1. l \in Nat /\ DOMAIN c = 1 .. l
  BY LenProperties
<1>2. S \subseteq DOMAIN c
  BY DEF Starts
<1>3. ASSUME NEW i \in DOMAIN c, c[i] # NL PROVE i \in S
  <2>1. i % 3 = 1 /\ i \in 1 .. l
    BY <1>1, <1>3 DEF Framed, Lined
  <2>2. ASSUME i # 1 PROVE Blank(c, i - 1)
    <3>0. i \in Int /\ l \in Int /\ 1 <= i /\ i <= l
      BY <1>1, <2>1
    <3> HIDE DEF l
    <3>1. (i - 1) - 1 = i - 2 /\ i - 1 > 1 /\ (i - 1) % 3 # 1 /\ (i - 2) % 3 # 1
      <4>1. i \in Int /\ i >= 1 /\ i # 1 /\ i % 3 = 1
        BY <2>1, <2>2, <3>0
      <4>2. i >= 4
        BY <4>1
      <4>3. (i - 1) % 3 = 0 /\ (i - 2) % 3 = 2
        BY <4>1
      <4>4. (i - 1) - 1 = i - 2 /\ i - 1 > 1
        BY <4>1, <4>2
      <4>5. 0 # 1 /\ 2 # 1
        OBVIOUS
      <4> QED
        BY <4>3, <4>4, <4>5
    <3>2. i - 1 \in 1 .. l /\ i - 2 \in 1 .. l
      BY <3>0, <3>1
    <3>3. c[i - 1] = NL /\ c[i - 2] = NL
      BY <1>1, <3>1, <3>2 DEF Framed, Lined
    <3> QED
      BY <3>1, <3>3 DEF Blank
  <2> QED
    BY <1>3, <2>2 DEF Starts
<1>4. TextAt(c) \subseteq S
  <2>1. \A i \in DOMAIN c : c[i].kind = "text" => c[i] # NL
    BY DEF NL, Token
  <2> QED
    BY <1>3, <2>1 DEF TextAt
<1> HIDE DEF S
<1>5. /\ Picked(c, S) \in Seq(Tokens)
      /\ DOMAIN Picked(c, S) = 1 .. Cardinality(S)
      /\ \A i \in S : \E k \in 1 .. Cardinality(S) : Picked(c, S)[k] = c[i]
  BY <1>2, PickedProperty
<1>6. TextOf(Picked(c, S)) = TextOf(c)
  BY <1>2, <1>4, TextPicked
<1>7. ASSUME NEW i \in DOMAIN c, IsError(c[i]) PROVE Throws(Picked(c, S))
  <2>1. c[i] # NL
    BY <1>7 DEF IsError, NL, Token
  <2>2. i \in S
    BY <1>3, <2>1
  <2> QED
    BY <1>5, <1>7, <2>2 DEF Throws
<1>8. Events(c) = Picked(c, S)
  BY DEF Events, S
<1> QED
  BY <1>5, <1>6, <1>7, <1>8

(* Events are handled up to the first error.                               *)
LEMMA HandledProperty ==
    ASSUME NEW events \in Seq(Tokens)
    PROVE  \E m \in 0 .. Len(events) :
             /\ [i \in Handled(events) |-> events[i]] = SubSeq(events, 1, m)
             /\ ~Throws(events) => m = Len(events)
<1> DEFINE l == Len(events)
           E == {i \in DOMAIN events : IsError(events[i])}
           first == IF E = {} THEN l + 1 ELSE Nth(E, 1)
<1>1. l \in Nat /\ DOMAIN events = 1 .. l /\ \A i \in 1 .. l : events[i] \in Tokens
  BY LenProperties, ElementOfSeq
<1>2. E \subseteq 1 .. l
  BY <1>1
<1>3. Handled(events) = {i \in 1 .. l : \A j \in E : i < j}
  BY <1>1 DEF Handled
<1>4. Throws(events) <=> E # {}
  BY DEF Throws
<1> HIDE DEF l, E
<1>5. first \in 1 .. l + 1 /\ (E = {} => first = l + 1)
      /\ (E # {} => first \in E /\ \A j \in E : first <= j)
  <2>1. CASE E = {}
    BY <1>1, <2>1
  <2>2. CASE E # {}
    <3>1. IsFiniteSet(1 .. l)
      BY <1>1, FS_Interval
    <3>2. IsFiniteSet(E) /\ E \subseteq Int
      <4>1. \A k \in 1 .. l : k \in Int
        BY <1>1
      <4> QED
        BY <1>2, <3>1, <4>1, FS_Subset
    <3>3. /\ Cardinality(E) \in Nat
          /\ \A k \in 1 .. Cardinality(E) : Nth(E, k) \in E
          /\ \A k, j \in 1 .. Cardinality(E) : k < j => Nth(E, k) < Nth(E, j)
          /\ \A i \in E : Rank(E, i) \in 1 .. Cardinality(E) /\ Nth(E, Rank(E, i)) = i
      BY <3>2, NthProperty
    <3>4. 1 \in 1 .. Cardinality(E)
      BY <2>2, <3>2, <3>3, FS_EmptySet
    <3>5. \A j \in E : Nth(E, 1) <= j
      <4> SUFFICES ASSUME NEW j \in E PROVE Nth(E, 1) <= j
        OBVIOUS
      <4>1. PICK k \in 1 .. Cardinality(E) : Nth(E, k) = j
        BY <3>3
      <4>2. k = 1 \/ 1 < k
        BY <3>3
      <4>3. Nth(E, 1) = j \/ Nth(E, 1) < j
        BY <3>3, <3>4, <4>1, <4>2
      <4>4. Nth(E, 1) \in Int /\ j \in Int
        BY <3>2, <3>3, <3>4
      <4> QED
        BY <4>3, <4>4
    <3>6. Nth(E, 1) \in E
      BY <3>3, <3>4
    <3>7. Nth(E, 1) \in 1 .. l + 1
      <4>1. \A k \in 1 .. l : k \in 1 .. l + 1
        BY <1>1
      <4> QED
        BY <1>2, <3>6, <4>1
    <3> QED
      BY <2>2, <3>5, <3>6, <3>7
  <2> QED
    BY <2>1, <2>2
<1> HIDE DEF first
<1>6. Handled(events) = 1 .. first - 1
  <2>1. ASSUME NEW i \in 1 .. l, \A j \in E : i < j PROVE i \in 1 .. first - 1
    <3>1. E = {} \/ i < first
      BY <1>5, <2>1
    <3> QED
      BY <1>1, <1>5, <3>1
  <2>2. ASSUME NEW i \in 1 .. first - 1 PROVE i \in 1 .. l /\ \A j \in E : i < j
    <3>1. i \in 1 .. l
      BY <1>1, <1>5
    <3>2. \A j \in E : first <= j /\ j \in Int
      BY <1>2, <1>5
    <3> QED
      BY <1>5, <3>1, <3>2
  <2> QED
    BY <1>3, <2>1, <2>2
<1> DEFINE m == first - 1
<1>7. m \in 0 .. l /\ (~Throws(events) => m = l)
  BY <1>1, <1>4, <1>5
<1>8. [i \in Handled(events) |-> events[i]] = SubSeq(events, 1, m)
  <2>1. [i \in Handled(events) |-> events[i]] = [i \in 1 .. m |-> events[i]]
    BY <1>6
  <2>2. SubSeq(events, 1, m) = [i \in 1 .. (1 + m) - 1 |-> events[i + 1 - 1]]
    BY <1>1, <1>7
  <2> QED
    BY <1>1, <1>7, <2>1, <2>2
<1> QED
  BY <1>7, <1>8 DEF l

(* Texts, and lines, are joined in any grouping.                           *)
LEMMA AssocTexts ==
    \A a, b, c \in Seq(Nat) : (a \o b) \o c = a \o (b \o c)
OBVIOUS

LEMMA AssocLines ==
    \A a, b, c \in Seq(Tokens) : (a \o b) \o c = a \o (b \o c)
OBVIOUS

LEMMA TextsProperty == Texts \subseteq Seq(Nat)
<1> SUFFICES ASSUME NEW t \in Texts PROVE t \in Seq(Nat)
  OBVIOUS
<1>1. PICK n \in 0 .. MaxDeltas : t \in [1 .. n -> 0 .. MaxDeltas]
  BY DEF Texts
<1>2. MaxDeltas \in Nat
  BY BoundsAssumption
<1>3. n \in Nat /\ t \in [1 .. n -> Nat]
  BY <1>1, <1>2
<1> QED
  BY <1>3

LEMMA PiecesProperty ==
    ASSUME NEW n \in Nat
    PROVE  /\ Pieces(n) \in Seq(Nat) /\ Len(Pieces(n)) = n
           /\ \A i \in 1 .. n : Pieces(n)[i] = i
           /\ Pieces(n) \o <<n + 1>> = Pieces(n + 1)
<1>1. \A k \in Nat : /\ Pieces(k) \in Seq(Nat) /\ Len(Pieces(k)) = k
                     /\ \A i \in 1 .. k : Pieces(k)[i] = i
  <2> SUFFICES ASSUME NEW k \in Nat
               PROVE  /\ Pieces(k) \in Seq(Nat) /\ Len(Pieces(k)) = k
                      /\ \A i \in 1 .. k : Pieces(k)[i] = i
    OBVIOUS
  <2>1. Pieces(k) \in [1 .. k -> Nat]
    BY DEF Pieces
  <2>2. Pieces(k) \in Seq(Nat)
    BY <2>1
  <2>3. DOMAIN Pieces(k) = 1 .. k /\ \A i \in 1 .. k : Pieces(k)[i] = i
    BY DEF Pieces
  <2> QED
    BY <2>2, <2>3, LenProperties
<1> DEFINE a == Pieces(n)
           b == Pieces(n + 1)
           one == <<n + 1>>
<1>2. /\ a \in Seq(Nat) /\ Len(a) = n /\ \A i \in 1 .. n : a[i] = i
      /\ b \in Seq(Nat) /\ Len(b) = n + 1 /\ \A i \in 1 .. n + 1 : b[i] = i
  BY <1>1
<1>3. one \in Seq(Nat) /\ Len(one) = 1 /\ one[1] = n + 1
  OBVIOUS
<1> HIDE DEF a, b, one
<1>4. /\ a \o one \in Seq(Nat) /\ Len(a \o one) = n + 1
      /\ \A i \in 1 .. n + 1 : (a \o one)[i] = IF i <= n THEN a[i] ELSE one[i - n]
  <2>1. /\ a \o one \in Seq(Nat) /\ Len(a \o one) = Len(a) + Len(one)
        /\ \A i \in 1 .. Len(a) + Len(one) :
             (a \o one)[i] = IF i <= Len(a) THEN a[i] ELSE one[i - Len(a)]
    BY <1>2, <1>3, ConcatProperties
  <2>2. Len(a) = n /\ Len(one) = 1
    BY <1>2, <1>3
  <2> QED
    BY <2>1, <2>2
<1>5. \A i \in 1 .. n + 1 : (a \o one)[i] = b[i]
  <2> SUFFICES ASSUME NEW i \in 1 .. n + 1 PROVE (a \o one)[i] = b[i]
    OBVIOUS
  <2>1. CASE i <= n
    BY <1>2, <1>4, <2>1
  <2>2. CASE ~(i <= n)
    <3>1. i = n + 1 /\ i - n = 1
      BY <2>2
    <3> QED
      BY <1>2, <1>3, <1>4, <2>2, <3>1
  <2> QED
    BY <2>1, <2>2
<1>6. a \o one = b
  BY <1>2, <1>4, <1>5, SeqEqual
<1> QED
  BY <1>2, <1>6 DEF a, b, one

(* The beginning of what the encoder sends is a text.                      *)
LEMMA PiecesPrefix ==
    ASSUME NEW r \in Seq(Nat), NEW x \in Seq(Nat), NEW n \in 0 .. MaxDeltas,
           r \o x = Pieces(n)
    PROVE  r \in Texts
<1>1. MaxDeltas \in Nat
  BY BoundsAssumption
<1>2. n \in Nat /\ n <= MaxDeltas
  BY <1>1
<1>3. /\ Len(r) \in Nat /\ Len(x) \in Nat /\ Len(r \o x) = Len(r) + Len(x)
      /\ r \in [1 .. Len(r) -> Nat]
      /\ \A i \in 1 .. Len(r) : (r \o x)[i] = r[i]
  BY ConcatProperties, LenProperties
<1> DEFINE l == Len(r)
           all == r \o x
<1> HIDE DEF l, all
<1>4. Len(all) = n /\ \A i \in 1 .. n : all[i] = i
  BY <1>2, PiecesProperty DEF all
<1>5. /\ l \in Nat /\ l <= n /\ r \in [1 .. l -> Nat]
      /\ \A i \in 1 .. l : all[i] = r[i]
  BY <1>2, <1>3, <1>4 DEF l, all
<1>6. \A i \in 1 .. l : r[i] \in 0 .. MaxDeltas
  <2> SUFFICES ASSUME NEW i \in 1 .. l PROVE r[i] \in 0 .. MaxDeltas
    OBVIOUS
  <2>1. i \in 1 .. n /\ i \in 0 .. MaxDeltas
    BY <1>1, <1>2, <1>5
  <2>2. r[i] = i
    BY <1>4, <1>5, <2>1
  <2> QED
    BY <2>1, <2>2
<1>7. r \in [1 .. l -> 0 .. MaxDeltas] /\ l \in 0 .. MaxDeltas
  BY <1>1, <1>2, <1>5, <1>6
<1> QED
  BY <1>7 DEF Texts

-----------------------------------------------------------------------------
(* The stream, step by step.                                               *)

LEMMA PendingProperty ==
    ASSUME Typed
    PROVE  /\ Pending \in Seq(Tokens) /\ reply \in Seq(Nat)
           /\ Len(Pending) = Len(buffer) + Len(wire)
           /\ TextOf(Pending) = TextOf(buffer) \o TextOf(wire)
           /\ TextOf(Pending) \in Seq(Nat)
<1>1. buffer \in Seq(Tokens) /\ wire \in Seq(Tokens) /\ reply \in Texts
  BY DEF Typed, TypeOK
<1>2. Pending \in Seq(Tokens) /\ Len(Pending) = Len(buffer) + Len(wire)
  BY <1>1, ConcatProperties DEF Pending
<1>3. TextOf(Pending) = TextOf(buffer) \o TextOf(wire)
  BY <1>1, TextConcat DEF Pending
<1>4. TextOf(Pending) \in Seq(Nat)
  BY <1>2, TextProperty
<1> QED
  BY <1>1, <1>2, <1>3, <1>4, TextsProperty

(* Nothing of a frame is left when all has been read.                      *)
LEMMA NothingLeft ==
    ASSUME Typed, Stream
    PROVE  wire = <<>> => buffer = <<>>
<1> SUFFICES ASSUME wire = <<>> PROVE buffer = <<>>
  OBVIOUS
<1>1. Len(Pending) % 3 = 0 /\ Len(buffer) <= 2
  BY DEF Stream, Framed
<1>2. Len(Pending) = Len(buffer) + Len(wire) /\ buffer \in Seq(Tokens)
  BY PendingProperty DEF Typed
<1>3. Len(buffer) \in Nat /\ Len(wire) = 0
  BY <1>2, LenProperties, EmptySeq
<1>4. Len(buffer) = 0
  BY <1>1, <1>2, <1>3
<1> QED
  BY <1>2, <1>4, EmptySeq

(* A chunk is read without an error, or with one.                          *)
LEMMA Parse ==
    ASSUME Typed, Stream, Reading, NEW n \in 1 .. Len(wire)
    PROVE  LET b == buffer \o SubSeq(wire, 1, n)
               rest == SubSeq(wire, n + 1, Len(wire))
               left == Rest(b) \o rest
               events == Events(Complete(b))
               text == reply \o TextOf([i \in Handled(events) |-> events[i]])
           IN  /\ text \in Texts /\ rest \in Seq(Tokens) /\ Rest(b) \in Seq(Tokens)
               /\ ~Throws(events) =>
                    /\ Framed(left) /\ Len(Rest(b)) <= 2
                    /\ text \o TextOf(left) = Pieces(produced)
                    /\ (\E i \in DOMAIN Pending : IsError(Pending[i])) =>
                          \E i \in DOMAIN left : IsError(left[i])
<1>1. /\ buffer \in Seq(Tokens) /\ wire \in Seq(Tokens) /\ reply \in Seq(Nat)
      /\ Pending \in Seq(Tokens) /\ produced \in 0 .. MaxDeltas
      /\ Framed(Pending) /\ reply \o TextOf(Pending) = Pieces(produced)
  BY PendingProperty DEF Typed, TypeOK, Stream
<1> DEFINE a == SubSeq(wire, 1, n)
           b == buffer \o a
           rest == SubSeq(wire, n + 1, Len(wire))
           L == LastBlank(b)
           c == Complete(b)
           r == Rest(b)
           p == r \o rest
           events == Events(c)
           text == reply \o TextOf([i \in Handled(events) |-> events[i]])
<1>2. a \in Seq(Tokens) /\ rest \in Seq(Tokens) /\ wire = a \o rest
  <2>1. n \in 0 .. Len(wire)
    BY <1>1, LenProperties
  <2> QED
    BY <1>1, <2>1, Split
<1>3. /\ b = buffer \o a /\ p = r \o rest
      /\ text = reply \o TextOf([i \in Handled(events) |-> events[i]])
  OBVIOUS
<1> HIDE DEF a, b, rest, text, p
<1>4. b \in Seq(Tokens) /\ Pending = b \o rest
  <2>1. b \in Seq(Tokens)
    BY <1>1, <1>2, <1>3, ConcatProperties
  <2>0. buffer \in Seq(Tokens) /\ a \in Seq(Tokens) /\ rest \in Seq(Tokens)
    BY <1>1, <1>2
  <2>2. (buffer \o a) \o rest = buffer \o (a \o rest)
    BY <2>0, AssocLines, Zenon
  <2> QED
    BY <1>2, <1>3, <2>1, <2>2 DEF Pending
<1>5. Lined(b)
  <2>1. Lined(b \o rest)
    BY <1>1, <1>4 DEF Framed
  <2> QED
    BY <1>2, <1>4, <2>1, LinedConcat
<1>6. L \in 0 .. Len(b) /\ L % 3 = 0 /\ Len(b) - L <= 2
  BY <1>4, <1>5, Cut
<1>7. c = SubSeq(b, 1, L) /\ r = SubSeq(b, L + 1, Len(b))
  BY DEF Complete, Rest
<1> HIDE DEF L, c, r
<1>8. /\ c \in Seq(Tokens) /\ Len(c) = L /\ r \in Seq(Tokens) /\ Len(r) = Len(b) - L
      /\ b = c \o r
  BY <1>4, <1>6, <1>7, Split
<1>9. p \in Seq(Tokens) /\ Pending = c \o p
  <2>1. p \in Seq(Tokens)
    BY <1>2, <1>3, <1>8, ConcatProperties
  <2>2. (c \o r) \o rest = c \o (r \o rest)
    BY <1>2, <1>8, AssocLines, Zenon
  <2> QED
    BY <1>3, <1>4, <1>8, <2>1, <2>2
<1>10. Framed(c) /\ Framed(p)
  <2>1. Lined(c) /\ Framed(p)
    BY <1>1, <1>6, <1>8, <1>9, LinedConcat
  <2> QED
    BY <1>6, <1>8, <2>1 DEF Framed
<1>11. /\ events \in Seq(Tokens) /\ TextOf(events) = TextOf(c)
       /\ \A i \in DOMAIN c : IsError(c[i]) => Throws(events)
  BY <1>8, <1>10, EventsProperty
<1> HIDE DEF events
<1>12. PICK m \in 0 .. Len(events) :
         /\ [i \in Handled(events) |-> events[i]] = SubSeq(events, 1, m)
         /\ ~Throws(events) => m = Len(events)
  BY <1>11, HandledProperty
<1> DEFINE h == SubSeq(events, 1, m)
           k == SubSeq(events, m + 1, Len(events))
<1>13. h \in Seq(Tokens) /\ k \in Seq(Tokens) /\ events = h \o k
  BY <1>11, Split
<1>14. text = reply \o TextOf(h)
  BY <1>3, <1>12
<1>15. ~Throws(events) => events = h
  <2> SUFFICES ASSUME ~Throws(events) PROVE events = h
    OBVIOUS
  <2>1. m = Len(events) /\ Len(events) \in Nat
    BY <1>11, <1>12, LenProperties
  <2>2. k = <<>>
    BY <2>1, SubSeqEmpty
  <2> QED
    BY <1>13, <2>2, ConcatEmptySeq
<1> HIDE DEF h, k
<1>16. /\ TextOf(h) \in Seq(Nat) /\ TextOf(k) \in Seq(Nat)
       /\ TextOf(p) \in Seq(Nat) /\ TextOf(c) \in Seq(Nat)
  BY <1>8, <1>9, <1>13, TextProperty
<1>17. TextOf(Pending) = TextOf(c) \o TextOf(p) /\ TextOf(c) = TextOf(h) \o TextOf(k)
  BY <1>8, <1>9, <1>11, <1>13, TextConcat
<1> DEFINE rest2 == TextOf(k) \o TextOf(p)
<1>18. text \o rest2 = Pieces(produced) /\ text \in Seq(Nat) /\ rest2 \in Seq(Nat)
  <2> DEFINE th == TextOf(h)
             tk == TextOf(k)
             tp == TextOf(p)
  <2>1. th \in Seq(Nat) /\ tk \in Seq(Nat) /\ tp \in Seq(Nat)
    BY <1>16
  <2>2. text = reply \o th /\ reply \o ((th \o tk) \o tp) = Pieces(produced)
    BY <1>1, <1>14, <1>17
  <2>3. rest2 = tk \o tp
    OBVIOUS
  <2> HIDE DEF th, tk, tp, rest2
  <2>4. rest2 \in Seq(Nat) /\ (th \o tk) \o tp = th \o rest2 /\ text \in Seq(Nat)
    <3>1. rest2 \in Seq(Nat) /\ text \in Seq(Nat)
      BY <1>1, <2>1, <2>2, <2>3
    <3>2. (th \o tk) \o tp = th \o (tk \o tp)
      BY <2>1, AssocTexts, Zenon
    <3> QED
      BY <2>3, <3>1, <3>2
  <2>5. reply \o (th \o rest2) = (reply \o th) \o rest2
    <3>0. reply \in Seq(Nat) /\ th \in Seq(Nat) /\ rest2 \in Seq(Nat)
      BY <1>1, <2>1, <2>4
    <3>1. (reply \o th) \o rest2 = reply \o (th \o rest2)
      BY <3>0, AssocTexts, Zenon
    <3> QED
      BY <3>1
  <2> QED
    BY <2>2, <2>4, <2>5
<1> HIDE DEF rest2
<1>19. text \in Texts
  BY <1>1, <1>18, PiecesPrefix
<1>20. ASSUME ~Throws(events)
       PROVE  /\ Framed(p) /\ Len(r) <= 2 /\ text \o TextOf(p) = Pieces(produced)
              /\ (\E i \in DOMAIN Pending : IsError(Pending[i])) =>
                    \E i \in DOMAIN p : IsError(p[i])
  <2>1. TextOf(h) = TextOf(c)
    BY <1>11, <1>15, <1>20
  <2>2. text \o TextOf(p) = Pieces(produced)
    <3>0. reply \in Seq(Nat) /\ TextOf(c) \in Seq(Nat) /\ TextOf(p) \in Seq(Nat)
      BY <1>1, <1>16
    <3>1. (reply \o TextOf(c)) \o TextOf(p) = reply \o (TextOf(c) \o TextOf(p))
      BY <3>0, AssocTexts, Zenon
    <3> QED
      BY <1>1, <1>14, <1>17, <2>1, <3>1
  <2>3. ASSUME NEW i \in DOMAIN Pending, IsError(Pending[i])
        PROVE  \E j \in DOMAIN p : IsError(p[j])
    <3>0. Len(Pending) = Len(c) + Len(p)
      BY <1>8, <1>9, ConcatProperties
    <3>1. /\ Len(c) \in Nat /\ Len(p) \in Nat /\ DOMAIN c = 1 .. Len(c)
          /\ DOMAIN p = 1 .. Len(p) /\ DOMAIN Pending = 1 .. Len(c) + Len(p)
      BY <1>1, <1>8, <1>9, <3>0, LenProperties
    <3>2. Pending[i] = IF i <= Len(c) THEN c[i] ELSE p[i - Len(c)]
      BY <1>8, <1>9, <3>1, ConcatProperties
    <3>3. ~(i \in 1 .. Len(c))
      BY <1>11, <1>20, <2>3, <3>1, <3>2
    <3>4. ~(i <= Len(c)) /\ i - Len(c) \in 1 .. Len(p)
      BY <3>1, <3>3
    <3> QED
      BY <2>3, <3>1, <3>2, <3>4
  <2> QED
    BY <1>6, <1>8, <1>10, <2>2, <2>3
<1> QED
  BY <1>2, <1>8, <1>19, <1>20 DEF a, b, rest, c, r, p, events, text


LEMMA EmitStream ==
    ASSUME Typed, Stream, conn = "open", NEW body \in Tokens, body.kind # "nl", Emit(body),
           conn' \in {"open", "ended"},
           IF body.kind = "text" THEN produced' = produced + 1 /\ body.n = produced'
                                 ELSE produced' = produced
    PROVE  /\ wire' \in Seq(Tokens) /\ wire' # <<>> /\ Stream'
           /\ \E i \in DOMAIN Pending' : Pending'[i] = body
<1> DEFINE f == Frame(body)
<1>1. /\ buffer \in Seq(Tokens) /\ wire \in Seq(Tokens) /\ reply \in Seq(Nat)
      /\ Pending \in Seq(Tokens) /\ TextOf(Pending) \in Seq(Nat)
      /\ produced \in Nat
  BY PendingProperty, BoundsAssumption DEF Typed, TypeOK
<1>2. Framed(Pending) /\ reply \o TextOf(Pending) = Pieces(produced) /\ Len(buffer) <= 2
  BY DEF Stream, Reading
<1>3. body # NL
  BY DEF NL, Token
<1>4. /\ f \in Seq(Tokens) /\ Framed(f) /\ f[1] = body /\ 1 \in DOMAIN f
      /\ TextOf(f) = IF body.kind = "text" THEN <<body.n>> ELSE <<>>
  BY <1>3, FrameProperty
<1>5. wire' = wire \o f /\ buffer' = buffer /\ reply' = reply
  BY DEF Emit
<1> HIDE DEF f
<1>6. wire' \in Seq(Tokens) /\ wire' # <<>>
  <2>1. wire' \in Seq(Tokens) /\ Len(wire') = Len(wire) + Len(f)
    BY <1>1, <1>4, <1>5, ConcatProperties
  <2>2. Len(wire) \in Nat /\ Len(f) \in Nat /\ 1 \in 1 .. Len(f)
    BY <1>1, <1>4, LenProperties
  <2>3. Len(wire') # 0
    BY <2>1, <2>2
  <2> QED
    BY <2>1, <2>3, EmptySeq
<1>7. Pending' = Pending \o f
  <2>1. (buffer \o wire) \o f = buffer \o (wire \o f)
    <3>1. buffer \in Seq(Tokens) /\ wire \in Seq(Tokens) /\ f \in Seq(Tokens)
      BY <1>1, <1>4
    <3> QED
      BY <3>1
  <2> QED
    BY <1>5, <2>1 DEF Pending
<1>8. Framed(Pending')
  <2>1. Len(Pending) % 3 = 0 /\ Lined(Pending)
    BY <1>2 DEF Framed
  <2> QED
    BY <1>1, <1>4, <1>7, <2>1, LinedConcat
<1>9. reply' \o TextOf(Pending') = Pieces(produced')
  <2>1. TextOf(Pending') = TextOf(Pending) \o TextOf(f) /\ TextOf(f) \in Seq(Nat)
    BY <1>1, <1>4, <1>7, TextConcat, TextProperty
  <2> DEFINE tp == TextOf(Pending)
             tf == TextOf(f)
  <2>2. reply \in Seq(Nat) /\ tp \in Seq(Nat) /\ tf \in Seq(Nat)
    BY <1>1, <2>1
  <2> HIDE DEF tp, tf
  <2>3. (reply \o tp) \o tf = reply \o (tp \o tf)
    BY <2>2, AssocTexts, Zenon
  <2>4. reply' \o TextOf(Pending') = Pieces(produced) \o TextOf(f)
    BY <1>2, <1>5, <2>1, <2>3 DEF tp, tf
  <2>5. Pieces(produced) \in Seq(Nat) /\ Pieces(produced) \o <<produced + 1>> = Pieces(produced + 1)
    BY <1>1, PiecesProperty
  <2>6. CASE body.kind = "text"
    BY <1>4, <2>4, <2>5, <2>6
  <2>7. CASE body.kind # "text"
    <3>1. Pieces(produced) \o <<>> = Pieces(produced)
      BY <2>5, ConcatEmptySeq
    <3> QED
      BY <1>4, <2>4, <2>7, <3>1
  <2> QED
    BY <2>6, <2>7
<1>10. Stream'
  BY <1>2, <1>5, <1>8, <1>9 DEF Stream, Reading
<1>11. \E i \in DOMAIN Pending' : Pending'[i] = body
  <2>1. /\ Len(Pending) \in Nat /\ Len(f) \in Nat /\ 1 \in 1 .. Len(f)
        /\ Len(Pending') = Len(Pending) + Len(f) /\ DOMAIN Pending' = 1 .. Len(Pending')
    BY <1>1, <1>4, <1>7, ConcatProperties, LenProperties
  <2> DEFINE i == Len(Pending) + 1
  <2>2. i \in 1 .. Len(Pending) + Len(f) /\ ~(i <= Len(Pending)) /\ i - Len(Pending) = 1
    BY <2>1
  <2>3. (Pending \o f)[i] = f[i - Len(Pending)]
    BY <1>1, <1>4, <2>2, ConcatProperties
  <2> HIDE DEF i
  <2> QED
    BY <1>4, <1>7, <2>1, <2>2, <2>3
<1> QED
  BY <1>6, <1>10, <1>11

-----------------------------------------------------------------------------
(* The rows on the page.                                                   *)

(* What an update leaves: the rows after it belong to turns of rows before *)
(* it, and no answer is lost but one of the turns T.                       *)
Carries(rows, new, T) ==
  /\ new \in Seq(Rows) /\ new # <<>>
  /\ \A i \in DOMAIN new : new[i].kind \in {"user", "assistant"} =>
       \E j \in DOMAIN rows : /\ rows[j].kind \in {"user", "assistant"}
                              /\ rows[j].turn = new[i].turn
  /\ \A i \in DOMAIN rows : rows[i].kind = "assistant" /\ rows[i].turn \notin T =>
       \E j \in DOMAIN new : new[j] = rows[i]

LEMMA ShownProperty ==
    ASSUME NEW rows \in Seq(Rows), rows # <<>>, NEW text \in Seq(Nat)
    PROVE  LET new == Shown(rows, text)
               n == Len(rows)
           IN  /\ new \in Seq(Rows) /\ new # <<>> /\ Len(new) = n /\ n \in 1 .. n
               /\ \A i \in 1 .. n : new[i].kind = rows[i].kind /\ new[i].turn = rows[i].turn
               /\ \A i \in 1 .. n : i # n => new[i] = rows[i]
               /\ LastIsAnswer(rows) => new[n] = Row("assistant", rows[n].turn, text)
               /\ ~LastIsAnswer(rows) => new = rows
<1> DEFINE new == Shown(rows, text)
           n == Len(rows)
           row == [rows[n] EXCEPT !.text = text]
<1>1. /\ n \in Nat \ {0} /\ DOMAIN rows = 1 .. n /\ \A i \in 1 .. n : rows[i] \in Rows
  BY EmptySeq, LenProperties, ElementOfSeq
<1>2. n \in 1 .. n
  BY <1>1
<1>3. CASE LastIsAnswer(rows)
  <2>1. rows[n] \in Rows /\ rows[n].kind = "assistant"
    BY <1>1, <1>2, <1>3 DEF LastIsAnswer
  <2>2. row \in Rows /\ row = Row("assistant", rows[n].turn, text)
    <3> DEFINE r == rows[n]
    <3>1. r \in Rows /\ r.kind = "assistant" /\ row = [r EXCEPT !.text = text]
      BY <2>1
    <3> HIDE DEF r, row
    <3>2. row = [kind |-> r.kind, turn |-> r.turn, text |-> text] /\ r.turn \in 0 .. MaxTurns
      BY <3>1 DEF Rows
    <3> QED
      BY <3>1, <3>2 DEF Rows, Row, r
  <2>3. new = [rows EXCEPT ![n] = row]
    BY <1>3 DEF Shown
  <2> HIDE DEF row, n, new
  <2>4. new \in Seq(Rows) /\ Len(new) = n /\ \A i \in 1 .. n : new[i] = IF i = n THEN row ELSE rows[i]
    BY <1>2, <2>2, <2>3, ExceptSeq DEF n
  <2>5. row.kind = rows[n].kind /\ row.turn = rows[n].turn
    BY <2>1, <2>2 DEF Row
  <2>6. new # <<>>
    BY <1>1, <2>4, EmptySeq
  <2> QED
    BY <1>2, <1>3, <2>2, <2>4, <2>5, <2>6 DEF n, new
<1>4. CASE ~LastIsAnswer(rows)
  <2>1. new = rows
    BY <1>4 DEF Shown
  <2> QED
    BY <1>2, <1>4, <2>1
<1> QED
  BY <1>3, <1>4

LEMMA WithErrorProperty ==
    ASSUME Typed, NEW rows \in Seq(Rows), rows # <<>>
    PROVE  LET new == WithError(rows)
               n == Len(rows)
           IN  /\ new \in Seq(Rows) /\ new # <<>> /\ new[Len(new)].kind = "error"
               /\ \A i \in DOMAIN new : new[i].kind = "error" \/ (i \in 1 .. n /\ new[i] = rows[i])
               /\ \A i \in 1 .. n : \/ i \in DOMAIN new /\ new[i] = rows[i]
                                    \/ i = n /\ LastIsAnswer(rows)
<1> DEFINE new == WithError(rows)
           n == Len(rows)
           row == Row("error", turn, <<>>)
<1>1. /\ n \in Nat \ {0} /\ DOMAIN rows = 1 .. n
  BY EmptySeq, LenProperties
<1>2. n \in 1 .. n
  BY <1>1
<1>3. row \in Rows /\ row.kind = "error"
  <2>1. turn \in 0 .. MaxTurns /\ <<>> \in Seq(Nat)
    BY EmptySeq DEF Typed, TypeOK
  <2> QED
    BY <2>1 DEF Row, Rows
<1>4. CASE LastIsAnswer(rows) /\ rows[n].text = <<>>
  <2>1. new = [rows EXCEPT ![n] = row]
    BY <1>4 DEF WithError
  <2> HIDE DEF row, n, new
  <2>2. new \in Seq(Rows) /\ Len(new) = n /\ \A i \in 1 .. n : new[i] = IF i = n THEN row ELSE rows[i]
    BY <1>2, <1>3, <2>1, ExceptSeq DEF n
  <2>3. DOMAIN new = 1 .. n /\ new # <<>>
    BY <1>1, <2>2, LenProperties, EmptySeq
  <2> QED
    BY <1>2, <1>3, <1>4, <2>2, <2>3 DEF n, new
<1>5. CASE ~(LastIsAnswer(rows) /\ rows[n].text = <<>>)
  <2>1. new = Append(rows, row)
    BY <1>5 DEF WithError
  <2> HIDE DEF row, n, new
  <2>2. /\ new \in Seq(Rows) /\ new # <<>> /\ Len(new) = n + 1
        /\ \A i \in 1 .. n : new[i] = rows[i]
        /\ new[n + 1] = row
    BY <1>3, <2>1, AppendProperties DEF n
  <2>3. DOMAIN new = 1 .. n + 1
    BY <2>2, LenProperties
  <2>4. \A i \in 1 .. n + 1 : i = n + 1 \/ i \in 1 .. n
    BY <1>1
  <2>5. \A i \in 1 .. n : i \in 1 .. n + 1
    BY <1>1
  <2> QED
    BY <1>3, <2>2, <2>3, <2>4, <2>5 DEF n, new
<1> QED
  BY <1>4, <1>5


LEMMA CarriesSelf ==
    ASSUME NEW rows \in Seq(Rows), rows # <<>>, NEW T
    PROVE  Carries(rows, rows, T)
BY DEF Carries

LEMMA CarriesOn ==
    ASSUME NEW a, NEW b, NEW c, NEW T, Carries(a, b, T), Carries(b, c, T)
    PROVE  Carries(a, c, T)
<1>1. c \in Seq(Rows) /\ c # <<>>
  BY DEF Carries
<1>2. \A i \in DOMAIN c : c[i].kind \in {"user", "assistant"} =>
        \E j \in DOMAIN a : a[j].kind \in {"user", "assistant"} /\ a[j].turn = c[i].turn
  <2> SUFFICES ASSUME NEW i \in DOMAIN c, c[i].kind \in {"user", "assistant"}
               PROVE  \E j \in DOMAIN a : /\ a[j].kind \in {"user", "assistant"}
                                          /\ a[j].turn = c[i].turn
    OBVIOUS
  <2>1. PICK k \in DOMAIN b : b[k].kind \in {"user", "assistant"} /\ b[k].turn = c[i].turn
    BY DEF Carries
  <2>2. PICK j \in DOMAIN a : a[j].kind \in {"user", "assistant"} /\ a[j].turn = b[k].turn
    BY <2>1 DEF Carries
  <2> QED
    BY <2>1, <2>2
<1>3. \A i \in DOMAIN a : a[i].kind = "assistant" /\ a[i].turn \notin T =>
        \E j \in DOMAIN c : c[j] = a[i]
  <2> SUFFICES ASSUME NEW i \in DOMAIN a, a[i].kind = "assistant", a[i].turn \notin T
               PROVE  \E j \in DOMAIN c : c[j] = a[i]
    OBVIOUS
  <2>1. PICK k \in DOMAIN b : b[k] = a[i]
    BY DEF Carries
  <2>2. b[k].kind = "assistant" /\ b[k].turn \notin T
    BY <2>1
  <2>3. PICK j \in DOMAIN c : c[j] = b[k]
    BY <2>2 DEF Carries
  <2> QED
    BY <2>1, <2>3
<1> QED
  BY <1>1, <1>2, <1>3 DEF Carries

LEMMA ShownCarries ==
    ASSUME NEW rows \in Seq(Rows), rows # <<>>, NEW text \in Seq(Nat), NEW T,
           LastIsAnswer(rows) => rows[Len(rows)].turn \in T
    PROVE  Carries(rows, Shown(rows, text), T)
<1> DEFINE new == Shown(rows, text)
           n == Len(rows)
<1>1. /\ new \in Seq(Rows) /\ new # <<>> /\ Len(new) = n
      /\ \A i \in 1 .. n : new[i].kind = rows[i].kind /\ new[i].turn = rows[i].turn
      /\ \A i \in 1 .. n : i # n => new[i] = rows[i]
      /\ ~LastIsAnswer(rows) => new = rows
  BY ShownProperty
<1>2. DOMAIN new = 1 .. n /\ DOMAIN rows = 1 .. n
  BY <1>1, LenProperties
<1>3. LastIsAnswer(rows) <=> rows[n].kind = "assistant"
  BY DEF LastIsAnswer
<1> HIDE DEF new
<1>4. \A i \in DOMAIN rows : rows[i].kind = "assistant" /\ rows[i].turn \notin T =>
        \E j \in DOMAIN new : new[j] = rows[i]
  <2> SUFFICES ASSUME NEW i \in 1 .. n, rows[i].kind = "assistant", rows[i].turn \notin T
               PROVE  new[i] = rows[i]
    BY <1>2
  <2>1. i # n
    BY <1>3
  <2> QED
    BY <1>1, <2>1
<1>5. \A i \in DOMAIN new : new[i].kind \in {"user", "assistant"} =>
        \E j \in DOMAIN rows : rows[j].kind \in {"user", "assistant"} /\ rows[j].turn = new[i].turn
  BY <1>1, <1>2
<1> QED
  BY <1>1, <1>4, <1>5 DEF Carries, new

LEMMA ErrorCarries ==
    ASSUME Typed, NEW rows \in Seq(Rows), rows # <<>>, NEW T,
           LastIsAnswer(rows) => rows[Len(rows)].turn \in T
    PROVE  Carries(rows, WithError(rows), T)
<1> DEFINE new == WithError(rows)
           n == Len(rows)
<1>1. /\ new \in Seq(Rows) /\ new # <<>>
      /\ \A i \in DOMAIN new : new[i].kind = "error" \/ (i \in 1 .. n /\ new[i] = rows[i])
      /\ \A i \in 1 .. n : \/ i \in DOMAIN new /\ new[i] = rows[i]
                           \/ i = n /\ LastIsAnswer(rows)
  BY WithErrorProperty
<1>2. DOMAIN rows = 1 .. n
  BY LenProperties
<1> HIDE DEF new
<1>3. \A i \in DOMAIN rows : rows[i].kind = "assistant" /\ rows[i].turn \notin T =>
        \E j \in DOMAIN new : new[j] = rows[i]
  BY <1>1, <1>2
<1>4. \A i \in DOMAIN new : new[i].kind \in {"user", "assistant"} =>
        \E j \in DOMAIN rows : rows[j].kind \in {"user", "assistant"} /\ rows[j].turn = new[i].turn
  BY <1>1, <1>2
<1> QED
  BY <1>1, <1>3, <1>4 DEF Carries, new

(* An error reported by the page takes the place of older errors only.     *)
LEMMA ReportCarries ==
    ASSUME Typed, Report
    PROVE  Carries(log, log', {}) /\ log'[Len(log')].kind = "error"
<1> DEFINE S == {i \in DOMAIN log : log[i].kind # "error"}
           p == Picked(log, S)
           row == Row("error", 0, <<>>)
<1>1. log \in Seq(Rows) /\ S \subseteq DOMAIN log
  BY DEF Typed
<1>2. row \in Rows /\ row.kind = "error"
  <2>1. 0 \in 0 .. MaxTurns /\ <<>> \in Seq(Nat)
    BY BoundsAssumption, EmptySeq
  <2> QED
    BY <2>1 DEF Row, Rows
<1>3. log' = Append(p, row)
  BY DEF Report
<1>4. /\ p \in Seq(Rows) /\ Len(p) = Cardinality(S) /\ DOMAIN p = 1 .. Cardinality(S)
      /\ \A k \in 1 .. Cardinality(S) : Nth(S, k) \in S /\ p[k] = log[Nth(S, k)]
      /\ \A i \in S : \E k \in 1 .. Cardinality(S) : p[k] = log[i]
      /\ Cardinality(S) \in Nat
  <2> HIDE DEF S
  <2> QED
    BY <1>1, PickedProperty
<1> DEFINE n == Cardinality(S)
           new == Append(p, row)
<1>5. \A i \in DOMAIN log : log[i].kind = "assistant" => i \in S
  OBVIOUS
<1> HIDE DEF S, p, row, n, new
<1>6. /\ new \in Seq(Rows) /\ new # <<>> /\ Len(new) = n + 1 /\ DOMAIN new = 1 .. n + 1
      /\ \A i \in 1 .. n : new[i] = p[i]
      /\ new[n + 1] = row
  <2>1. /\ new \in Seq(Rows) /\ new # <<>> /\ Len(new) = Len(p) + 1
        /\ \A i \in 1 .. Len(p) : new[i] = p[i]
        /\ new[Len(p) + 1] = row
    BY <1>2, <1>4, AppendProperties DEF new
  <2> QED
    BY <1>4, <2>1, LenProperties DEF n
<1>7. n \in Nat /\ \A i \in 1 .. n : i \in 1 .. n + 1
  BY <1>4 DEF n
<1>8. \A i \in DOMAIN log : log[i].kind = "assistant" /\ log[i].turn \notin {} =>
        \E j \in DOMAIN new : new[j] = log[i]
  <2> SUFFICES ASSUME NEW i \in DOMAIN log, log[i].kind = "assistant"
               PROVE  \E j \in DOMAIN new : new[j] = log[i]
    OBVIOUS
  <2>1. PICK k \in 1 .. n : p[k] = log[i]
    BY <1>4, <1>5 DEF n
  <2> QED
    BY <1>6, <1>7, <2>1
<1>9. \A i \in DOMAIN new : new[i].kind \in {"user", "assistant"} =>
        \E j \in DOMAIN log : log[j].kind \in {"user", "assistant"} /\ log[j].turn = new[i].turn
  <2> SUFFICES ASSUME NEW i \in 1 .. n + 1, new[i].kind \in {"user", "assistant"}
               PROVE  \E j \in DOMAIN log : /\ log[j].kind \in {"user", "assistant"}
                                            /\ log[j].turn = new[i].turn
    BY <1>6
  <2>1. i # n + 1
    BY <1>2, <1>6
  <2>2. i \in 1 .. n
    BY <1>7, <2>1
  <2>3. new[i] = log[Nth(S, i)] /\ Nth(S, i) \in DOMAIN log
    BY <1>1, <1>4, <1>6, <2>2 DEF n
  <2> QED
    BY <2>3
<1> QED
  BY <1>2, <1>3, <1>6, <1>8, <1>9 DEF Carries, new


-----------------------------------------------------------------------------
(* What steps of the session keep.                                         *)

(* Answers of earlier turns do not notice what happens to this one.        *)
LEMMA AnswersEarlier ==
    ASSUME Typed, Waits, busy
    PROVE  \A i \in DOMAIN messages : messages[i].role = "assistant" =>
             messages[i].turn \in Turns /\ messages[i].turn # turn
<1> SUFFICES ASSUME NEW i \in DOMAIN messages, messages[i].role = "assistant"
             PROVE  messages[i].turn \in Turns /\ messages[i].turn # turn
  OBVIOUS
<1>1. messages \in Seq(Messages) /\ turn \in 0 .. MaxTurns /\ MaxTurns \in Nat
  BY BoundsAssumption DEF Typed, TypeOK
<1>2. messages[i] \in Messages
  BY <1>1, LenProperties, ElementOfSeq
<1>3. messages[i].turn < turn /\ messages[i].turn \in Turns
  BY <1>2 DEF Waits, Messages
<1> QED
  BY <1>1, <1>3 DEF Turns

LEMMA LogStep ==
    ASSUME NotAhead, StaysInConversation, ShownAsSent, NEW T, Carries(log, log', T),
           \A t \in hit : t \in hit'
    PROVE  /\ \A i \in DOMAIN log' : log'[i].kind \in {"user", "assistant"} =>
                log'[i].turn <= turn /\ log'[i].turn > since
           /\ \A m \in Answers : m.turn \notin T =>
                \/ m.turn \in hit'
                \/ \E k \in DOMAIN log' : log'[k] = Row("assistant", m.turn, m.text)
<1>1. \A i \in DOMAIN log' : log'[i].kind \in {"user", "assistant"} =>
        log'[i].turn <= turn /\ log'[i].turn > since
  <2> SUFFICES ASSUME NEW i \in DOMAIN log', log'[i].kind \in {"user", "assistant"}
               PROVE  log'[i].turn <= turn /\ log'[i].turn > since
    OBVIOUS
  <2>1. PICK j \in DOMAIN log : log[j].kind \in {"user", "assistant"} /\ log[j].turn = log'[i].turn
    BY DEF Carries
  <2>2. log[j].turn <= turn /\ log[j].turn > since
    BY <2>1 DEF NotAhead, StaysInConversation
  <2> QED
    BY <2>1, <2>2
<1>2. ASSUME NEW m \in Answers, m.turn \notin T
      PROVE  \/ m.turn \in hit'
             \/ \E k \in DOMAIN log' : log'[k] = Row("assistant", m.turn, m.text)
  <2>1. CASE m.turn \in hit
    BY <2>1
  <2>2. CASE InLog(m)
    <3>1. PICK j \in DOMAIN log : log[j] = Row("assistant", m.turn, m.text)
      BY <2>2 DEF InLog
    <3>2. log[j].kind = "assistant" /\ log[j].turn \notin T
      BY <1>2, <3>1 DEF Row
    <3>3. PICK k \in DOMAIN log' : log'[k] = log[j]
      BY <3>2 DEF Carries
    <3> QED
      BY <3>1, <3>3
  <2> QED
    BY <2>1, <2>2 DEF ShownAsSent
<1> QED
  BY <1>1, <1>2

LEMMA LogKept ==
    ASSUME NotAhead, StaysInConversation, ShownAsSent, NEW T, Carries(log, log', T),
           messages' = messages, turn' = turn, since' = since,
           \A t \in hit : t \in hit',
           \A i \in DOMAIN messages : messages[i].role = "assistant" => messages[i].turn \notin T
    PROVE  NotAhead' /\ StaysInConversation' /\ ShownAsSent'
<1>1. /\ \A i \in DOMAIN log' : log'[i].kind \in {"user", "assistant"} =>
           log'[i].turn <= turn /\ log'[i].turn > since
      /\ \A m \in Answers : m.turn \notin T =>
           \/ m.turn \in hit'
           \/ \E k \in DOMAIN log' : log'[k] = Row("assistant", m.turn, m.text)
  BY LogStep
<1>2. NotAhead' /\ StaysInConversation'
  BY <1>1 DEF NotAhead, StaysInConversation
<1>3. ShownAsSent'
  BY <1>1 DEF ShownAsSent, Answers, InLog
<1> QED
  BY <1>2, <1>3

LEMMA HonestKept ==
    ASSUME TranscriptHonest, messages' = messages,
           \A i \in DOMAIN messages : messages[i].role = "assistant" =>
             how'[messages[i].turn] = how[messages[i].turn],
           ~busy' /\ messages # <<>> =>
             messages[Len(messages)].role = "assistant" \/ log'[Len(log')].kind = "error"
    PROVE  TranscriptHonest'
<1>1. \A i, j \in DOMAIN messages' : i < j => messages'[i].turn <= messages'[j].turn
  BY DEF TranscriptHonest
<1>2. ASSUME NEW i \in DOMAIN messages, messages[i].role = "assistant"
      PROVE  LET m == messages'[i]
                 whole == [k \in 1 .. how'[m.turn].sent |-> k]
             IN  /\ i > 1 /\ messages'[i - 1] = Message("user", m.turn, <<>>)
                 /\ how'[m.turn].ended \in {"finished", "mute"}
                 /\ m.text = IF whole = <<>> THEN EmptyResponse ELSE whole
  <2>1. how'[messages[i].turn] = how[messages[i].turn]
    BY <1>2
  <2>2. LET m == messages[i]
            whole == [k \in 1 .. how[m.turn].sent |-> k]
        IN  /\ i > 1 /\ messages[i - 1] = Message("user", m.turn, <<>>)
            /\ how[m.turn].ended \in {"finished", "mute"}
            /\ m.text = IF whole = <<>> THEN EmptyResponse ELSE whole
    BY <1>2 DEF TranscriptHonest
  <2> QED
    BY <2>1, <2>2
<1>3. ~busy' /\ messages' # <<>> =>
        \/ messages'[Len(messages')].role = "assistant"
        \/ log'[Len(log')].kind = "error"
  OBVIOUS
<1> QED
  BY <1>1, <1>2, <1>3 DEF TranscriptHonest

(* A step of the gateway.                                                  *)
LEMMA SessionKept ==
    ASSUME Typed, Session, busy, UNCHANGED <<session, notes>>,
           \A t \in Turns : t # turn => how'[t] = how[t]
    PROVE  Session'
<1>1. /\ busy' = busy /\ turn' = turn /\ asked' = asked /\ messages' = messages
      /\ log' = log /\ since' = since /\ hit' = hit
  BY DEF session, notes
<1>2. \A i \in DOMAIN messages : messages[i].role = "assistant" =>
        messages[i].turn \in Turns /\ messages[i].turn # turn
  BY AnswersEarlier DEF Session
<1>3. TranscriptHonest'
  BY <1>1, <1>2, HonestKept DEF Session
<1>4. Waits' /\ NotAhead' /\ Writes' /\ StaysInConversation'
  BY <1>1 DEF Session, Waits, NotAhead, Writes, StaysInConversation, LastIsAnswer
<1>5. ShownAsSent'
  BY <1>1 DEF Session, ShownAsSent, Answers, InLog
<1> QED
  BY <1>3, <1>4, <1>5 DEF Session

(* The end of a turn by an error.                                          *)
LEMMA FailSession ==
    ASSUME Typed, Session, busy, NEW rows, Carries(log, rows, {turn}), Fail(rows),
           LastIsAnswer(rows) => rows[Len(rows)].turn = turn,
           \A t \in Turns : t # turn => how'[t] = how[t]
    PROVE  Session' /\ log' \in Seq(Rows) /\ log' # <<>>
<1>1. /\ busy' = FALSE /\ turn' = turn /\ messages' = messages /\ since' = since /\ hit' = hit
      /\ log' = WithError(rows)
  BY DEF Fail, notes
<1>2. rows \in Seq(Rows) /\ rows # <<>>
  BY DEF Carries
<1>3. Carries(rows, log', {turn})
  BY <1>1, <1>2, ErrorCarries
<1>4. Carries(log, log', {turn})
  BY <1>3, CarriesOn
<1>5. log' \in Seq(Rows) /\ log' # <<>> /\ log'[Len(log')].kind = "error"
  BY <1>1, <1>2, WithErrorProperty
<1>6. \A i \in DOMAIN messages : messages[i].role = "assistant" =>
        messages[i].turn \in Turns /\ messages[i].turn # turn
  BY AnswersEarlier DEF Session
<1>7. TranscriptHonest'
  BY <1>1, <1>5, <1>6, HonestKept DEF Session
<1>8. NotAhead' /\ StaysInConversation' /\ ShownAsSent'
  <2>1. \A t \in hit : t \in hit'
    BY <1>1
  <2>2. \A i \in DOMAIN messages : messages[i].role = "assistant" => messages[i].turn \notin {turn}
    BY <1>6
  <2> QED
    BY <1>1, <1>4, <2>1, <2>2, LogKept DEF Session
<1>9. Waits' /\ Writes'
  BY <1>1 DEF Waits, Writes
<1> QED
  BY <1>5, <1>7, <1>8, <1>9 DEF Session


-----------------------------------------------------------------------------
(* The gateway's steps.                                                    *)

LEMMA NothingSaid == Framed(<<>>) /\ TextOf(<<>>) = <<>> /\ Pieces(0) = <<>>
<1>1. <<>> \in Seq(Tokens) /\ Len(<<>>) = 0 /\ DOMAIN <<>> = {}
  BY EmptySeq
<1>2. TextAt(<<>>) = {}
  BY <1>1 DEF TextAt
<1>3. TextOf(<<>>) = <<>>
  BY <1>1, <1>2, TextShort
<1>4. Framed(<<>>)
  BY <1>1 DEF Framed, Lined
<1>5. Pieces(0) = <<>>
  BY DEF Pieces
<1> QED
  BY <1>3, <1>4, <1>5

LEMMA AcceptKeeps ==
    ASSUME IInv, Accept
    PROVE  IInv'
<1>1. /\ conn = "waiting" /\ conn' = "open" /\ server' = "preflight" /\ busy
      /\ produced' = produced /\ wire' = wire /\ buffer' = buffer /\ reply' = reply /\ how' = how
      /\ UNCHANGED <<session, notes>>
  BY DEF Accept, IInv, Typed, TypeOK
<1>2. /\ busy' = busy /\ turn' = turn /\ asked' = asked /\ messages' = messages
      /\ log' = log /\ since' = since /\ hit' = hit
  BY <1>1 DEF session, notes
<1>3. Typed'
  BY <1>1, <1>2 DEF IInv, Typed, TypeOK
<1>4. Stream'
  <2>1. buffer = <<>> /\ wire = <<>> /\ produced = 0 /\ reply = <<>>
    BY <1>1 DEF IInv, Stream, Reading
  <2>2. Pending' = <<>>
    BY <1>1, <2>1 DEF Pending
  <2>3. reply' \o TextOf(Pending') = Pieces(produced')
    BY <1>1, <2>1, <2>2, NothingSaid
  <2>4. Len(buffer') <= 2
    BY <1>1, <2>1, EmptySeq
  <2> QED
    BY <1>1, <2>1, <2>2, <2>3, <2>4, NothingSaid DEF Stream, Reading
<1>5. Outcome'
  BY <1>1 DEF Outcome
<1>6. Session'
  BY <1>1, SessionKept DEF IInv
<1> QED
  BY <1>3, <1>4, <1>5, <1>6 DEF IInv

LEMMA HowStep ==
    ASSUME Typed, busy, NEW w \in Went, how' = [how EXCEPT ![turn] = w]
    PROVE  /\ how' \in [Turns -> Went] /\ how'[turn] = w
           /\ \A t \in Turns : t # turn => how'[t] = how[t]
BY DEF Typed

LEMMA RefuseKeeps ==
    ASSUME IInv, Refuse
    PROVE  IInv'
<1>1. /\ conn = "waiting" /\ conn' = "refused" /\ server' = server /\ busy
      /\ how' = [how EXCEPT ![turn].ended = "failed"]
      /\ produced' = produced /\ wire' = wire /\ buffer' = buffer /\ reply' = reply
      /\ UNCHANGED <<session, notes>>
  BY DEF Refuse, IInv, Typed, TypeOK
<1>2. /\ busy' = busy /\ turn' = turn /\ asked' = asked /\ messages' = messages
      /\ log' = log /\ since' = since /\ hit' = hit
  BY <1>1 DEF session, notes
<1>3. how' \in [Turns -> Went] /\ \A t \in Turns : t # turn => how'[t] = how[t]
  <2> DEFINE w == [how[turn] EXCEPT !.ended = "failed"]
  <2>1. turn \in Turns /\ how[turn] \in Went
    BY <1>1 DEF IInv, Typed
  <2>2. w \in Went
    BY <2>1 DEF Went
  <2>3. how' = [how EXCEPT ![turn] = w]
    BY <1>1
  <2> HIDE DEF w
  <2> QED
    BY <1>1, <2>2, <2>3, HowStep DEF IInv
<1>4. Typed'
  BY <1>1, <1>2, <1>3 DEF IInv, Typed, TypeOK
<1>5. Stream'
  BY <1>1 DEF IInv, Stream, Reading, Pending
<1>6. Outcome'
  BY <1>1 DEF Outcome
<1>7. Session'
  BY <1>1, <1>3, SessionKept DEF IInv
<1> QED
  BY <1>4, <1>5, <1>6, <1>7 DEF IInv

LEMMA EmitKeeps ==
    ASSUME IInv, conn = "open", NEW body \in Tokens, body.kind # "nl", Emit(body),
           server' \in {"idle", "preflight", "streaming", "closing"},
           conn' \in {"open", "ended"},
           produced' \in 0 .. MaxDeltas,
           IF body.kind = "text" THEN produced' = produced + 1 /\ body.n = produced'
                                 ELSE produced' = produced,
           how' \in [Turns -> Went],
           \A t \in Turns : t # turn => how'[t] = how[t],
           conn' = "ended" =>
             /\ how'[turn].sent = produced'
             /\ how'[turn].ended \in {"finished", "mute", "failed"}
             /\ how'[turn].ended = "failed" => IsError(body)
    PROVE  IInv'
<1>1. /\ busy /\ buffer' = buffer /\ reply' = reply /\ UNCHANGED <<session, notes>>
  BY DEF Emit, IInv, Typed, TypeOK
<1>2. /\ busy' = busy /\ turn' = turn /\ asked' = asked /\ messages' = messages
      /\ log' = log /\ since' = since /\ hit' = hit
  BY <1>1 DEF session, notes
<1>3. /\ wire' \in Seq(Tokens) /\ wire' # <<>> /\ Stream'
      /\ \E i \in DOMAIN Pending' : Pending'[i] = body
  BY EmitStream DEF IInv
<1>4. Typed'
  BY <1>1, <1>2, <1>3 DEF IInv, Typed, TypeOK
<1>5. Outcome'
  BY <1>2, <1>3 DEF Outcome
<1>6. Session'
  BY <1>1, SessionKept DEF IInv
<1> QED
  BY <1>3, <1>4, <1>5, <1>6 DEF IInv

LEMMA GatewayKeeps ==
    ASSUME IInv, Gateway
    PROVE  IInv'
<1>0. /\ MaxDeltas \in Nat /\ produced \in 0 .. MaxDeltas /\ how \in [Turns -> Went]
      /\ server \in {"idle", "preflight", "streaming", "closing"}
      /\ conn = "open" => busy
  BY BoundsAssumption DEF IInv, Typed, TypeOK
<1>1. CASE Started
  <2> DEFINE body == Token("meta", 0)
  <2>1. body \in Tokens /\ body.kind = "meta"
    BY DEF Token, Tokens
  <2>2. /\ Emit(body) /\ conn = "open" /\ conn' = "open" /\ server' = "streaming"
        /\ produced' = produced /\ how' = how
    BY <1>1 DEF Started, Emit
  <2> HIDE DEF body
  <2> QED
    BY <1>0, <2>1, <2>2, EmitKeeps
<1>2. CASE Delta
  <2> DEFINE body == Token("text", produced')
  <2>1. /\ Emit(body) /\ conn = "open" /\ conn' = "open" /\ server' = server
        /\ produced' = produced + 1 /\ produced < MaxDeltas /\ how' = how
    BY <1>2 DEF Delta, Emit
  <2>2. produced' \in 0 .. MaxDeltas /\ produced' \in Nat
    BY <1>0, <2>1
  <2>3. body \in Tokens /\ body.kind = "text" /\ body.n = produced'
    BY <2>2 DEF Token, Tokens
  <2> HIDE DEF body
  <2> QED
    BY <1>0, <2>1, <2>2, <2>3, EmitKeeps
<1>3. CASE Usage
  <2> DEFINE body == Token("meta", 0)
  <2>1. body \in Tokens /\ body.kind = "meta"
    BY DEF Token, Tokens
  <2>2. /\ Emit(body) /\ conn = "open" /\ conn' = "open" /\ server' = "closing"
        /\ produced' = produced /\ how' = how
    BY <1>3 DEF Usage, Emit
  <2> HIDE DEF body
  <2> QED
    BY <1>0, <2>1, <2>2, EmitKeeps
<1>4. ASSUME NEW ending \in {"finished", "mute", "failed"}, Over(ending), busy
      PROVE  /\ conn' = "ended" /\ server' = "idle" /\ produced' = produced
             /\ how' \in [Turns -> Went] /\ \A t \in Turns : t # turn => how'[t] = how[t]
             /\ how'[turn].sent = produced' /\ how'[turn].ended = ending
  <2> DEFINE w == [ended |-> ending, sent |-> produced]
  <2>1. w \in Went /\ w.sent = produced /\ w.ended = ending
    BY <1>0 DEF Went
  <2>2. /\ conn' = "ended" /\ server' = "idle" /\ produced' = produced
        /\ how' = [how EXCEPT ![turn] = w]
    BY <1>4 DEF Over
  <2> HIDE DEF w
  <2>3. /\ how' \in [Turns -> Went] /\ how'[turn] = w
        /\ \A t \in Turns : t # turn => how'[t] = how[t]
    BY <1>4, <2>1, <2>2, HowStep DEF IInv
  <2> QED
    BY <2>1, <2>2, <2>3
<1>5. CASE Finished
  <2> DEFINE body == Token("done", 0)
  <2>1. body \in Tokens /\ body.kind = "done"
    BY DEF Token, Tokens
  <2>2. Emit(body) /\ conn = "open" /\ Over("finished")
    BY <1>5 DEF Finished, Emit
  <2>3. /\ conn' = "ended" /\ server' = "idle" /\ produced' = produced
        /\ how' \in [Turns -> Went] /\ \A t \in Turns : t # turn => how'[t] = how[t]
        /\ how'[turn].sent = produced' /\ how'[turn].ended = "finished"
    BY <1>0, <1>4, <2>2
  <2> HIDE DEF body
  <2> QED
    BY <1>0, <2>1, <2>2, <2>3, EmitKeeps
<1>6. CASE Raises
  <2>1. PICK n \in {0, 1} : /\ Emit(Token("error", n))
                            /\ Over(IF n = 0 THEN "mute" ELSE "failed")
    BY <1>6 DEF Raises
  <2> DEFINE body == Token("error", n)
             ending == IF n = 0 THEN "mute" ELSE "failed"
  <2>2. body \in Tokens /\ body.kind = "error" /\ (ending = "failed" => IsError(body))
    BY DEF Token, Tokens, IsError
  <2>3. Emit(body) /\ conn = "open" /\ Over(ending) /\ ending \in {"finished", "mute", "failed"}
    BY <2>1 DEF Emit
  <2> HIDE DEF body, ending
  <2>4. /\ conn' = "ended" /\ server' = "idle" /\ produced' = produced
        /\ how' \in [Turns -> Went] /\ \A t \in Turns : t # turn => how'[t] = how[t]
        /\ how'[turn].sent = produced' /\ how'[turn].ended = ending
    BY <1>0, <1>4, <2>3
  <2> QED
    BY <1>0, <2>2, <2>3, <2>4, EmitKeeps
<1> QED
  BY <1>1, <1>2, <1>3, <1>5, <1>6, AcceptKeeps, RefuseKeeps DEF Gateway


-----------------------------------------------------------------------------
(* The reader's steps.                                                     *)

(* While the session is busy it writes to the answer of this turn.         *)
LEMMA WrittenCarries ==
    ASSUME Typed, Writes, busy, NEW rows,
           rows = log \/ \E text \in Seq(Nat) : rows = Shown(log, text)
    PROVE  /\ Carries(log, rows, {turn}) /\ rows \in Seq(Rows) /\ rows # <<>>
           /\ LastIsAnswer(rows) => rows[Len(rows)].turn = turn
           /\ turn \in hit \/ LastIsAnswer(rows)
<1>1. /\ log \in Seq(Rows) /\ log # <<>>
      /\ LastIsAnswer(log) => log[Len(log)].turn = turn
      /\ turn \in hit \/ LastIsAnswer(log)
  BY DEF Typed, Writes
<1>2. CASE rows = log
  BY <1>1, <1>2, CarriesSelf
<1>3. ASSUME NEW text \in Seq(Nat), rows = Shown(log, text)
      PROVE  /\ Carries(log, rows, {turn}) /\ rows \in Seq(Rows) /\ rows # <<>>
             /\ LastIsAnswer(rows) => rows[Len(rows)].turn = turn
             /\ turn \in hit \/ LastIsAnswer(rows)
  <2>1. LastIsAnswer(log) => log[Len(log)].turn \in {turn}
    BY <1>1
  <2>2. Carries(log, rows, {turn})
    BY <1>1, <1>3, <2>1, ShownCarries
  <2> DEFINE n == Len(log)
  <2>3. /\ rows \in Seq(Rows) /\ rows # <<>> /\ Len(rows) = n
        /\ rows[n].kind = log[n].kind /\ rows[n].turn = log[n].turn
    BY <1>1, <1>3, ShownProperty
  <2> QED
    BY <1>1, <2>2, <2>3 DEF LastIsAnswer
<1> QED
  BY <1>2, <1>3

LEMMA FailKeeps ==
    ASSUME IInv, busy, NEW rows, rows = log \/ \E text \in Seq(Nat) : rows = Shown(log, text),
           Fail(rows), server' \in {"idle", "preflight", "streaming", "closing"},
           produced' = produced, reply' \in Texts, how' \in [Turns -> Went],
           \A t \in Turns : t # turn => how'[t] = how[t]
    PROVE  IInv'
<1>1. /\ conn' = "none" /\ wire' = <<>> /\ buffer' = <<>> /\ busy' = FALSE
      /\ turn' = turn /\ asked' = asked /\ messages' = messages /\ since' = since /\ hit' = hit
  BY DEF Fail, HangUp, notes
<1>2. /\ Carries(log, rows, {turn})
      /\ LastIsAnswer(rows) => rows[Len(rows)].turn = turn
  BY WrittenCarries DEF IInv, Session
<1>3. Session' /\ log' \in Seq(Rows) /\ log' # <<>>
  BY <1>2, FailSession DEF IInv
<1>4. Typed'
  BY <1>1, <1>3, EmptySeq DEF IInv, Typed, TypeOK
<1>5. Stream'
  <2>1. Pending' = <<>>
    BY <1>1 DEF Pending
  <2> QED
    BY <1>1, <2>1, NothingSaid, EmptySeq DEF Stream, Reading
<1>6. Outcome'
  BY <1>1 DEF Outcome
<1> QED
  BY <1>3, <1>4, <1>5, <1>6 DEF IInv

LEMMA ReadKeeps ==
    ASSUME IInv, Read
    PROVE  IInv'
<1>1. PICK n \in 1 .. Len(wire) :
        LET b      == buffer \o SubSeq(wire, 1, n)
            events == Events(Complete(b))
        IN  /\ Take(events)
            /\ IF Throws(events)
               THEN Fail(Updated)
               ELSE /\ wire' = SubSeq(wire, n + 1, Len(wire))
                    /\ buffer' = Rest(b)
                    /\ log' = Updated
                    /\ UNCHANGED <<conn, busy, turn, asked, messages, notes>>
  BY DEF Read
<1> DEFINE b == buffer \o SubSeq(wire, 1, n)
           rest == SubSeq(wire, n + 1, Len(wire))
           left == Rest(b) \o rest
           events == Events(Complete(b))
           text == reply \o TextOf([i \in Handled(events) |-> events[i]])
           rows == Updated
<1>2. /\ reply' = text
      /\ Throws(events) => Fail(rows)
      /\ ~Throws(events) => /\ wire' = rest /\ buffer' = Rest(b) /\ log' = rows
                            /\ UNCHANGED <<conn, busy, turn, asked, messages, notes>>
  BY <1>1 DEF Take
<1>3. /\ conn \in {"open", "ended"} /\ server' = server /\ produced' = produced /\ how' = how
      /\ busy /\ Reading
  BY DEF Read, Reading, IInv, Typed, TypeOK
<1>4. /\ text \in Texts /\ rest \in Seq(Tokens) /\ Rest(b) \in Seq(Tokens)
      /\ ~Throws(events) =>
           /\ Framed(left) /\ Len(Rest(b)) <= 2
           /\ text \o TextOf(left) = Pieces(produced)
           /\ (\E i \in DOMAIN Pending : IsError(Pending[i])) =>
                 \E i \in DOMAIN left : IsError(left[i])
  BY <1>3, Parse DEF IInv
<1>5. rows = log \/ \E t \in Seq(Nat) : rows = Shown(log, t)
  <2>1. reply' \in Seq(Nat)
    BY <1>2, <1>4, TextsProperty
  <2> QED
    BY <2>1 DEF Updated
<1>6. left = Rest(b) \o rest
  OBVIOUS
<1> HIDE DEF b, rest, left, events, text, rows
<1>7. CASE Throws(events)
  <2>1. /\ server' \in {"idle", "preflight", "streaming", "closing"} /\ how' \in [Turns -> Went]
        /\ reply' \in Texts /\ \A t \in Turns : t # turn => how'[t] = how[t]
    BY <1>2, <1>3, <1>4 DEF IInv, Typed, TypeOK
  <2> QED
    BY <1>2, <1>3, <1>5, <1>7, <2>1, FailKeeps
<1>8. CASE ~Throws(events)
  <2>1. /\ wire' = rest /\ buffer' = Rest(b) /\ log' = rows /\ conn' = conn /\ busy' = busy
        /\ turn' = turn /\ asked' = asked /\ messages' = messages
        /\ since' = since /\ hit' = hit
    BY <1>2, <1>8 DEF notes
  <2>2. Pending' = left
    BY <1>6, <2>1 DEF Pending
  <2>3. Stream'
    BY <1>2, <1>3, <1>4, <1>8, <2>1, <2>2 DEF Stream, Reading
  <2>4. /\ Carries(log, rows, {turn}) /\ rows \in Seq(Rows) /\ rows # <<>>
        /\ LastIsAnswer(rows) => rows[Len(rows)].turn = turn
        /\ turn \in hit \/ LastIsAnswer(rows)
    BY <1>3, <1>5, WrittenCarries DEF IInv, Session
  <2>5. wire' = <<>> => buffer' = <<>>
    <3> SUFFICES ASSUME wire' = <<>> PROVE buffer' = <<>>
      OBVIOUS
    <3>1. rest = <<>> /\ Rest(b) \o <<>> = Rest(b)
      BY <1>4, <2>1, ConcatEmptySeq
    <3>2. Framed(Rest(b)) /\ Len(Rest(b)) <= 2
      BY <1>4, <1>6, <1>8, <3>1
    <3>3. Len(Rest(b)) \in Nat /\ Len(Rest(b)) % 3 = 0
      BY <1>4, <3>2, LenProperties DEF Framed
    <3>4. Len(Rest(b)) = 0
      BY <3>2, <3>3
    <3> QED
      BY <1>4, <2>1, <3>4, EmptySeq
  <2>6. Typed'
    BY <1>2, <1>3, <1>4, <2>1, <2>4, <2>5 DEF IInv, Typed, TypeOK
  <2>7. Outcome'
    BY <1>3, <1>4, <1>8, <2>1, <2>2 DEF IInv, Outcome
  <2>8. \A i \in DOMAIN messages : messages[i].role = "assistant" =>
          messages[i].turn \in Turns /\ messages[i].turn # turn
    BY <1>3, AnswersEarlier DEF IInv, Session
  <2>9. TranscriptHonest'
    BY <1>3, <2>1, HonestKept DEF IInv, Session
  <2>10. NotAhead' /\ StaysInConversation' /\ ShownAsSent'
    <3>1. Carries(log, log', {turn}) /\ \A t \in hit : t \in hit'
      BY <2>1, <2>4
    <3>2. \A i \in DOMAIN messages : messages[i].role = "assistant" => messages[i].turn \notin {turn}
      BY <2>8
    <3> QED
      BY <2>1, <3>1, <3>2, LogKept DEF IInv, Session
  <2>11. Waits'
    BY <2>1 DEF IInv, Session, Waits
  <2>12. Writes'
    BY <2>1, <2>4 DEF Writes, LastIsAnswer
  <2> QED
    BY <2>3, <2>6, <2>7, <2>9, <2>10, <2>11, <2>12 DEF IInv, Session
<1> QED
  BY <1>7, <1>8


LEMMA ReadRefusalKeeps ==
    ASSUME IInv, ReadRefusal
    PROVE  IInv'
<1>1. /\ conn = "refused" /\ Fail(log) /\ server' = server /\ produced' = produced
      /\ reply' = reply /\ how' = how
  BY DEF ReadRefusal
<1>2. /\ busy /\ server' \in {"idle", "preflight", "streaming", "closing"}
      /\ how' \in [Turns -> Went] /\ reply' \in Texts
      /\ \A t \in Turns : t # turn => how'[t] = how[t]
  BY <1>1 DEF IInv, Typed, TypeOK
<1> QED
  BY <1>1, <1>2, FailKeeps

LEMMA LoseKeeps ==
    ASSUME IInv, Lose
    PROVE  IInv'
<1>1. /\ conn \in {"waiting", "open", "ended"} /\ Fail(log) /\ server' = "idle"
      /\ produced' = produced /\ reply' = reply
      /\ how' = IF conn = "ended" THEN how
                ELSE [how EXCEPT ![turn] = [ended |-> "failed", sent |-> produced]]
  BY DEF Lose
<1>2. busy /\ how \in [Turns -> Went] /\ reply \in Texts /\ produced \in Nat
  <2>1. /\ busy /\ how \in [Turns -> Went] /\ reply \in Texts /\ produced \in 0 .. MaxDeltas
    BY <1>1 DEF IInv, Typed, TypeOK
  <2> QED
    BY <2>1, BoundsAssumption
<1>3. how' \in [Turns -> Went] /\ \A t \in Turns : t # turn => how'[t] = how[t]
  <2> DEFINE w == [ended |-> "failed", sent |-> produced]
  <2>1. w \in Went
    BY <1>2 DEF Went
  <2>2. how' = how \/ how' = [how EXCEPT ![turn] = w]
    BY <1>1
  <2> HIDE DEF w
  <2> QED
    BY <1>2, <2>1, <2>2, HowStep DEF IInv
<1> QED
  BY <1>1, <1>2, <1>3, FailKeeps

LEMMA Appended ==
    ASSUME Typed, NEW m \in Messages, messages' = Append(messages, m)
    PROVE  /\ messages' \in Seq(Messages) /\ messages' # <<>>
           /\ Len(messages) \in Nat /\ Len(messages') = Len(messages) + 1
           /\ DOMAIN messages = 1 .. Len(messages)
           /\ \A i \in DOMAIN messages' : i \in 1 .. Len(messages) \/ i = Len(messages) + 1
           /\ \A i \in 1 .. Len(messages) : i \in DOMAIN messages' /\ messages'[i] = messages[i]
           /\ Len(messages) + 1 \in DOMAIN messages' /\ messages'[Len(messages) + 1] = m
<1>1. messages \in Seq(Messages)
  BY DEF Typed
<1>2. /\ messages' \in Seq(Messages) /\ messages' # <<>> /\ Len(messages') = Len(messages) + 1
      /\ \A i \in 1 .. Len(messages) : messages'[i] = messages[i]
      /\ messages'[Len(messages) + 1] = m
  BY <1>1, AppendProperties
<1>3. Len(messages) \in Nat /\ DOMAIN messages = 1 .. Len(messages)
  BY <1>1, LenProperties
<1>4. DOMAIN messages' = 1 .. Len(messages) + 1
  BY <1>2, LenProperties
<1> QED
  BY <1>2, <1>3, <1>4

(* A question, or the answer to the last of the questions.                 *)
LEMMA HonestAppended ==
    ASSUME Typed, TranscriptHonest, NotAhead, NEW m \in Messages,
           messages' = Append(messages, m), how' = how, turn <= m.turn,
           busy' \/ m.role = "assistant",
           m.role = "assistant" =>
             LET whole == [k \in 1 .. how[m.turn].sent |-> k]
             IN  /\ messages # <<>> /\ messages[Len(messages)] = Message("user", m.turn, <<>>)
                 /\ how[m.turn].ended \in {"finished", "mute"}
                 /\ m.text = IF whole = <<>> THEN EmptyResponse ELSE whole
    PROVE  TranscriptHonest'
<1> DEFINE n == Len(messages)
<1>1. /\ n \in Nat /\ Len(messages') = n + 1 /\ DOMAIN messages = 1 .. n
      /\ \A i \in DOMAIN messages' : i \in 1 .. n \/ i = n + 1
      /\ \A i \in 1 .. n : messages'[i] = messages[i]
      /\ messages'[n + 1] = m
  BY Appended
<1>2. /\ messages \in Seq(Messages) /\ m.turn \in Int /\ turn \in Int
      /\ \A i \in 1 .. n : messages[i].turn \in Int
  <2>1. messages \in Seq(Messages) /\ turn \in 0 .. MaxTurns /\ MaxTurns \in Nat
    BY BoundsAssumption DEF Typed, TypeOK
  <2>2. \A i \in 1 .. n : messages[i] \in Messages
    BY <2>1, ElementOfSeq
  <2>3. \A x \in Messages : x.turn \in 1 .. MaxTurns
    BY DEF Messages, Turns
  <2> QED
    BY <2>1, <2>2, <2>3
<1> HIDE DEF n
<1>3. \A i, j \in DOMAIN messages' : i < j => messages'[i].turn <= messages'[j].turn
  <2> SUFFICES ASSUME NEW i \in DOMAIN messages', NEW j \in DOMAIN messages', i < j
               PROVE  messages'[i].turn <= messages'[j].turn
    OBVIOUS
  <2>1. i \in 1 .. n
    BY <1>1
  <2>2. CASE j \in 1 .. n
    BY <1>1, <2>1, <2>2 DEF TranscriptHonest
  <2>3. CASE j = n + 1
    <3>1. messages[i].turn <= turn
      BY <1>1, <2>1 DEF NotAhead
    <3> QED
      BY <1>1, <1>2, <2>1, <2>3, <3>1
  <2> QED
    BY <1>1, <2>2, <2>3
<1>4. ASSUME NEW i \in DOMAIN messages', messages'[i].role = "assistant"
      PROVE  LET a == messages'[i]
                 whole == [k \in 1 .. how'[a.turn].sent |-> k]
             IN  /\ i > 1 /\ messages'[i - 1] = Message("user", a.turn, <<>>)
                 /\ how'[a.turn].ended \in {"finished", "mute"}
                 /\ a.text = IF whole = <<>> THEN EmptyResponse ELSE whole
  <2>1. CASE i \in 1 .. n
    <3>1. messages'[i] = messages[i] /\ messages[i].role = "assistant"
      BY <1>1, <1>4, <2>1
    <3>2. LET a == messages[i]
              whole == [k \in 1 .. how[a.turn].sent |-> k]
          IN  /\ i > 1 /\ messages[i - 1] = Message("user", a.turn, <<>>)
              /\ how[a.turn].ended \in {"finished", "mute"}
              /\ a.text = IF whole = <<>> THEN EmptyResponse ELSE whole
      BY <1>1, <2>1, <3>1 DEF TranscriptHonest
    <3>3. messages'[i - 1] = messages[i - 1]
      BY <1>1, <2>1, <3>2
    <3> QED
      BY <3>1, <3>2, <3>3
  <2>2. CASE i = n + 1
    <3>1. messages'[i] = m /\ m.role = "assistant"
      BY <1>1, <1>4, <2>2
    <3>2. messages # <<>> /\ messages[n] = Message("user", m.turn, <<>>)
      BY <3>1 DEF n
    <3>3. n # 0
      BY <1>2, <3>2, EmptySeq DEF n
    <3>4. i > 1 /\ i - 1 = n /\ n \in 1 .. n
      BY <1>1, <2>2, <3>3
    <3>5. messages'[i - 1] = Message("user", m.turn, <<>>)
      BY <1>1, <3>2, <3>4
    <3> QED
      BY <3>1, <3>4, <3>5
  <2> QED
    BY <1>1, <2>1, <2>2
<1>5. ~busy' /\ messages' # <<>> => \/ messages'[Len(messages')].role = "assistant"
                                    \/ log'[Len(log')].kind = "error"
  BY <1>1
<1> QED
  BY <1>3, <1>4, <1>5 DEF TranscriptHonest


LEMMA ReadEndKeeps ==
    ASSUME IInv, ReadEnd
    PROVE  IInv'
<1>1. /\ conn = "ended" /\ wire = <<>> /\ buffer = <<>> /\ busy /\ Reading
      /\ server' = server /\ produced' = produced /\ how' = how
  BY DEF ReadEnd, Reading, IInv, Typed, TypeOK
<1>2. Pending = <<>>
  BY <1>1 DEF Pending
<1>3. /\ reply \in Seq(Nat) /\ produced \in Nat
      /\ messages \in Seq(Messages) /\ turn \in Turns
  <2>1. produced \in 0 .. MaxDeltas /\ messages \in Seq(Messages) /\ turn \in Turns
    BY <1>1 DEF IInv, Typed, TypeOK
  <2> QED
    BY <2>1, PendingProperty, BoundsAssumption DEF IInv
<1>4. reply = Pieces(produced)
  <2>1. reply \o TextOf(<<>>) = Pieces(produced)
    BY <1>1, <1>2 DEF IInv, Stream
  <2> QED
    BY <1>3, <2>1, NothingSaid, ConcatEmptySeq
<1>5. ~Throws(<<>>) /\ reply \o TextOf([i \in Handled(<<>>) |-> <<>>[i]]) = reply
  <2>1. <<>> \in Seq(Tokens) /\ Len(<<>>) = 0 /\ DOMAIN <<>> = {}
    BY EmptySeq
  <2>2. PICK m \in 0 .. Len(<<>>) : [i \in Handled(<<>>) |-> <<>>[i]] = SubSeq(<<>>, 1, m)
    BY <2>1, HandledProperty
  <2>3. m = 0
    BY <2>1
  <2>4. SubSeq(<<>>, 1, m) = <<>>
    BY <2>3, SubSeqEmpty
  <2> QED
    BY <1>3, <2>1, <2>2, <2>4, NothingSaid, ConcatEmptySeq DEF Throws
<1> DEFINE text == IF reply = <<>> THEN EmptyResponse ELSE reply
           m == Message("assistant", turn, text)
<1>6. reply' = reply /\ Succeed(text)
  BY <1>1, <1>5 DEF ReadEnd, Take
<1>7. /\ conn' = "none" /\ wire' = <<>> /\ buffer' = <<>> /\ busy' = FALSE
      /\ messages' = Append(asked, m) /\ turn' = turn /\ asked' = asked
      /\ since' = since /\ hit' = hit /\ log' = Shown(log, text)
  BY <1>6 DEF Succeed, Conclude, HangUp, notes
<1>8. /\ asked = messages /\ messages # <<>>
      /\ messages[Len(messages)] = Message("user", turn, <<>>)
  BY <1>1 DEF IInv, Session, Waits
<1>9. text \in Seq(Nat)
  BY <1>3 DEF EmptyResponse
<1>10. m \in Messages /\ m.role = "assistant" /\ m.turn = turn /\ m.text = text
  BY <1>3, <1>9 DEF Message, Messages
<1>11. /\ how[turn].sent = produced /\ how[turn].ended \in {"finished", "mute"}
  <2>1. DOMAIN Pending = {}
    BY <1>2
  <2> QED
    BY <1>1, <2>1 DEF IInv, Outcome
<1>12. text = IF [k \in 1 .. how[turn].sent |-> k] = <<>> THEN EmptyResponse
              ELSE [k \in 1 .. how[turn].sent |-> k]
  BY <1>4, <1>11 DEF Pieces
<1> HIDE DEF text, m
<1>13. TranscriptHonest'
  <2>1. turn <= m.turn
    BY <1>3, <1>10, BoundsAssumption DEF Turns
  <2>2. messages' = Append(messages, m)
    BY <1>7, <1>8
  <2>3. LET whole == [k \in 1 .. how[m.turn].sent |-> k]
        IN  /\ messages # <<>> /\ messages[Len(messages)] = Message("user", m.turn, <<>>)
            /\ how[m.turn].ended \in {"finished", "mute"}
            /\ m.text = IF whole = <<>> THEN EmptyResponse ELSE whole
    BY <1>8, <1>10, <1>11, <1>12
  <2> QED
    BY <1>1, <1>10, <2>1, <2>2, <2>3, HonestAppended DEF IInv, Session
<1>14. /\ messages' \in Seq(Messages) /\ DOMAIN messages = 1 .. Len(messages)
       /\ \A i \in DOMAIN messages' : i \in DOMAIN messages \/ i = Len(messages) + 1
       /\ \A i \in DOMAIN messages : messages'[i] = messages[i]
       /\ messages'[Len(messages) + 1] = m
  <2>1. messages' = Append(messages, m)
    BY <1>7, <1>8
  <2>2. DOMAIN messages = 1 .. Len(messages)
    BY <1>3, LenProperties
  <2> QED
    BY <1>10, <2>1, <2>2, Appended DEF IInv
<1>15. /\ Carries(log, log', {turn}) /\ log' \in Seq(Rows) /\ log' # <<>>
       /\ turn \in hit \/ LastIsAnswer(log')
  BY <1>1, <1>7, <1>9, WrittenCarries DEF IInv, Session
<1>16. LastIsAnswer(log') => \E k \in DOMAIN log' : log'[k] = Row("assistant", turn, text)
  <2> SUFFICES ASSUME LastIsAnswer(log')
               PROVE  \E k \in DOMAIN log' : log'[k] = Row("assistant", turn, text)
    OBVIOUS
  <2>1. log \in Seq(Rows) /\ log # <<>>
    BY DEF IInv, Typed
  <2> DEFINE n == Len(log)
  <2>2. /\ Len(log') = n /\ n \in 1 .. n /\ log'[n].kind = log[n].kind
        /\ LastIsAnswer(log) => log'[n] = Row("assistant", log[n].turn, text)
    BY <1>7, <1>9, <2>1, ShownProperty
  <2>3. LastIsAnswer(log)
    BY <2>2 DEF LastIsAnswer
  <2>4. log[n].turn = turn
    BY <1>1, <2>3 DEF IInv, Session, Writes
  <2>5. DOMAIN log' = 1 .. n
    BY <1>15, <2>2, LenProperties
  <2> QED
    BY <2>2, <2>3, <2>4, <2>5
<1>17. /\ \A i \in DOMAIN log' : log'[i].kind \in {"user", "assistant"} =>
            log'[i].turn <= turn /\ log'[i].turn > since
       /\ \A a \in Answers : a.turn \notin {turn} =>
            \/ a.turn \in hit'
            \/ \E k \in DOMAIN log' : log'[k] = Row("assistant", a.turn, a.text)
  <2>1. \A t \in hit : t \in hit'
    BY <1>7
  <2> QED
    BY <1>15, <2>1, LogStep DEF IInv, Session
<1>18. NotAhead' /\ StaysInConversation'
  <2>1. turn <= turn /\ turn > since
    BY <1>1, <1>3, BoundsAssumption DEF IInv, Session, Waits, Typed, TypeOK, Turns
  <2>2. \A i \in DOMAIN messages' : messages'[i].turn <= turn /\ messages'[i].turn > since
    BY <1>10, <1>14, <2>1 DEF IInv, Session, NotAhead, StaysInConversation
  <2> QED
    BY <1>7, <1>17, <2>2 DEF NotAhead, StaysInConversation
<1>19. ShownAsSent'
  <2> SUFFICES ASSUME NEW a \in Answers' PROVE a.turn \in hit' \/ InLog(a)'
    BY DEF ShownAsSent
  <2>0. PICK i \in DOMAIN messages' : messages'[i] = a /\ a.role = "assistant"
    BY DEF Answers
  <2>1. CASE i \in DOMAIN messages
    <3>1. a = messages[i] /\ a \in Answers
      BY <1>14, <2>0, <2>1 DEF Answers
    <3>2. a.turn # turn
      BY <1>1, <2>0, <2>1, <3>1, AnswersEarlier DEF IInv, Session
    <3> QED
      BY <1>17, <3>1, <3>2 DEF InLog
  <2>2. CASE i = Len(messages) + 1
    <3>1. a = m
      BY <1>14, <2>0, <2>2
    <3> QED
      BY <1>7, <1>10, <1>15, <1>16, <3>1 DEF InLog
  <2> QED
    BY <1>14, <2>1, <2>2
<1>20. Typed'
  BY <1>1, <1>3, <1>6, <1>7, <1>14, <1>15, EmptySeq DEF IInv, Typed, TypeOK
<1>21. Stream'
  <2>1. Pending' = <<>>
    BY <1>7 DEF Pending
  <2> QED
    BY <1>7, <2>1, NothingSaid, EmptySeq DEF Stream, Reading
<1>22. Outcome' /\ Waits' /\ Writes'
  BY <1>7 DEF Outcome, Waits, Writes
<1> QED
  BY <1>13, <1>18, <1>19, <1>20, <1>21, <1>22 DEF IInv, Session

-----------------------------------------------------------------------------
(* The user's steps, and the page's.                                       *)

LEMMA SendKeeps ==
    ASSUME IInv, Send
    PROVE  IInv'
<1> DEFINE m == Message("user", turn + 1, <<>>)
           ask == Row("user", turn + 1, <<>>)
           answer == Row("assistant", turn + 1, <<>>)
           n == Len(log)
<1>1. /\ ~busy /\ turn < MaxTurns /\ turn' = turn + 1
      /\ asked' = messages' /\ messages' = Append(messages, m)
      /\ log' = log \o <<ask, answer>> /\ busy' = TRUE /\ conn' = "waiting" /\ server' = "idle"
      /\ produced' = 0 /\ reply' = <<>> /\ wire' = wire /\ buffer' = buffer
      /\ since' = since /\ hit' = hit /\ how' = how
  BY DEF Send, notes
<1>2. /\ MaxTurns \in Nat /\ MaxDeltas \in Nat
      /\ turn \in Nat /\ turn + 1 \in Turns /\ turn + 1 \in 0 .. MaxTurns
      /\ since \in Nat /\ since <= turn /\ since < turn + 1
      /\ since \in 0 .. turn + 1 /\ \A t \in hit : t \in 1 .. turn + 1
  <2>1. MaxTurns \in Nat /\ MaxDeltas \in Nat
    BY BoundsAssumption
  <2>2. turn \in 0 .. MaxTurns /\ since \in 0 .. turn /\ hit \subseteq 1 .. turn
    BY DEF IInv, Typed, TypeOK
  <2>3. \A t \in 1 .. turn : t \in 1 .. turn + 1
    BY <2>2
  <2>4. \A t \in hit : t \in 1 .. turn + 1
    BY <2>2, <2>3
  <2> QED
    BY <1>1, <2>1, <2>2, <2>4 DEF Turns
<1>3. wire = <<>> /\ buffer = <<>>
  BY <1>1 DEF IInv, Typed, TypeOK, Stream, Reading
<1>4. /\ m \in Messages /\ m.role = "user" /\ m.turn = turn + 1
      /\ m = Message("user", turn', <<>>)
  BY <1>1, <1>2, EmptySeq DEF Message, Messages
<1>5. /\ ask \in Rows /\ ask.kind = "user" /\ ask.turn = turn + 1
      /\ answer \in Rows /\ answer.kind = "assistant" /\ answer.turn = turn + 1
  BY <1>2, EmptySeq DEF Row, Rows
<1> HIDE DEF m, ask, answer, n
<1>6. /\ messages' \in Seq(Messages) /\ messages' # <<>>
      /\ Len(messages) \in Nat /\ Len(messages') = Len(messages) + 1
      /\ DOMAIN messages = 1 .. Len(messages)
      /\ \A i \in DOMAIN messages' : i \in 1 .. Len(messages) \/ i = Len(messages) + 1
      /\ \A i \in 1 .. Len(messages) : i \in DOMAIN messages' /\ messages'[i] = messages[i]
      /\ messages'[Len(messages) + 1] = m
  BY <1>1, <1>4, Appended DEF IInv
<1>7. /\ log' \in Seq(Rows) /\ log' # <<>> /\ Len(log') = n + 2 /\ n \in Nat
      /\ DOMAIN log = 1 .. n /\ DOMAIN log' = 1 .. n + 2
      /\ \A i \in 1 .. n : i \in 1 .. n + 2 /\ log'[i] = log[i]
      /\ log'[n + 1] = ask /\ log'[n + 2] = answer
      /\ \A i \in 1 .. n + 2 : i \in 1 .. n \/ i = n + 1 \/ i = n + 2
  <2>1. /\ log \in Seq(Rows) /\ n \in Nat /\ Len(log) = n /\ DOMAIN log = 1 .. n
    BY LenProperties DEF IInv, Typed, n
  <2> DEFINE new == <<ask, answer>>
  <2>2. new \in Seq(Rows) /\ Len(new) = 2 /\ new[1] = ask /\ new[2] = answer
    BY <1>5
  <2> HIDE DEF new
  <2>3. /\ log \o new \in Seq(Rows) /\ Len(log \o new) = n + 2
        /\ \A i \in 1 .. n + 2 : (log \o new)[i] = IF i <= n THEN log[i] ELSE new[i - n]
    <3>1. /\ log \o new \in Seq(Rows) /\ Len(log \o new) = Len(log) + Len(new)
          /\ \A i \in 1 .. Len(log) + Len(new) :
               (log \o new)[i] = IF i <= Len(log) THEN log[i] ELSE new[i - Len(log)]
      BY <2>1, <2>2, ConcatProperties
    <3> QED
      BY <2>1, <2>2, <3>1
  <2>4. /\ \A i \in 1 .. n : i \in 1 .. n + 2 /\ i <= n
        /\ n + 1 \in 1 .. n + 2 /\ ~(n + 1 <= n) /\ (n + 1) - n = 1
        /\ n + 2 \in 1 .. n + 2 /\ ~(n + 2 <= n) /\ (n + 2) - n = 2
        /\ \A i \in 1 .. n + 2 : i \in 1 .. n \/ i = n + 1 \/ i = n + 2
        /\ n + 2 # 0
    BY <2>1
  <2>5. log' = log \o new
    BY <1>1 DEF new
  <2>6. DOMAIN log' = 1 .. n + 2 /\ log' # <<>>
    BY <2>3, <2>4, <2>5, LenProperties, EmptySeq
  <2> QED
    BY <2>1, <2>2, <2>3, <2>4, <2>5, <2>6
<1>8. reply' \in Texts
  <2>1. <<>> \in [1 .. 0 -> 0 .. MaxDeltas] /\ 0 \in 0 .. MaxDeltas
    BY <1>2
  <2> QED
    BY <1>1, <2>1 DEF Texts
<1>9. Typed'
  <2>1. TypeOK'
    <3>1. hit' \subseteq 1 .. turn' /\ since' \in 0 .. turn' /\ turn' \in 0 .. MaxTurns
      BY <1>1, <1>2
    <3>2. produced' \in 0 .. MaxDeltas
      BY <1>1, <1>2
    <3> QED
      BY <1>1, <1>8, <3>1, <3>2 DEF TypeOK
  <2>2. wire' \in Seq(Tokens) /\ buffer' \in Seq(Tokens) /\ how' \in [Turns -> Went]
    BY <1>1 DEF IInv, Typed
  <2> QED
    BY <1>1, <1>2, <1>6, <1>7, <2>1, <2>2 DEF Typed
<1>10. Stream'
  <2>1. Pending' = <<>>
    BY <1>1, <1>3 DEF Pending
  <2> QED
    BY <1>1, <1>3, <2>1, NothingSaid, EmptySeq DEF Stream, Reading
<1>11. Outcome'
  BY <1>1 DEF Outcome
<1>12. \A i \in 1 .. Len(messages) : messages[i].turn <= turn /\ messages[i].turn \in Nat /\ messages[i].turn > since
  <2>1. messages \in Seq(Messages)
    BY DEF IInv, Typed
  <2>2. \A x \in Messages : x.turn \in Nat
    BY <1>2 DEF Messages, Turns
  <2>3. \A i \in 1 .. Len(messages) : messages[i] \in Messages
    BY <2>1, ElementOfSeq
  <2> QED
    BY <1>6, <2>2, <2>3 DEF IInv, Session, NotAhead, StaysInConversation
<1>13. Waits'
  <2>1. messages'[Len(messages')] = Message("user", turn', <<>>)
    BY <1>4, <1>6
  <2>2. \A i \in DOMAIN messages' : messages'[i].role = "assistant" => messages'[i].turn < turn'
    <3> SUFFICES ASSUME NEW i \in DOMAIN messages', messages'[i].role = "assistant"
                 PROVE  messages'[i].turn < turn'
      OBVIOUS
    <3>1. i \in 1 .. Len(messages) /\ messages'[i] = messages[i]
      BY <1>4, <1>6
    <3> QED
      BY <1>1, <1>2, <1>12, <3>1
  <2> QED
    BY <1>1, <1>2, <1>6, <2>1, <2>2 DEF Waits
<1>14. NotAhead' /\ StaysInConversation'
  <2>1. turn + 1 <= turn + 1 /\ turn + 1 > since
    BY <1>2
  <2>2. \A i \in DOMAIN messages' : messages'[i].turn <= turn' /\ messages'[i].turn > since'
    <3> SUFFICES ASSUME NEW i \in DOMAIN messages'
                 PROVE  messages'[i].turn <= turn' /\ messages'[i].turn > since'
      OBVIOUS
    <3>1. CASE i \in 1 .. Len(messages)
      BY <1>1, <1>2, <1>6, <1>12, <3>1
    <3>2. CASE i = Len(messages) + 1
      BY <1>1, <1>4, <1>6, <2>1, <3>2
    <3> QED
      BY <1>6, <3>1, <3>2
  <2>3. \A i \in DOMAIN log' : log'[i].kind \in {"user", "assistant"} =>
          log'[i].turn <= turn' /\ log'[i].turn > since'
    <3> SUFFICES ASSUME NEW i \in 1 .. n + 2, log'[i].kind \in {"user", "assistant"}
                 PROVE  log'[i].turn <= turn' /\ log'[i].turn > since'
      BY <1>7
    <3>1. CASE i \in 1 .. n
      <4>1. log'[i] = log[i] /\ log[i].turn <= turn /\ log[i].turn > since
        BY <1>7, <3>1 DEF IInv, Session, NotAhead, StaysInConversation
      <4>2. log[i].turn \in 0 .. MaxTurns
        <5>1. log \in Seq(Rows) /\ i \in 1 .. Len(log)
          BY <3>1 DEF IInv, Typed, n
        <5>2. log[i] \in Rows
          BY <5>1, ElementOfSeq
        <5> QED
          BY <5>2 DEF Rows
      <4> DEFINE t == log[i].turn
      <4>3. t \in Int /\ t <= turn /\ t > since
        BY <1>2, <4>1, <4>2
      <4> HIDE DEF t
      <4>4. t <= turn + 1 /\ t > since
        BY <1>2, <4>3
      <4> QED
        BY <1>1, <4>1, <4>4 DEF t
    <3>2. CASE i = n + 1 \/ i = n + 2
      BY <1>1, <1>5, <1>7, <2>1, <3>2
    <3> QED
      BY <1>7, <3>1, <3>2
  <2> QED
    BY <2>2, <2>3 DEF NotAhead, StaysInConversation
<1>15. Writes'
  BY <1>1, <1>5, <1>7 DEF Writes, LastIsAnswer
<1>16. TranscriptHonest'
  <2>1. turn <= m.turn
    BY <1>2, <1>4
  <2> QED
    BY <1>1, <1>4, <2>1, HonestAppended DEF IInv, Session
<1>17. ShownAsSent'
  <2> SUFFICES ASSUME NEW a \in Answers' PROVE a.turn \in hit' \/ InLog(a)'
    BY DEF ShownAsSent
  <2>0. PICK i \in DOMAIN messages' : messages'[i] = a /\ a.role = "assistant"
    BY DEF Answers
  <2>1. i \in DOMAIN messages /\ a = messages[i]
    BY <1>4, <1>6, <2>0
  <2>2. a.turn \in hit \/ InLog(a)
    BY <2>0, <2>1 DEF IInv, Session, ShownAsSent, Answers
  <2>3. ASSUME InLog(a) PROVE InLog(a)'
    <3>1. PICK k \in 1 .. n : log[k] = Row("assistant", a.turn, a.text)
      BY <1>7, <2>3 DEF InLog
    <3>2. k \in DOMAIN log' /\ log'[k] = Row("assistant", a.turn, a.text)
      BY <1>7, <3>1
    <3> QED
      BY <3>2 DEF InLog
  <2> QED
    BY <1>1, <2>2, <2>3
<1> QED
  BY <1>9, <1>10, <1>11, <1>13, <1>14, <1>15, <1>16, <1>17 DEF IInv, Session


LEMMA ResetKeeps ==
    ASSUME IInv, Reset
    PROVE  IInv'
<1>1. /\ messages' = <<>> /\ log' = (IF conn = "refused" THEN WithError(Intro) ELSE Intro)
      /\ busy' = FALSE /\ conn' = "none" /\ wire' = <<>> /\ buffer' = <<>>
      /\ server' = "idle" /\ since' = turn /\ produced' = produced /\ reply' = reply
      /\ turn' = turn /\ asked' = asked /\ hit' = hit
      /\ how' = IF conn \in {"waiting", "open"}
                THEN [how EXCEPT ![turn] = [ended |-> "left", sent |-> produced]]
                ELSE how
  BY DEF Reset, HangUp
<1>2. /\ MaxTurns \in Nat /\ produced \in 0 .. MaxDeltas /\ produced \in Nat
      /\ turn \in 0 .. MaxTurns /\ turn \in 0 .. turn
  <2>1. MaxTurns \in Nat /\ MaxDeltas \in Nat
    BY BoundsAssumption
  <2>2. produced \in 0 .. MaxDeltas /\ turn \in 0 .. MaxTurns
    BY DEF IInv, Typed, TypeOK
  <2> QED
    BY <2>1, <2>2
<1>3. how' \in [Turns -> Went]
  <2>1. CASE conn \in {"waiting", "open"}
    <3> DEFINE w == [ended |-> "left", sent |-> produced]
    <3>1. w \in Went /\ busy /\ how' = [how EXCEPT ![turn] = w]
      BY <1>1, <1>2, <2>1 DEF Went, IInv, Typed, TypeOK
    <3> HIDE DEF w
    <3> QED
      BY <3>1, HowStep DEF IInv
  <2>2. CASE conn \notin {"waiting", "open"}
    BY <1>1, <2>2 DEF IInv, Typed
  <2> QED
    BY <2>1, <2>2
<1>4. /\ log' \in Seq(Rows) /\ log' # <<>>
      /\ \A i \in DOMAIN log' : log'[i].kind \in {"error", "system"}
  <2>1. /\ Intro \in Seq(Rows) /\ Intro # <<>> /\ Len(Intro) = 1 /\ DOMAIN Intro = 1 .. 1
        /\ \A i \in 1 .. 1 : Intro[i].kind = "system"
    <3> DEFINE r == Row("system", 0, <<>>)
    <3>1. r \in Rows /\ r.kind = "system"
      BY <1>2, EmptySeq DEF Row, Rows
    <3>2. Intro = <<r>>
      BY DEF Intro
    <3> HIDE DEF r
    <3>3. <<r>> \in Seq(Rows) /\ <<r>> # <<>> /\ Len(<<r>>) = 1 /\ DOMAIN <<r>> = 1 .. 1 /\ <<r>>[1] = r
      BY <3>1
    <3>4. \A i \in 1 .. 1 : i = 1
      OBVIOUS
    <3> QED
      BY <3>1, <3>2, <3>3, <3>4
  <2> DEFINE new == WithError(Intro)
  <2>2. /\ new \in Seq(Rows) /\ new # <<>>
        /\ \A i \in DOMAIN new : new[i].kind = "error" \/ (i \in 1 .. 1 /\ new[i] = Intro[i])
    BY <2>1, WithErrorProperty DEF IInv
  <2>3. log' = new \/ log' = Intro
    BY <1>1
  <2> HIDE DEF new
  <2> QED
    BY <2>1, <2>2, <2>3
<1>5. messages' \in Seq(Messages) /\ DOMAIN messages' = {}
  BY <1>1, EmptySeq
<1>6. Typed'
  <2>1. TypeOK'
    BY <1>1, <1>2 DEF IInv, Typed, TypeOK
  <2>2. wire' \in Seq(Tokens) /\ buffer' \in Seq(Tokens) /\ asked' \in Seq(Messages)
    BY <1>1, EmptySeq DEF IInv, Typed
  <2> QED
    BY <1>1, <1>3, <1>4, <1>5, <2>1, <2>2 DEF Typed
<1>7. Stream'
  <2>1. Pending' = <<>>
    BY <1>1 DEF Pending
  <2> QED
    BY <1>1, <2>1, NothingSaid, EmptySeq DEF Stream, Reading
<1>8. Outcome' /\ Waits' /\ Writes'
  BY <1>1 DEF Outcome, Waits, Writes
<1>9. NotAhead' /\ StaysInConversation'
  BY <1>4, <1>5 DEF NotAhead, StaysInConversation
<1>10. TranscriptHonest' /\ ShownAsSent'
  BY <1>1, <1>5 DEF TranscriptHonest, ShownAsSent, Answers
<1> QED
  BY <1>6, <1>7, <1>8, <1>9, <1>10 DEF IInv, Session

LEMMA ReportKeeps ==
    ASSUME IInv, Report
    PROVE  IInv'
<1>1. /\ hit' = (IF busy THEN hit \union {turn} ELSE hit)
      /\ server' = server /\ produced' = produced /\ wire' = wire /\ conn' = conn
      /\ buffer' = buffer /\ reply' = reply /\ busy' = busy /\ turn' = turn /\ asked' = asked
      /\ messages' = messages /\ since' = since /\ how' = how
  BY DEF Report
<1>2. Carries(log, log', {}) /\ log'[Len(log')].kind = "error"
  BY ReportCarries DEF IInv
<1>3. \A t \in hit' : t \in 1 .. turn
  <2>1. busy => turn \in 1 .. turn
    <3>1. busy => turn \in 1 .. MaxTurns
      BY DEF IInv, Typed, Turns
    <3> QED
      BY <3>1, BoundsAssumption
  <2>2. \A t \in hit : t \in 1 .. turn
    BY DEF IInv, Typed, TypeOK
  <2> QED
    BY <1>1, <2>1, <2>2
<1>4. Typed'
  <2>1. TypeOK'
    BY <1>1, <1>3 DEF IInv, Typed, TypeOK
  <2> QED
    BY <1>1, <1>2, <2>1 DEF IInv, Typed, Carries
<1>5. Stream' /\ Outcome'
  BY <1>1 DEF IInv, Stream, Outcome, Reading, Pending
<1>6. Waits' /\ Writes'
  BY <1>1, <1>2 DEF IInv, Session, Waits, Writes, LastIsAnswer
<1>7. TranscriptHonest'
  BY <1>1, <1>2, HonestKept DEF IInv, Session
<1>8. NotAhead' /\ StaysInConversation' /\ ShownAsSent'
  <2>1. \A t \in hit : t \in hit'
    BY <1>1
  <2> QED
    BY <1>1, <1>2, <2>1, LogKept DEF IInv, Session
<1> QED
  BY <1>4, <1>5, <1>6, <1>7, <1>8 DEF IInv, Session

-----------------------------------------------------------------------------
(* The theorems.                                                           *)

LEMMA InitInv == Init => IInv
<1> SUFFICES ASSUME Init PROVE IInv
  OBVIOUS
<1>1. /\ server = "idle" /\ produced = 0 /\ wire = <<>> /\ conn = "none" /\ buffer = <<>>
      /\ reply = <<>> /\ busy = FALSE /\ turn = 0 /\ asked = <<>> /\ messages = <<>>
      /\ log = Intro /\ reports = 0 /\ since = 0
      /\ how = [t \in Turns |-> [ended |-> "not", sent |-> 0]] /\ hit = {}
  BY DEF Init
<1>2. MaxTurns \in Nat /\ MaxDeltas \in Nat
  BY BoundsAssumption
<1>3. /\ log \in Seq(Rows) /\ log # <<>>
      /\ \A i \in DOMAIN log : log[i].kind = "system"
  <2> DEFINE r == Row("system", 0, <<>>)
  <2>1. r \in Rows /\ r.kind = "system"
    BY <1>2, EmptySeq DEF Row, Rows
  <2>2. log = <<r>>
    BY <1>1 DEF Intro
  <2> HIDE DEF r
  <2>3. <<r>> \in Seq(Rows) /\ <<r>> # <<>> /\ DOMAIN <<r>> = 1 .. 1 /\ <<r>>[1] = r
    BY <2>1
  <2>4. \A i \in 1 .. 1 : i = 1
    OBVIOUS
  <2> QED
    BY <2>1, <2>2, <2>3, <2>4
<1>4. reply \in Texts
  <2>1. <<>> \in [1 .. 0 -> 0 .. MaxDeltas] /\ 0 \in 0 .. MaxDeltas
    BY <1>2
  <2> QED
    BY <1>1, <2>1 DEF Texts
<1>5. Typed
  <2>1. TypeOK
    <3>1. produced \in 0 .. MaxDeltas /\ turn \in 0 .. MaxTurns /\ since \in 0 .. turn
      BY <1>1, <1>2
    <3> QED
      BY <1>1, <1>4, <3>1 DEF TypeOK
  <2>2. how \in [Turns -> Went]
    BY <1>1 DEF Went
  <2> QED
    BY <1>1, <1>3, <2>1, <2>2, EmptySeq DEF Typed
<1>6. Stream
  <2>1. Pending = <<>>
    BY <1>1 DEF Pending
  <2> QED
    BY <1>1, <2>1, NothingSaid, EmptySeq DEF Stream, Reading
<1>7. Outcome /\ Waits /\ Writes
  BY <1>1 DEF Outcome, Waits, Writes
<1>8. DOMAIN messages = {}
  BY <1>1, EmptySeq
<1>9. NotAhead /\ StaysInConversation
  BY <1>3, <1>8 DEF NotAhead, StaysInConversation
<1>10. TranscriptHonest /\ ShownAsSent
  BY <1>1, <1>8 DEF TranscriptHonest, ShownAsSent, Answers
<1> QED
  BY <1>5, <1>6, <1>7, <1>9, <1>10 DEF IInv, Session

LEMMA NextInv == IInv /\ [Next]_vars => IInv'
<1> SUFFICES ASSUME IInv, [Next]_vars PROVE IInv'
  OBVIOUS
<1>1. CASE Send
  BY <1>1, SendKeeps
<1>2. CASE Gateway
  BY <1>2, GatewayKeeps
<1>3. CASE Reader
  BY <1>3, ReadKeeps, ReadEndKeeps, ReadRefusalKeeps DEF Reader
<1>4. CASE Lose
  BY <1>4, LoseKeeps
<1>5. CASE Reset
  BY <1>5, ResetKeeps
<1>6. CASE Report
  BY <1>6, ReportKeeps
<1>7. CASE UNCHANGED vars
  <2>1. /\ server' = server /\ produced' = produced /\ wire' = wire /\ conn' = conn
        /\ buffer' = buffer /\ reply' = reply /\ busy' = busy /\ turn' = turn /\ asked' = asked
        /\ messages' = messages /\ log' = log /\ since' = since /\ hit' = hit /\ how' = how
    BY <1>7 DEF vars, session, notes
  <2>2. Typed' /\ Stream' /\ Outcome'
    BY <2>1 DEF IInv, Typed, TypeOK, Stream, Outcome, Reading, Pending
  <2>3. Waits' /\ NotAhead' /\ Writes'
    BY <2>1 DEF IInv, Session, Waits, NotAhead, Writes, LastIsAnswer
  <2>4. TranscriptHonest' /\ StaysInConversation' /\ ShownAsSent'
    BY <2>1 DEF IInv, Session, TranscriptHonest, StaysInConversation, ShownAsSent, Answers, InLog
  <2> QED
    BY <2>2, <2>3, <2>4 DEF IInv, Session
<1> QED
  BY <1>1, <1>2, <1>3, <1>4, <1>5, <1>6, <1>7 DEF Next

\* The inductive invariant: whole frames are pending, the text put together
\* with the pending one is what the encoder sent, and while the session is busy
\* its conversation ends with the question of this turn and its log, but for an
\* error of the page, with the answer.
THEOREM Inductive == Spec => []IInv
<1>1. Init => IInv
  BY InitInv
<1>2. IInv /\ [Next]_vars => IInv'
  BY NextInv
<1> QED
  BY <1>1, <1>2, PTL DEF Spec

\* However the chunks are cut, the reader puts together what the encoder sent,
\* in order and once (sseParser.ts, chatClient.ts).
THEOREM StreamReassembled == Spec => []Reassembled
<1>1. IInv => Reassembled
  <2> SUFFICES ASSUME IInv PROVE Reassembled
    OBVIOUS
  <2>1. TypeOK
    BY DEF IInv, Typed
  <2>2. ASSUME Reading PROVE reply \o TextOf(buffer) \o TextOf(wire) = [i \in 1 .. produced |-> i]
    <3> DEFINE tb == TextOf(buffer)
               tw == TextOf(wire)
    <3>1. reply \in Seq(Nat) /\ tb \in Seq(Nat) /\ tw \in Seq(Nat)
      <4>1. buffer \in Seq(Tokens) /\ wire \in Seq(Tokens)
        BY DEF IInv, Typed
      <4> QED
        BY <4>1, TextProperty, PendingProperty DEF IInv
    <3>2. reply \o (tb \o tw) = Pieces(produced)
      BY <2>2, PendingProperty DEF IInv, Stream
    <3> HIDE DEF tb, tw
    <3>3. (reply \o tb) \o tw = reply \o (tb \o tw)
      BY <3>1, AssocTexts, Zenon
    <3>4. (reply \o tb) \o tw = Pieces(produced)
      BY <3>2, <3>3
    <3> QED
      BY <3>4 DEF tb, tw, Pieces
  <2> QED
    BY <2>1, <2>2 DEF Reassembled
<1> QED
  BY <1>1, Inductive, PTL

\* What the next turn sends along is honest: an answer follows its question,
\* is the whole text the gateway sent, and belongs to a turn that did not fail
\* (onSend of useChatSession.ts).
THEOREM TranscriptIsHonest == Spec => []TranscriptHonest
<1>1. IInv => TranscriptHonest
  BY DEF IInv, Session
<1> QED
  BY <1>1, Inductive, PTL

\* After a new chat nothing of an earlier one is sent or shown, also when an
\* answer to it is under way (resetChat).
THEOREM ConversationKeptApart == Spec => []StaysInConversation
<1>1. IInv => StaysInConversation
  BY DEF IInv, Session
<1> QED
  BY <1>1, Inductive, PTL

\* The answer that the next turn sends along is the one on the page, but for a
\* turn during which the page reported an error of its own (reportError).
THEOREM AnswersAreShown == Spec => []ShownAsSent
<1>1. IInv => ShownAsSent
  BY DEF IInv, Session
<1> QED
  BY <1>1, Inductive, PTL
=============================================================================
