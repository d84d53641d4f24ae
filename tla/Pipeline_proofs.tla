-------------------------- MODULE Pipeline_proofs --------------------------
(***************************************************************************)
(* Proofs about Pipeline, for every set of conversations, prompts, flag    *)
(* settings, content categories and classifier answers.                    *)
(***************************************************************************)
EXTENDS Pipeline, WellFoundedInduction, SequenceTheorems, TLAPS

-----------------------------------------------------------------------------
(* The largest element of a bounded set of numbers.                        *)

LEMMA LeastExists ==
    ASSUME NEW S, S \subseteq Nat, S # {}
    PROVE  \E x \in S : \A y \in S : x <= y
<1> DEFINE Less == OpToRel(<, Nat)
<1>1. IsWellFoundedOn(Less, Nat)
  BY NatLessThanWellFounded
<1>2. ASSUME NEW x \in Nat, NEW y \in Nat, <<y, x>> \notin Less
      PROVE  x <= y
  <2>1. y < x => <<y, x>> \in Less
    BY DEF OpToRel
  <2> HIDE DEF Less
  <2> QED
    BY <1>2, <2>1
<1> HIDE DEF Less
<1>3. PICK x \in S : \A y \in S : ~ (<<y, x>> \in Less)
  BY <1>1, WFMin
<1>4. \A y \in S : x <= y
  BY <1>2, <1>3
<1> QED
  BY <1>4

LEMMA MaxProperty ==
    ASSUME NEW n \in Nat, NEW S, S \subseteq 0 .. n, S # {}
    PROVE  Max(S) \in S /\ \A y \in S : y <= Max(S)
<1> DEFINE T == {n - x : x \in S}
<1>1. \A x \in S : x \in 0 .. n /\ n - x \in Nat
  OBVIOUS
<1>2. T \subseteq Nat /\ T # {}
  BY <1>1
<1>3. PICK z \in T : \A y \in T : z <= y
  BY <1>2, LeastExists
<1>4. PICK x \in S : z = n - x
  OBVIOUS
<1>5. \A y \in S : n - x <= n - y
  BY <1>3, <1>4
<1>6. \A y \in S : x >= y
  BY <1>1, <1>5
<1> QED
  BY <1>6 DEF Max

LEMMA MinProperty ==
    ASSUME NEW S, S \subseteq Nat, NEW x \in S, \A y \in S : x <= y
    PROVE  Min(S) = x
<1>1. Min(S) \in S /\ \A y \in S : Min(S) <= y
  BY DEF Min
<1>2. Min(S) \in Nat /\ x \in Nat /\ Min(S) <= x /\ x <= Min(S)
  BY <1>1
<1> QED
  BY <1>2

-----------------------------------------------------------------------------
(* What the operators on messages do.                                      *)

LEMMA LatestUserText ==
    ASSUME NEW ms \in Seq(Message)
    PROVE  \/ LatestUser(ms) = "blank"
           \/ \E i \in DOMAIN ms : LatestUser(ms) = ms[i].text
<1> DEFINE said == {i \in DOMAIN ms : ms[i].role = "user" /\ ms[i].text # "blank"}
<1>1. said \subseteq 0 .. Len(ms) /\ Len(ms) \in Nat
  OBVIOUS
<1>2. CASE said = {}
  BY <1>2 DEF LatestUser
<1>3. CASE said # {}
  <2>1. Max(said) \in said
    BY <1>1, <1>3, MaxProperty
  <2> QED
    BY <1>3, <2>1 DEF LatestUser
<1> QED
  BY <1>2, <1>3

LEMMA LeadProperty ==
    ASSUME NEW ms \in Seq(Message)
    PROVE  /\ Lead(ms) \in 0 .. Len(ms)
           /\ \A j \in 1 .. Lead(ms) : ms[j].role = "system"
           /\ Lead(ms) < Len(ms) => ms[Lead(ms) + 1].role # "system"
<1> DEFINE S == {i \in 0 .. Len(ms) : \A j \in 1 .. i : ms[j].role = "system"}
<1>1. S \subseteq 0 .. Len(ms) /\ 0 \in S /\ Len(ms) \in Nat
  OBVIOUS
<1>2. Max(S) \in S /\ \A y \in S : y <= Max(S)
  BY <1>1, MaxProperty
<1>3. Lead(ms) = Max(S)
  BY DEF Lead
<1>4. Lead(ms) < Len(ms) /\ ms[Lead(ms) + 1].role = "system"
        => Lead(ms) + 1 \in S
  BY <1>2, <1>3
<1> QED
  BY <1>2, <1>3, <1>4

(* The number of leading system messages depends on the roles alone.       *)
LEMMA LeadOfRoles ==
    ASSUME NEW ms \in Seq(Message), NEW want \in Seq(Message),
           Len(ms) = Len(want), \A i \in DOMAIN ms : ms[i].role = want[i].role
    PROVE  Lead(ms) = Lead(want)
<1>1. \A i \in 0 .. Len(ms) :
         (\A j \in 1 .. i : ms[j].role = "system")
           <=> (\A j \in 1 .. i : want[j].role = "system")
  OBVIOUS
<1>2. {i \in 0 .. Len(ms) : \A j \in 1 .. i : ms[j].role = "system"}
        = {i \in 0 .. Len(want) : \A j \in 1 .. i : want[j].role = "system"}
  BY <1>1
<1> QED
  BY <1>2 DEF Lead

LEMMA InsertProperty ==
    ASSUME NEW S, NEW ms \in Seq(S), NEW i \in 1 .. Len(ms) + 1, NEW e \in S
    PROVE  /\ InsertAt(ms, i, e) \in Seq(S)
           /\ Len(InsertAt(ms, i, e)) = Len(ms) + 1
           /\ \A j \in 1 .. i - 1 : InsertAt(ms, i, e)[j] = ms[j]
           /\ InsertAt(ms, i, e)[i] = e
           /\ \A j \in i + 1 .. Len(ms) + 1 : InsertAt(ms, i, e)[j] = ms[j - 1]
<1> DEFINE before == SubSeq(ms, 1, i - 1)
           behind == SubSeq(ms, i, Len(ms))
<1>1. /\ before \in Seq(S) /\ Len(before) = i - 1
      /\ \A j \in 1 .. i - 1 : before[j] = ms[j]
  OBVIOUS
<1>2. /\ behind \in Seq(S) /\ Len(behind) = Len(ms) - i + 1
      /\ \A j \in 1 .. Len(ms) - i + 1 : behind[j] = ms[i + j - 1]
  OBVIOUS
<1>3. InsertAt(ms, i, e) = before \o <<e>> \o behind
  BY DEF InsertAt
<1> HIDE DEF before, behind
<1>4. /\ before \o <<e>> \in Seq(S) /\ Len(before \o <<e>>) = i
      /\ \A j \in 1 .. i - 1 : (before \o <<e>>)[j] = ms[j]
      /\ (before \o <<e>>)[i] = e
  BY <1>1
<1> DEFINE front == before \o <<e>>
<1> HIDE DEF front
<1>5. InsertAt(ms, i, e) = front \o behind
  BY <1>3 DEF front
<1>6. /\ front \in Seq(S) /\ Len(front) = i
      /\ \A j \in 1 .. i - 1 : front[j] = ms[j]
      /\ front[i] = e
  BY <1>4 DEF front
<1>7. front \o behind \in Seq(S) /\ Len(front \o behind) = Len(ms) + 1
  <2>1. front \o behind \in Seq(S)
    BY <1>2, <1>6
  <2>2. Len(front \o behind) = Len(front) + Len(behind)
    BY <1>2, <1>6, ConcatProperties
  <2> QED
    BY <1>2, <1>6, <2>1, <2>2
<1>8. \A j \in 1 .. i : (front \o behind)[j] = front[j]
  BY <1>2, <1>6
<1>9. \A j \in i + 1 .. Len(ms) + 1 : (front \o behind)[j] = behind[j - i]
  BY <1>2, <1>6
<1>10. \A j \in i + 1 .. Len(ms) + 1 : behind[j - i] = ms[j - 1]
  BY <1>2
<1> QED
  BY <1>5, <1>6, <1>7, <1>8, <1>9, <1>10

LEMMA RemoveInserted ==
    ASSUME NEW S, NEW ms \in Seq(S), NEW i \in 1 .. Len(ms)
    PROVE  /\ RemoveAt(ms, i) \in Seq(S)
           /\ Len(RemoveAt(ms, i)) = Len(ms) - 1
           /\ \A j \in 1 .. i - 1 : RemoveAt(ms, i)[j] = ms[j]
           /\ \A j \in i .. Len(ms) - 1 : RemoveAt(ms, i)[j] = ms[j + 1]
<1> DEFINE before == SubSeq(ms, 1, i - 1)
           behind == SubSeq(ms, i + 1, Len(ms))
<1>1. /\ before \in Seq(S) /\ Len(before) = i - 1
      /\ \A j \in 1 .. i - 1 : before[j] = ms[j]
  OBVIOUS
<1>2. /\ behind \in Seq(S) /\ Len(behind) = Len(ms) - i
      /\ \A j \in 1 .. Len(ms) - i : behind[j] = ms[i + j]
  OBVIOUS
<1>3. RemoveAt(ms, i) = before \o behind
  BY DEF RemoveAt
<1> HIDE DEF before, behind
<1>4. before \o behind \in Seq(S) /\ Len(before \o behind) = Len(ms) - 1
  <2>1. before \o behind \in Seq(S)
    BY <1>1, <1>2
  <2>2. Len(before \o behind) = Len(before) + Len(behind)
    BY <1>1, <1>2, ConcatProperties
  <2> QED
    BY <1>1, <1>2, <2>1, <2>2
<1>5. \A j \in 1 .. i - 1 : (before \o behind)[j] = before[j]
  BY <1>1, <1>2
<1>6. \A j \in i .. Len(ms) - 1 : (before \o behind)[j] = behind[j - i + 1]
  BY <1>1, <1>2
<1>7. \A j \in i .. Len(ms) - 1 : behind[j - i + 1] = ms[j + 1]
  BY <1>2
<1> QED
  BY <1>1, <1>3, <1>4, <1>5, <1>6, <1>7

LEMMA RedactAtProperty ==
    ASSUME NEW ms \in Seq(Message), NEW i
    PROVE  /\ RedactAt(ms, i) \in Seq(Message)
           /\ DOMAIN RedactAt(ms, i) = DOMAIN ms
           /\ Len(RedactAt(ms, i)) = Len(ms)
           /\ \A j \in DOMAIN ms :
                /\ RedactAt(ms, i)[j].role = ms[j].role
                /\ RedactAt(ms, i)[j].text =
                      IF j = i THEN Redacted(ms[j].text) ELSE ms[j].text
<1>1. \A m \in Message : [m EXCEPT !.text = Redacted(@)] \in Message
  BY DEF Message, Redacted, Texts
<1>2. \A j \in DOMAIN ms : ms[j] \in Message
  BY ElementOfSeq
<1>3. CASE i \in DOMAIN ms
  <2>1. RedactAt(ms, i) = [ms EXCEPT ![i] = [ms[i] EXCEPT !.text = Redacted(@)]]
    BY <1>3 DEF RedactAt
  <2>2. RedactAt(ms, i) \in Seq(Message)
    BY <1>1, <1>2, <1>3, <2>1
  <2>3. \A m \in Message : /\ [m EXCEPT !.text = Redacted(@)].role = m.role
                            /\ [m EXCEPT !.text = Redacted(@)].text = Redacted(m.text)
    BY DEF Message
  <2> QED
    BY <1>2, <1>3, <2>1, <2>2, <2>3
<1>4. CASE i \notin DOMAIN ms
  <2>1. RedactAt(ms, i) = ms
    BY <1>4 DEF RedactAt
  <2> QED
    BY <1>4, <2>1
<1> QED
  BY <1>3, <1>4

LEMMA RedactAllProperty ==
    ASSUME NEW ms \in Seq(Message)
    PROVE  /\ RedactAll(ms) \in Seq(Message)
           /\ Len(RedactAll(ms)) = Len(ms)
           /\ \A j \in DOMAIN ms :
                /\ RedactAll(ms)[j].role = ms[j].role
                /\ RedactAll(ms)[j].text = Redacted(ms[j].text)
                /\ RedactAll(ms)[j].text # "raw"
<1>1. \A m \in Message : /\ [m EXCEPT !.text = Redacted(@)] \in Message
                          /\ [m EXCEPT !.text = Redacted(@)].role = m.role
                          /\ [m EXCEPT !.text = Redacted(@)].text = Redacted(m.text)
                          /\ Redacted(m.text) # "raw"
  BY DEF Message, Redacted, Texts
<1>2. Len(ms) \in Nat /\ DOMAIN ms = 1 .. Len(ms) /\ \A j \in DOMAIN ms : ms[j] \in Message
  BY ElementOfSeq
<1>3. RedactAll(ms) = [i \in 1 .. Len(ms) |-> [ms[i] EXCEPT !.text = Redacted(@)]]
  BY <1>2 DEF RedactAll
<1>4. RedactAll(ms) \in [1 .. Len(ms) -> Message]
  BY <1>1, <1>2, <1>3
<1>5. RedactAll(ms) \in Seq(Message)
  BY <1>2, <1>4
<1>6. Len(RedactAll(ms)) = Len(ms)
  BY <1>2, <1>3, <1>5
<1>7. ASSUME NEW j \in DOMAIN ms
      PROVE  RedactAll(ms)[j] = [ms[j] EXCEPT !.text = Redacted(@)]
  BY <1>2, <1>3, <1>7, Zenon
<1>8. ASSUME NEW j \in DOMAIN ms
      PROVE  /\ RedactAll(ms)[j].role = ms[j].role
             /\ RedactAll(ms)[j].text = Redacted(ms[j].text)
             /\ RedactAll(ms)[j].text # "raw"
  <2>1. ms[j] \in Message
    BY <1>2, <1>8
  <2> QED
    BY <1>1, <1>7, <1>8, <2>1, Zenon
<1> QED
  BY <1>5, <1>6, <1>8

(* The block of memories goes behind the leading system messages.          *)
LEMMA InjectedProperty ==
    ASSUME NEW ms \in Seq(Message), NEW text \in Texts
    PROVE  LET after == Injected(ms, text)
               at    == Lead(ms) + 1
           IN  /\ after \in Seq(Message)
               /\ at \in 1 .. Len(ms) + 1
               /\ Len(after) = Len(ms) + 1
               /\ after[at] = [role |-> "system", text |-> text]
               /\ \A j \in 1 .. Lead(ms) : after[j] = ms[j]
               /\ \A j \in at + 1 .. Len(ms) + 1 : after[j] = ms[j - 1]
<1> DEFINE block == [role |-> "system", text |-> text]
           at    == Lead(ms) + 1
<1>1. Lead(ms) \in 0 .. Len(ms) /\ Len(ms) \in Nat
  BY LeadProperty
<1>2. at \in 1 .. Len(ms) + 1 /\ at - 1 = Lead(ms)
  BY <1>1
<1>3. block \in Message
  BY DEF Message, Roles
<1>4. Injected(ms, text) = InsertAt(ms, at, block)
  BY DEF Injected
<1> HIDE DEF block, at
<1>5. /\ InsertAt(ms, at, block) \in Seq(Message)
      /\ Len(InsertAt(ms, at, block)) = Len(ms) + 1
      /\ \A j \in 1 .. at - 1 : InsertAt(ms, at, block)[j] = ms[j]
      /\ InsertAt(ms, at, block)[at] = block
      /\ \A j \in at + 1 .. Len(ms) + 1 : InsertAt(ms, at, block)[j] = ms[j - 1]
  BY <1>2, <1>3, InsertProperty
<1>6. /\ Injected(ms, text) \in Seq(Message)
      /\ Len(Injected(ms, text)) = Len(ms) + 1
      /\ Injected(ms, text)[at] = block
      /\ \A j \in 1 .. Lead(ms) : Injected(ms, text)[j] = ms[j]
      /\ \A j \in at + 1 .. Len(ms) + 1 : Injected(ms, text)[j] = ms[j - 1]
  BY <1>2, <1>4, <1>5
<1> QED
  BY <1>2, <1>6 DEF block, at

(* The list comparison of _injected_message_index finds the block whenever *)
(* the block holds personal data and the messages before it none.          *)
LEMMA InjectedIndexFinds ==
    ASSUME NEW ms \in Seq(Message), \A i \in DOMAIN ms : ms[i].text # "raw"
    PROVE  InjectedIndex(ms, Injected(ms, "raw")) = Lead(ms) + 1
<1> DEFINE after == Injected(ms, "raw")
           at    == Lead(ms) + 1
           S     == {i \in DOMAIN ms : ms[i] # after[i]} \cup {Len(after)}
<1>0. /\ Len(ms) \in Nat /\ at \in 1 .. Len(ms) + 1 /\ Len(after) = Len(ms) + 1
      /\ after[at] = [role |-> "system", text |-> "raw"]
      /\ \A j \in 1 .. Lead(ms) : after[j] = ms[j]
  <2>1. "raw" \in Texts
    BY DEF Texts
  <2> QED
    BY <2>1, InjectedProperty
<1>1. /\ Len(ms) \in Nat /\ at \in 1 .. Len(ms) + 1 /\ Len(after) = Len(ms) + 1
      /\ after[at] = [role |-> "system", text |-> "raw"]
      /\ \A j \in 1 .. at - 1 : after[j] = ms[j]
  <2>1. Lead(ms) \in Nat
    BY LeadProperty
  <2> QED
    BY <1>0, <2>1
<1> HIDE DEF after, at
<1>2. DOMAIN ms = 1 .. Len(ms)
  OBVIOUS
<1>3. at \in S
  BY <1>1, <1>2
<1>4. S \subseteq Nat /\ \A y \in S : at <= y
  BY <1>1, <1>2
<1>5. Min(S) = at
  BY <1>3, <1>4, MinProperty
<1> QED
  BY <1>5 DEF InjectedIndex, after, at

LEMMA WithMemoryProperty ==
    ASSUME NEW ms \in Seq(Message), NEW text \in {"clean", "raw"}
    PROVE  LET got == WithMemory(ms, text)
               at  == Lead(ms) + 1
           IN  /\ got \in Seq(Message)
               /\ at \in 1 .. Len(ms) + 1
               /\ Len(got) = Len(ms) + 1
               /\ got[at].role = "system"
               /\ \A j \in 1 .. Lead(ms) : Alike(got[j], ms[j])
               /\ \A j \in at + 1 .. Len(ms) + 1 : Alike(got[j], ms[j - 1])
               /\ flags.pii /\ (\A i \in DOMAIN ms : ms[i].text # "raw")
                    => \A i \in DOMAIN got : got[i].text # "raw"
<1> DEFINE after == Injected(ms, text)
           at    == Lead(ms) + 1
           found == InjectedIndex(ms, after)
           got   == WithMemory(ms, text)
<1>1. /\ after \in Seq(Message)
      /\ at \in 1 .. Len(ms) + 1 /\ Lead(ms) \in 0 .. Len(ms)
      /\ Len(ms) \in Nat /\ Len(after) = Len(ms) + 1
      /\ after[at] = [role |-> "system", text |-> text]
      /\ \A j \in 1 .. Lead(ms) : after[j] = ms[j]
      /\ \A j \in at + 1 .. Len(ms) + 1 : after[j] = ms[j - 1]
  <2>1. text \in Texts
    BY DEF Texts
  <2>2. Lead(ms) \in 0 .. Len(ms) /\ Len(ms) \in Nat
    BY LeadProperty
  <2> QED
    BY <2>1, <2>2, InjectedProperty
<1>2. got = IF flags.pii THEN RedactAt(after, found) ELSE after
  BY DEF WithMemory
<1>3. text = "raw" /\ (\A i \in DOMAIN ms : ms[i].text # "raw") => found = at
  BY InjectedIndexFinds
<1> HIDE DEF after, found, got
<1>4. /\ RedactAt(after, found) \in Seq(Message)
      /\ Len(RedactAt(after, found)) = Len(after)
      /\ \A j \in DOMAIN after :
           /\ RedactAt(after, found)[j].role = after[j].role
           /\ RedactAt(after, found)[j].text =
                 IF j = found THEN Redacted(after[j].text) ELSE after[j].text
  BY <1>1, RedactAtProperty
<1>5. /\ got \in Seq(Message) /\ Len(got) = Len(ms) + 1
      /\ \A j \in 1 .. Len(ms) + 1 :
           /\ Alike(got[j], after[j])
           /\ got[j].text = "raw" =>
                after[j].text = "raw" /\ (flags.pii => j # found)
  <2>1. DOMAIN after = 1 .. Len(ms) + 1
    BY <1>1
  <2>2. CASE ~flags.pii
    <3>1. got = after
      BY <1>2, <2>2
    <3> QED
      BY <1>1, <2>2, <3>1 DEF Alike
  <2>3. CASE flags.pii
    <3>1. got = RedactAt(after, found)
      BY <1>2, <2>3
    <3>2. got \in Seq(Message) /\ Len(got) = Len(ms) + 1
      BY <1>1, <1>4, <3>1
    <3>3. ASSUME NEW j \in 1 .. Len(ms) + 1
          PROVE  /\ Alike(got[j], after[j])
                 /\ got[j].text = "raw" => after[j].text = "raw" /\ j # found
      <4>1. /\ got[j].role = after[j].role
            /\ got[j].text = IF j = found THEN Redacted(after[j].text) ELSE after[j].text
        BY <1>4, <2>1, <3>1
      <4> QED
        BY <4>1 DEF Alike, Redacted
    <3> QED
      BY <3>2, <3>3
  <2> QED
    BY <2>2, <2>3
<1>6. got[at].role = "system"
  BY <1>1, <1>5 DEF Alike
<1>7. ASSUME flags.pii, \A i \in DOMAIN ms : ms[i].text # "raw"
      PROVE  \A i \in DOMAIN got : got[i].text # "raw"
  <2>1. \A i \in 1 .. Len(ms) + 1 : i # at => after[i].text # "raw"
    <3>1. \A i \in 1 .. Lead(ms) : after[i].text # "raw"
      BY <1>1, <1>7
    <3>2. \A i \in at + 1 .. Len(ms) + 1 : after[i].text # "raw"
      BY <1>1, <1>7
    <3> QED
      BY <1>1, <3>1, <3>2
  <2>2. after[at].text = "raw" => found = at
    BY <1>1, <1>3, <1>7
  <2> QED
    BY <1>5, <1>7, <2>1, <2>2
<1> QED
  BY <1>1, <1>5, <1>6, <1>7 DEF got

-----------------------------------------------------------------------------
(* The inductive invariant.                                                *)

Before == {"arrived", "compiled", "redacted", "ready", "screening", "passed"}
Within == {"calling", "billed", "vetting", "vetted", "valid", "closing"}
Places == Before \cup Within \cup {"finishing", "over"}

WireChunk ==
    [is : {"role", "text", "finish", "usage", "error", "done"}, text : Texts]

(* The types of the texts, and what is never on at a place.                *)
Contents ==
    /\ messages \in Seq(Message)
    /\ sent \in [guard : Seq(Message), provider : Seq(Message)]
    /\ answer \in Texts /\ body \in Body
    /\ remembered \subseteq Texts
    /\ wire \in Seq(WireChunk) /\ usage \in BOOLEAN

Placed ==
    /\ pc \in Places
    /\ streams /\ format # "none" => pc \in {"arrived", "over"}
    /\ pc \in {"closing", "finishing"} => streams
    /\ pc \notin {"screening", "vetting"} => scans = {}

Typed ==
    /\ PipelineTypeOK /\ Contents /\ Placed
    /\ streams \in BOOLEAN
    /\ prompt \in Seq(Message) /\ given \in Seq(Message)

\* The role, then text.
Opened == /\ wire # <<>> /\ wire[1].is = "role"
          /\ \A i \in DOMAIN wire : i > 1 => wire[i].is = "text"

(* What the client has been told at each place.                            *)
Told ==
    /\ pc # "over" => status = 0
    /\ ~streams \/ pc \in Before => wire = <<>>
    /\ streams /\ pc \in Within \cup {"finishing"} => Opened
    /\ pc \in Before \cup Within => ~usage
    /\ pc = "finishing" => usage
    /\ pc = "over" /\ status = 0 =>
         wire # <<>> /\ wire[Len(wire)].is = "done" /\ WireGrammar
    /\ status # 0 => wire = <<>>

(* An answer is charged only after the provider gave it.                   *)
ChargedLate ==
    /\ pc \in Before \cup {"calling"} => ~billed
    /\ CheapRefusals

(* What was checked against the schema is not touched again.               *)
CheckedLast ==
    /\ pc = "valid" => Accepted(Parsed(body))
    /\ format # "none" /\ (status = 200 \/ remembered # {})
         => Accepted(Parsed(body))

(* The guard is handed the final messages.                                 *)
ScreenedLast ==
    /\ pc \in Before => sent.provider = <<>>
    /\ flags.guard /\ pc \in {"screening", "passed"} => sent.guard = messages
    /\ ScreenedIsSent

(* Nothing is handed out while a verdict is still to come.                 *)
HeldBack ==
    /\ scans \subseteq {Scan("injection", chunk) : chunk \in {"first", "second"}}
                         \cup {Scan("content", role) : role \in Roles}
    /\ pc = "vetting" /\ scans # {} => ContentOn(flags)
    /\ pc \in Before \cup (Within \ {"closing"}) => remembered = {}
    /\ pc \in Within \ {"closing"} /\ Buffered => Len(wire) <= 1
    /\ FailClosed

\* Messages, or chunks, without personal data.
NoneRaw(ms) == \A i \in DOMAIN ms : ms[i].text # "raw"

(* Behind redaction nothing is raw.                                        *)
Clean ==
    flags.pii =>
        /\ pc \in Places \ {"arrived", "compiled", "over"} => NoneRaw(messages)
        /\ pc \in {"vetting", "vetted", "valid", "closing", "finishing"}
              => answer # "raw"
        /\ NoneRaw(sent.guard) /\ NoneRaw(sent.provider) /\ NoneRaw(wire)
        /\ status = 200 => answer # "raw"
        /\ "raw" \notin remembered

\* The messages that are wanted, all of them and in order ...
Wanted == {lead \o given :
    lead \in {prompt} \cup IF prompt = <<>> THEN {} ELSE {Assistant}}
Kept(ms, want) ==
    Len(ms) = Len(want) /\ \A i \in DOMAIN ms : Alike(ms[i], want[i])

\* ... and with a block of memories among them.
Extended(ms, want) ==
    LET i == Lead(want) + 1
    IN i \in DOMAIN ms /\ ms[i].role = "system" /\ Kept(RemoveAt(ms, i), want)

(* Nothing of the conversation is lost on the way to the provider.         *)
Complete ==
    /\ pc = "arrived" => messages = given
    /\ pc \in {"compiled", "redacted"} => \E want \in Wanted : Kept(messages, want)
    /\ pc \in {"ready", "screening", "passed"} =>
         \E want \in Wanted : Kept(messages, want) \/ Extended(messages, want)
    /\ ConversationKept

IInv == /\ Typed /\ Told /\ ChargedLate /\ CheckedLast
        /\ ScreenedLast /\ HeldBack /\ Clean /\ Complete

-----------------------------------------------------------------------------
(* The kinds of step.                                                      *)

(* Whatever fails, the turn is over and nothing else is done.              *)
Ends ==
    \E error : /\ Fail(error) /\ pc # "over"
               /\ error \in {"unauthorized", "rate", "api", "budget"}
                    => pc \in {"passed", "calling"}
               /\ alarm' # alarm => scans # {}
               /\ UNCHANGED <<sent, billed, remembered>>

\* The parts of Compile, Screen, Classified and Validate that do not fail.
Compiles ==
    \E ms \in Seq(Message) :
        /\ IF prompt = <<>> THEN ms = <<>> ELSE ms \in {prompt, Assistant}
        /\ ~(streams /\ format # "none")
        /\ Prepend(ms)

Screens ==
    /\ Go("ready", "screening")
    /\ \E chunks \in SUBSET {"first", "second"} :
          scans' = IF flags.guard THEN Inbound(messages, flags, chunks) ELSE {}
    /\ sent' = [sent EXCEPT !.guard = IF flags.guard THEN messages ELSE <<>>]
    /\ UNCHANGED <<asked, messages, answer, body, status, encoder>>
    /\ UNCHANGED <<billed, alarm, remembered>>

Passes ==
    \E scan \in scans, a \in Answers :
        /\ VerdictOf(scan, a, nemotron) = "passed"
        /\ alarm' = (alarm \/ ~Harmless(scan, a))
        /\ scans' = scans \ {scan}
        /\ UNCHANGED <<asked, pc, messages, answer, body, status, encoder>>
        /\ UNCHANGED <<sent, billed, remembered>>

Validates ==
    /\ Go("vetted", "valid") /\ format # "none" /\ Accepted(Parsed(body))
    /\ UNCHANGED <<asked, messages, scans, answer, body, status, encoder, past>>

LEMMA StepKinds ==
    ASSUME Typed, [PipelineNext]_pipelineVars
    PROVE  \/ Ends \/ Malformed
           \/ Compiles \/ Redact \/ Attach \/ Screens \/ Passes \/ Screened
           \/ Admit \/ (\E text \in Texts : Delta(text)) \/ Answered
           \/ Vet \/ Validates \/ Deliver \/ Close \/ UNCHANGED pipelineVars
<1>1. ASSUME NEW remote \in Remote, NEW local \in Local, Compile(remote, local)
      PROVE  Ends \/ Compiles
  <2>1. Assistant \in Seq(Message)
    BY DEF Assistant, Message, Roles, Texts
  <2>2. CASE prompt = <<>>
    <3>1. Prepend(<<>>) /\ ~(streams /\ format # "none")
      BY <1>1, <2>2 DEF Compile
    <3>2. <<>> \in Seq(Message)
      OBVIOUS
    <3> QED
      BY <2>2, <3>1, <3>2 DEF Compiles
  <2>3. CASE prompt # <<>> /\ Found(remote, local)
    BY <1>1, <2>1, <2>3 DEF Compile, Compiles, Compiled, Typed
  <2>4. CASE prompt # <<>> /\ ~Found(remote, local)
    <3>1. Fail("prompt") /\ UNCHANGED past /\ pc = "arrived"
      BY <1>1, <2>4 DEF Compile
    <3> QED
      BY <3>1 DEF Ends, past
  <2> QED
    BY <2>2, <2>3, <2>4
<1>2. ASSUME NEW chunks \in {{"first"}, {"first", "second"}}, Screen(chunks)
      PROVE  Ends \/ Screens
  <2>1. CASE Scannable(flags, known)
    BY <1>2, <2>1 DEF Screen, Screens, Go, ToScreen
  <2>2. CASE ~Scannable(flags, known)
    <3>1. Fail("misconfigured") /\ UNCHANGED past /\ pc = "ready"
      BY <1>2, <2>2 DEF Screen
    <3> QED
      BY <3>1 DEF Ends, past
  <2> QED
    BY <2>1, <2>2
<1>3. ASSUME NEW scan \in scans, NEW a \in Answers, Classified(scan, a)
      PROVE  Ends \/ Passes
  <2>1. CASE VerdictOf(scan, a, nemotron) = "passed"
    BY <1>3, <2>1 DEF Classified, Passes
  <2>2. CASE VerdictOf(scan, a, nemotron) # "passed"
    <3>1. VerdictOf(scan, a, nemotron) \in {"passed", "blocked", "misconfigured"}
      BY DEF VerdictOf, InjectionVerdict, ContentVerdict, Read
    <3>2. /\ Fail(VerdictOf(scan, a, nemotron))
          /\ UNCHANGED <<sent, billed, remembered>>
      BY <1>3, <2>2 DEF Classified
    <3>3. pc # "over" /\ scans # {}
      BY DEF Typed, Placed
    <3> QED
      BY <2>2, <3>1, <3>2, <3>3 DEF Ends
  <2> QED
    BY <2>1, <2>2
<1>4. CASE ClassifierFails \/ RedactionFails
  <2>1. Fail("misconfigured") /\ UNCHANGED past /\ pc # "over"
    BY <1>4 DEF ClassifierFails, RedactionFails, Typed, Placed
  <2> QED
    BY <2>1 DEF Ends, past
<1>5. CASE TurnAway \/ ProviderFails
  <2>1. \E error : Fail(error) /\ UNCHANGED past /\ pc \in {"passed", "calling"}
    BY <1>5 DEF TurnAway, ProviderFails
  <2> QED
    BY <2>1 DEF Ends, past
<1>6. CASE Validate
  <2>1. CASE Accepted(Parsed(body))
    BY <1>6, <2>1 DEF Validate, Validates, Go
  <2>2. CASE ~Accepted(Parsed(body))
    <3>1. Fail("schema") /\ pc = "vetted" /\ UNCHANGED past
      BY <1>6, <2>2 DEF Validate
    <3> QED
      BY <3>1 DEF Ends, past
  <2> QED
    BY <2>1, <2>2
<1> QED
  BY <1>1, <1>2, <1>3, <1>4, <1>5, <1>6 DEF PipelineNext, Over

-----------------------------------------------------------------------------
(* What is sent to the client.                                             *)

LEMMA ChunkTyped ==
    ASSUME NEW is \in {"role", "finish", "usage", "error", "done"}
    PROVE  Chunk(is) \in WireChunk /\ Chunk(is).is = is
BY DEF Chunk, WireChunk, Texts

LEMMA Appended ==
    ASSUME NEW S, NEW s \in Seq(S), NEW t \in Seq(S)
    PROVE  /\ s \o t \in Seq(S) /\ Len(s \o t) = Len(s) + Len(t)
           /\ Len(s) \in Nat /\ Len(t) \in Nat
           /\ DOMAIN s = 1 .. Len(s) /\ DOMAIN (s \o t) = 1 .. Len(s) + Len(t)
           /\ \A i \in 1 .. Len(s) : (s \o t)[i] = s[i]
           /\ \A i \in 1 .. Len(t) : (s \o t)[Len(s) + i] = t[i]
<1>1. s \o t \in Seq(S) /\ Len(s) \in Nat /\ Len(t) \in Nat /\ DOMAIN s = 1 .. Len(s)
  OBVIOUS
<1>2. Len(s \o t) = Len(s) + Len(t)
  BY ConcatProperties
<1>3. DOMAIN (s \o t) = 1 .. Len(s) + Len(t)
  BY <1>1, <1>2
<1>4. \A i \in 1 .. Len(s) : (s \o t)[i] = s[i]
  OBVIOUS
<1>5. \A i \in 1 .. Len(t) : (s \o t)[Len(s) + i] = t[i]
  OBVIOUS
<1> QED
  BY <1>1, <1>2, <1>3, <1>4, <1>5

(* A stream that fails ends with an error and the end mark.                *)
LEMMA ErrorEnds ==
    ASSUME wire \in Seq(WireChunk), wire = <<>> \/ Opened, OnError
    PROVE  /\ wire' \in Seq(WireChunk) /\ wire' # <<>>
           /\ wire'[Len(wire')].is = "done" /\ WireGrammar'
           /\ \A i \in DOMAIN wire' : i \in DOMAIN wire \/ wire'[i].is \in {"error", "done"}
           /\ \A i \in DOMAIN wire : wire'[i] = wire[i]
           /\ \A i \in DOMAIN wire' : i \in DOMAIN wire \/ wire'[i].text = "blank"
<1> DEFINE n == Len(wire)
           tail == <<Chunk("error"), Chunk("done")>>
<1>1. n \in Nat /\ DOMAIN wire = 1 .. n
  OBVIOUS
<1>0. tail \in Seq(WireChunk)
  BY ChunkTyped
<1>2. /\ Len(tail) = 2
      /\ tail[1].is = "error" /\ tail[2].is = "done"
      /\ tail[1].text = "blank" /\ tail[2].text = "blank"
  BY ChunkTyped DEF Chunk
<1>3. wire' = wire \o tail
  BY DEF OnError, Sends
<1> HIDE DEF tail
<1>4. wire' \in Seq(WireChunk) /\ Len(wire') = n + 2 /\ DOMAIN wire' = 1 .. n + 2
  <2>1. /\ wire \o tail \in Seq(WireChunk) /\ Len(wire \o tail) = n + Len(tail)
        /\ DOMAIN (wire \o tail) = 1 .. n + Len(tail)
    BY <1>0, Appended
  <2> QED
    BY <1>2, <1>3, <2>1
<1>5. \A i \in 1 .. n : wire'[i] = wire[i]
  BY <1>0, <1>3, Appended
<1>6. wire'[n + 1] = tail[1] /\ wire'[n + 2] = tail[2]
  <2> HIDE DEF n
  <2>1. \A i \in 1 .. Len(tail) : wire'[n + i] = tail[i]
    BY <1>0, <1>3, Appended DEF n
  <2> QED
    BY <1>2, <2>1
<1>7. \A i \in 1 .. n : wire[i].is \in {"role", "text"}
  BY <1>1 DEF Opened
<1>8. \A i, j \in 1 .. n + 2 : i < j =>
         /\ wire'[i].is # "done"
         /\ wire'[j].is # "role"
         /\ wire'[j].is = "text" => wire'[i].is \in {"role", "text"}
         /\ wire'[i].is = "error" => wire'[j].is = "done"
         /\ wire'[i].is \notin {"finish", "usage"}
  <2> TAKE i, j \in 1 .. n + 2
  <2>1. CASE j <= n
    BY <1>1, <1>5, <1>7, <2>1 DEF Opened
  <2>2. CASE j = n + 1
    BY <1>1, <1>2, <1>5, <1>6, <1>7, <2>2
  <2>3. CASE j = n + 2
    BY <1>1, <1>2, <1>5, <1>6, <1>7, <2>3
  <2> QED
    BY <1>1, <2>1, <2>2, <2>3
<1>9. wire'[1].is \in {"role", "error"}
  BY <1>1, <1>2, <1>5, <1>6 DEF Opened
<1>10. \A i \in 1 .. n + 2 : wire'[i].is = "done" => i > 1 /\ wire'[i - 1].is = "error"
  BY <1>1, <1>2, <1>5, <1>6, <1>7
<1>11. \A i \in 1 .. n + 2 : i > n => wire'[i] \in {tail[1], tail[2]}
  BY <1>1, <1>6
<1>12. WireGrammar'
  BY <1>4, <1>8, <1>9, <1>10 DEF WireGrammar
<1>13. wire' # <<>> /\ wire'[Len(wire')].is = "done"
  BY <1>1, <1>2, <1>4, <1>6
<1> QED
  BY <1>1, <1>2, <1>4, <1>5, <1>11, <1>12, <1>13

(* A stream that ends has its finish reason, its usage and the end mark.   *)
LEMMA FinishEnds ==
    ASSUME wire \in Seq(WireChunk), Opened, usage, OnFinished
    PROVE  /\ wire' \in Seq(WireChunk) /\ wire' # <<>>
           /\ wire'[Len(wire')].is = "done" /\ WireGrammar'
           /\ \A i \in DOMAIN wire : wire'[i] = wire[i]
           /\ \A i \in DOMAIN wire' : i \in DOMAIN wire \/ wire'[i].text = "blank"
<1> DEFINE n == Len(wire)
           tail == <<Chunk("finish"), Chunk("usage"), Chunk("done")>>
<1>1. n \in Nat /\ n > 0 /\ DOMAIN wire = 1 .. n
  BY DEF Opened
<1>0. tail \in Seq(WireChunk)
  BY ChunkTyped
<1>2. /\ Len(tail) = 3
      /\ tail[1].is = "finish" /\ tail[2].is = "usage" /\ tail[3].is = "done"
      /\ \A i \in 1 .. 3 : tail[i].text = "blank"
  BY ChunkTyped DEF Chunk
<1>3. wire' = wire \o tail
  BY DEF OnFinished, Sends, Finish
<1> HIDE DEF tail
<1>4. wire' \in Seq(WireChunk) /\ Len(wire') = n + 3 /\ DOMAIN wire' = 1 .. n + 3
  <2>1. /\ wire \o tail \in Seq(WireChunk) /\ Len(wire \o tail) = n + Len(tail)
        /\ DOMAIN (wire \o tail) = 1 .. n + Len(tail)
    BY <1>0, Appended
  <2> QED
    BY <1>2, <1>3, <2>1
<1>5. \A i \in 1 .. n : wire'[i] = wire[i]
  BY <1>0, <1>3, Appended
<1>6. wire'[n + 1] = tail[1] /\ wire'[n + 2] = tail[2] /\ wire'[n + 3] = tail[3]
  <2> HIDE DEF n
  <2>1. \A i \in 1 .. Len(tail) : wire'[n + i] = tail[i]
    BY <1>0, <1>3, Appended DEF n
  <2> QED
    BY <1>2, <2>1
<1>7. \A i \in 1 .. n : wire[i].is \in {"role", "text"}
  BY <1>1 DEF Opened
<1>8. \A i, j \in 1 .. n + 3 : i < j =>
         /\ wire'[i].is \notin {"done", "error"}
         /\ wire'[j].is # "role"
         /\ wire'[j].is = "text" => wire'[i].is \in {"role", "text"}
         /\ wire'[i].is = "finish" => wire'[j].is \in {"usage", "done"}
         /\ wire'[i].is = "usage" => wire'[j].is = "done"
  <2> TAKE i, j \in 1 .. n + 3
  <2>1. CASE j <= n
    BY <1>1, <1>5, <1>7, <2>1 DEF Opened
  <2>2. CASE j = n + 1
    BY <1>1, <1>2, <1>5, <1>6, <1>7, <2>2
  <2>3. CASE j = n + 2
    BY <1>1, <1>2, <1>5, <1>6, <1>7, <2>3
  <2>4. CASE j = n + 3
    BY <1>1, <1>2, <1>5, <1>6, <1>7, <2>4
  <2> QED
    BY <1>1, <2>1, <2>2, <2>3, <2>4
<1>9. wire'[1].is = "role"
  BY <1>1, <1>5 DEF Opened
<1>10. \A i \in 1 .. n + 3 : wire'[i].is = "done" => i > 1 /\ wire'[i - 1].is = "usage"
  <2> HIDE DEF n
  <2>1. \A i \in 1 .. n : wire'[i].is # "done"
    BY <1>5, <1>7
  <2>2. wire'[n + 1].is = "finish" /\ wire'[n + 2].is = "usage"
    BY <1>2, <1>6
  <2>3. \A i \in 1 .. n + 3 : i \in 1 .. n \/ i = n + 1 \/ i = n + 2 \/ i = n + 3
    BY <1>1
  <2>4. n + 3 > 1 /\ n + 3 - 1 = n + 2
    BY <1>1
  <2> SUFFICES ASSUME NEW i \in 1 .. n + 3, wire'[i].is = "done"
               PROVE  i > 1 /\ wire'[i - 1].is = "usage"
    OBVIOUS
  <2>5. i = n + 3
    BY <2>1, <2>2, <2>3
  <2>6. i > 1 /\ i - 1 = n + 2
    BY <1>1, <2>5
  <2> QED
    BY <2>2, <2>6
<1>11. \A i \in 1 .. n + 3 : i > n => wire'[i].text = "blank"
  BY <1>1, <1>2, <1>6
<1> QED
  BY <1>1, <1>2, <1>4, <1>5, <1>6, <1>8, <1>9, <1>10, <1>11 DEF WireGrammar

LEMMA DeltaKeeps ==
    ASSUME wire \in Seq(WireChunk), NEW text \in Texts, OnDelta(text)
    PROVE  /\ wire' \in Seq(WireChunk) /\ usage' = usage
           /\ Opened => Opened'
           /\ text = "blank" => wire' = wire
           /\ \A i \in DOMAIN wire' : i \in DOMAIN wire \/
                 (wire'[i].is = "text" /\ wire'[i].text = text)
           /\ \A i \in DOMAIN wire : i \in DOMAIN wire' /\ wire'[i] = wire[i]
<1> DEFINE piece == [is |-> "text", text |-> text]
<1>1. piece \in WireChunk /\ piece.is = "text" /\ piece.text = text
  BY DEF WireChunk
<1>2. CASE text = "blank"
  <2>1. wire' = wire /\ usage' = usage
    BY <1>2 DEF OnDelta, Sends
  <2> QED
    BY <1>2, <2>1 DEF Opened
<1>3. CASE text # "blank"
  <2>1. wire' = wire \o <<piece>> /\ usage' = usage
    BY <1>3 DEF OnDelta, Sends
  <2> HIDE DEF piece
  <2>2. /\ wire' \in Seq(WireChunk) /\ Len(wire') = Len(wire) + 1
        /\ \A i \in 1 .. Len(wire) : wire'[i] = wire[i]
        /\ wire'[Len(wire) + 1] = piece
    BY <1>1, <2>1
  <2>3. /\ Len(wire) \in Nat /\ DOMAIN wire = 1 .. Len(wire)
        /\ DOMAIN wire' = 1 .. Len(wire) + 1
    BY <2>2
  <2>4. \A i \in DOMAIN wire' : i \in DOMAIN wire \/ wire'[i] = piece
    BY <2>2, <2>3
  <2>5. ASSUME Opened PROVE Opened'
    <3>1. wire' # <<>> /\ wire'[1].is = "role"
      BY <2>2, <2>3, <2>5 DEF Opened
    <3>2. \A i \in DOMAIN wire' : i > 1 => wire'[i].is = "text"
      BY <1>1, <2>2, <2>3, <2>4, <2>5 DEF Opened
    <3> QED
      BY <3>1, <3>2 DEF Opened
  <2>6. \A i \in DOMAIN wire : i \in DOMAIN wire' /\ wire'[i] = wire[i]
    BY <2>2, <2>3
  <2> QED
    BY <1>1, <1>3, <2>1, <2>2, <2>4, <2>5, <2>6
<1> QED
  BY <1>2, <1>3

-----------------------------------------------------------------------------
(* The parts of the invariant, one after the other.                        *)

Fixed == UNCHANGED <<streams, format, prompt, given, flags, nemotron, known>>

LEMMA AskedIsFixed ==
    ASSUME [PipelineNext]_pipelineVars, Typed
    PROVE  Fixed
<1>1. Ends => Fixed
  BY DEF Ends, Fail, asked, Fixed
<1>2. Malformed \/ Compiles \/ Redact \/ Attach => Fixed
  BY DEF Malformed, Compiles, Prepend, Redact, Attach, asked, Fixed
<1>3. Screens \/ Passes \/ Screened \/ Admit \/ Answered => Fixed
  BY DEF Screens, Passes, Screened, Admit, Answered, asked, Fixed
<1>4. (\E text \in Texts : Delta(text)) \/ Vet \/ Validates \/ Deliver \/ Close => Fixed
  BY DEF Delta, Vet, Validates, Deliver, Close, asked, Fixed
<1>5. UNCHANGED pipelineVars => Fixed
  BY DEF pipelineVars, asked, Fixed
<1> QED
  BY <1>1, <1>2, <1>3, <1>4, <1>5, StepKinds

(* A turn that fails is over, and its client is told.                      *)
LEMMA FailTells ==
    ASSUME Typed, Told, NEW error, Fail(error), pc # "over"
    PROVE  /\ pc' = "over" /\ scans' = {}
           /\ UNCHANGED <<streams, format, prompt, given, flags, nemotron, known>>
           /\ UNCHANGED <<messages, answer, usage>>
           /\ wire' \in Seq(WireChunk)
           /\ \A i \in DOMAIN wire' :
                 i \in DOMAIN wire \/ (wire'[i].is \in {"error", "done"} /\ wire'[i].text = "blank")
           /\ \A i \in DOMAIN wire : wire'[i] = wire[i]
           /\ streams =>
                status' = 0 /\ wire' # <<>> /\ wire'[Len(wire')].is = "done" /\ WireGrammar'
           /\ ~streams =>
                /\ status' \in {400, 401, 402, 429, 502, 503, 500}
                /\ wire' = wire /\ wire = <<>>
           /\ status' \in {401, 402, 429, 502} =>
                error \in {"unauthorized", "rate", "api", "budget"}
<1>1. wire \in Seq(WireChunk) /\ status = 0
  BY DEF Typed, PipelineTypeOK, WireChunk, Told
<1>2. /\ pc' = "over" /\ scans' = {}
      /\ UNCHANGED <<streams, format, prompt, given, flags, nemotron, known>>
      /\ UNCHANGED <<messages, answer>>
  BY DEF Fail, asked
<1>3. CASE streams
  <2>1. OnError /\ status' = status
    BY <1>3 DEF Fail
  <2>2. wire = <<>> \/ Opened
    BY <1>3 DEF Told, Typed, Placed, Places
  <2>3. usage' = usage
    BY <2>1 DEF OnError, Sends
  <2> QED
    BY <1>1, <1>2, <1>3, <2>1, <2>2, <2>3, ErrorEnds
<1>4. CASE ~streams
  <2>1. status' = Status(error) /\ wire' = wire /\ usage' = usage
    BY <1>4 DEF Fail, encoder
  <2>2. /\ Status(error) \in {400, 401, 402, 429, 502, 503, 500}
        /\ Status(error) \in {401, 402, 429, 502} =>
             error \in {"unauthorized", "rate", "api", "budget"}
    BY DEF Status
  <2>3. wire = <<>>
    BY <1>4 DEF Told
  <2> QED
    BY <1>1, <1>2, <1>4, <2>1, <2>2, <2>3
<1> QED
  BY <1>3, <1>4

LEMMA TypedStep ==
    ASSUME Typed, Told, [PipelineNext]_pipelineVars
    PROVE  Typed'
<1>1. Fixed
  BY AskedIsFixed
<1>2. Contents /\ Placed /\ <<>> \in Seq(Message)
  BY DEF Typed
<1>3. SUFFICES Contents' /\ Placed'
  <2>1. scans' # {} => pc' \in {"screening", "vetting"}
    BY <1>3 DEF Placed
  <2> QED
    BY <1>1, <1>3, <2>1 DEF Typed, PipelineTypeOK, Contents, WireChunk, Fixed
<1>4. CASE Ends
  <2>1. PICK error : /\ Fail(error) /\ pc # "over"
                     /\ UNCHANGED <<sent, billed, remembered>>
    BY <1>4 DEF Ends
  <2>2. /\ pc' = "over" /\ scans' = {} /\ UNCHANGED <<messages, answer, usage>>
        /\ wire' \in Seq(WireChunk)
    BY <2>1, FailTells
  <2>3. body' = body
    BY <2>1 DEF Fail
  <2>4. Contents'
    BY <1>2, <2>1, <2>2, <2>3 DEF Contents
  <2> QED
    BY <2>2, <2>4 DEF Placed, Places
<1>5. CASE Malformed
  <2>1. Contents'
    BY <1>2, <1>5 DEF Malformed, Contents, encoder, past
  <2>2. Placed'
    BY <1>1, <1>2, <1>5 DEF Malformed, Placed, Places, Before, Within, Go, Fixed
  <2> QED
    BY <2>1, <2>2
<1>6. CASE Compiles
  <2>1. PICK ms \in Seq(Message) : Prepend(ms) /\ ~(streams /\ format # "none")
    BY <1>6 DEF Compiles
  <2>2. messages' \in Seq(Message)
    BY <1>2, <2>1 DEF Prepend, Contents
  <2>3. Contents'
    BY <1>2, <1>6, <2>1, <2>2 DEF Compiles, Contents, Prepend, encoder, past
  <2>4. Placed'
    BY <1>1, <1>2, <1>6, <2>1, <2>2 DEF Compiles, Placed, Places, Before, Within, Go, Fixed, Prepend
  <2> QED
    BY <2>3, <2>4
<1>7. CASE Redact
  <2>1. messages' \in Seq(Message)
    BY <1>2, <1>7, RedactAllProperty DEF Redact, Contents
  <2>2. Contents'
    BY <1>2, <1>7, <2>1 DEF Redact, Contents, encoder, past
  <2>3. Placed'
    BY <1>1, <1>2, <1>7 DEF Redact, Placed, Places, Before, Within, Go, Fixed
  <2> QED
    BY <2>2, <2>3
<1>8. CASE Attach
  <2>1. messages' \in Seq(Message)
    BY <1>2, <1>8, WithMemoryProperty DEF Attach, Contents
  <2>2. Contents'
    BY <1>2, <1>8, <2>1 DEF Attach, Contents, encoder, past
  <2>3. Placed'
    BY <1>1, <1>2, <1>8 DEF Attach, Placed, Places, Before, Within, Go, Fixed
  <2> QED
    BY <2>2, <2>3
<1>9. CASE Screens
  <2>1. sent' \in [guard : Seq(Message), provider : Seq(Message)]
    BY <1>2, <1>9 DEF Screens, Contents
  <2>2. Contents'
    BY <1>2, <1>9, <2>1 DEF Screens, Contents, encoder
  <2>3. Placed'
    BY <1>1, <1>2, <1>9 DEF Screens, Placed, Places, Before, Within, Go, Fixed
  <2> QED
    BY <2>2, <2>3
<1>10. CASE Passes
  <2>1. Contents'
    BY <1>2, <1>10 DEF Passes, Contents, encoder
  <2>2. Placed'
    BY <1>1, <1>2, <1>10 DEF Passes, Placed, Places, Before, Within, Go, Fixed
  <2> QED
    BY <2>1, <2>2
<1>11. CASE Screened
  <2>1. Contents'
    BY <1>2, <1>11 DEF Screened, Contents, encoder, past
  <2>2. Placed'
    BY <1>1, <1>2, <1>11 DEF Screened, Placed, Places, Before, Within, Go, Fixed
  <2> QED
    BY <2>1, <2>2
<1>12. CASE Admit
  <2>1. sent' \in [guard : Seq(Message), provider : Seq(Message)]
    BY <1>2, <1>12 DEF Admit, Contents
  <2>2. wire \o <<Chunk("role")>> \in Seq(WireChunk)
    <3>1. <<Chunk("role")>> \in Seq(WireChunk)
      BY ChunkTyped
    <3> QED
      BY <1>2, <3>1 DEF Contents
  <2>3. wire' \in Seq(WireChunk) /\ usage' \in BOOLEAN
    BY <1>2, <1>12, <2>2 DEF Admit, OnStarted, Sends, encoder, Contents
  <2>4. Contents'
    BY <1>2, <1>12, <2>1, <2>2, <2>3 DEF Admit, Contents
  <2>5. Placed'
    BY <1>1, <1>2, <1>12 DEF Admit, Placed, Places, Before, Within, Go, Fixed
  <2> QED
    BY <2>4, <2>5
<1>13. ASSUME NEW text \in Texts, Delta(text)
      PROVE  Contents' /\ Placed'
  <2>1. wire' \in Seq(WireChunk) /\ usage' \in BOOLEAN
    BY <1>2, <1>13, DeltaKeeps DEF Delta, encoder, Contents
  <2>2. answer' \in Texts
    BY <1>13 DEF Delta, Joined, Texts
  <2>3. Contents'
    BY <1>2, <1>13, <2>1, <2>2 DEF Delta, Contents, past
  <2>4. Placed'
    BY <1>1, <1>2, <1>13 DEF Delta, Placed, Places, Before, Within, Go, Fixed
  <2> QED
    BY <2>3, <2>4
<1>14. CASE Answered
  <2>1. Contents'
    <3>1. body' \in Body
      BY <1>2, <1>14 DEF Answered, Written, Contents
    <3>2. /\ answer' \in Texts
          /\ UNCHANGED <<messages, sent, remembered, wire, usage>>
      BY <1>2, <1>14 DEF Answered, Contents, encoder
    <3> QED
      BY <1>2, <3>1, <3>2 DEF Contents
  <2>2. Placed'
    BY <1>1, <1>2, <1>14 DEF Answered, Placed, Places, Before, Within, Go, Fixed
  <2> QED
    BY <2>1, <2>2
<1>15. CASE Vet
  <2>1. answer' \in Texts
    BY <1>2, <1>15 DEF Vet, Final, Redacted, Contents, Texts
  <2>2. Contents'
    <3>1. body' \in Body
      BY <1>2, <1>15 DEF Vet, Written, Contents
    <3>2. UNCHANGED <<messages, sent, remembered, wire, usage>>
      BY <1>15 DEF Vet, encoder, past
    <3> QED
      BY <1>2, <2>1, <3>1, <3>2 DEF Contents
  <2>3. Placed'
    BY <1>1, <1>2, <1>15 DEF Vet, Placed, Places, Before, Within, Go, Fixed
  <2> QED
    BY <2>2, <2>3
<1>16. CASE Validates
  <2>1. Contents'
    BY <1>2, <1>16 DEF Validates, Contents, encoder, past
  <2>2. Placed'
    BY <1>1, <1>2, <1>16 DEF Validates, Placed, Places, Before, Within, Go, Fixed
  <2> QED
    BY <2>1, <2>2
<1>17. CASE Deliver
  <2>1. LatestUser(messages) \in Texts
    <3>1. \A i \in DOMAIN messages : messages[i].text \in Texts
      <4>1. \A i \in DOMAIN messages : messages[i] \in Message
        BY <1>2, ElementOfSeq DEF Contents
      <4> QED
        BY <4>1 DEF Message
    <3>2. "blank" \in Texts
      BY DEF Texts
    <3> QED
      BY <1>2, <3>1, <3>2, LatestUserText DEF Contents
  <2>2. remembered' \subseteq Texts
    BY <1>2, <1>17, <2>1 DEF Deliver, Remember, Contents
  <2>3. wire' \in Seq(WireChunk) /\ usage' \in BOOLEAN
    BY <1>2, <1>17, DeltaKeeps DEF Deliver, Respond, encoder, Contents
  <2>4. pc \in {"vetted", "valid"} /\ (pc = "vetted" => format = "none")
    BY <1>17 DEF Deliver, Ready
  <2>5. pc' = IF streams THEN "closing" ELSE "over"
    BY <1>17 DEF Deliver, Respond, Typed
  <2>6. Contents'
    BY <1>2, <1>17, <2>2, <2>3 DEF Deliver, Contents
  <2>7. scans' = {} /\ ~(streams /\ format # "none")
    BY <1>2, <1>17, <2>4 DEF Deliver, Placed
  <2>8. Placed'
    BY <1>1, <2>5, <2>7 DEF Placed, Places, Within, Before, Fixed
  <2> QED
    BY <2>6, <2>8
<1>18. CASE Close
  <2>1. wire' \in Seq(WireChunk) /\ usage' \in BOOLEAN
    <3>1. CASE Go("closing", "finishing") /\ OnUsage
      BY <1>2, <3>1 DEF OnUsage, Contents
    <3>2. CASE Go("finishing", "over") /\ OnFinished
      <4>1. Opened /\ usage
        BY <1>2, <3>2 DEF Told, Placed, Go
      <4>2. usage' = usage
        BY <3>2 DEF OnFinished, Sends
      <4> QED
        BY <1>2, <3>2, <4>1, <4>2, FinishEnds DEF Contents
    <3> QED
      BY <1>18, <3>1, <3>2 DEF Close
  <2>2. Contents'
    BY <1>2, <1>18, <2>1 DEF Close, Contents, past
  <2>3. Placed'
    BY <1>1, <1>2, <1>18 DEF Close, Placed, Places, Before, Within, Go, Fixed
  <2> QED
    BY <2>2, <2>3
<1>19. CASE UNCHANGED pipelineVars
  BY <1>2, <1>19 DEF pipelineVars, asked, encoder, past, Contents, Placed
<1> QED
  BY <1>4, <1>5, <1>6, <1>7, <1>8, <1>9, <1>10, <1>11, <1>12, <1>13, <1>14,
     <1>15, <1>16, <1>17, <1>18, <1>19, StepKinds

LEMMA ToldStep ==
    ASSUME Typed, Told, [PipelineNext]_pipelineVars
    PROVE  Told'
<1>1. Fixed
  BY AskedIsFixed
<1>2. wire \in Seq(WireChunk) /\ streams \in BOOLEAN
  BY DEF Typed, Contents
<1>3. CASE Ends
  <2>1. PICK error : Fail(error) /\ pc # "over"
    BY <1>3 DEF Ends
  <2>2. /\ pc' = "over" /\ UNCHANGED usage
        /\ streams =>
             status' = 0 /\ wire' # <<>> /\ wire'[Len(wire')].is = "done" /\ WireGrammar'
        /\ ~streams =>
             /\ status' \in {400, 401, 402, 429, 502, 503, 500}
             /\ wire' = wire /\ wire = <<>>
    BY <2>1, FailTells
  <2> QED
    BY <1>1, <1>2, <2>2 DEF Told, Fixed, Before, Within
<1>4. CASE Malformed
  <2>1. pc' = "over" /\ status' = 400 /\ wire' = <<>>
    BY <1>4 DEF Malformed, Status, Go, encoder, Told, Before
  <2> QED
    BY <1>1, <1>2, <2>1 DEF Told, Fixed, Before, Within
<1>5. CASE Compiles \/ Redact \/ Attach \/ Screens
  <2>1. /\ pc \in Before /\ pc' \in Before
        /\ UNCHANGED <<status, wire, usage>>
    BY <1>5 DEF Compiles, Prepend, Redact, Attach, Screens, Go, encoder, Before
  <2> QED
    BY <1>1, <1>2, <2>1 DEF Told, Fixed, Before, Within, Opened
<1>6. CASE Passes \/ UNCHANGED pipelineVars
  <2>1. UNCHANGED <<pc, status, wire, usage>>
    BY <1>6 DEF Passes, pipelineVars, encoder
  <2> QED
    BY <1>1, <2>1 DEF Told, Fixed, Opened, WireGrammar
<1>7. CASE Screened \/ Answered \/ Vet \/ Validates
  <2>1. /\ \/ pc \in Before /\ pc' \in Before
           \/ pc \in Within /\ pc' \in Within
        /\ UNCHANGED <<status, wire, usage>>
    BY <1>7 DEF Screened, Answered, Vet, Validates, Go, encoder, Before, Within
  <2> QED
    BY <1>1, <1>2, <2>1 DEF Told, Fixed, Before, Within, Opened
<1>8. CASE Admit
  <2>1. pc \in Before /\ pc' = "calling" /\ status' = 0 /\ usage' = usage /\ ~usage
    BY <1>8 DEF Admit, Go, Told, Before, OnStarted, Sends, encoder
  <2>2. wire' = IF streams THEN <<Chunk("role")>> ELSE <<>>
    BY <1>8, <2>1 DEF Admit, OnStarted, Sends, encoder, Told
  <2>3. streams => Opened'
    BY <2>2 DEF Opened, Chunk
  <2> QED
    BY <1>1, <1>2, <2>1, <2>2, <2>3 DEF Told, Fixed, Before, Within
<1>9. ASSUME NEW text \in Texts, Delta(text)
      PROVE  Told'
  <2>1. pc = "calling" /\ pc' = pc /\ status' = status /\ streams /\ Opened
    BY <1>9 DEF Delta, Told, Within
  <2>2. Opened' /\ usage' = usage
    <3>1. CASE Buffered
      BY <1>9, <2>1, <3>1 DEF Delta, encoder, Opened
    <3>2. CASE ~Buffered
      BY <1>2, <1>9, <2>1, <3>2, DeltaKeeps DEF Delta
    <3> QED
      BY <3>1, <3>2
  <2> QED
    BY <1>1, <1>2, <2>1, <2>2 DEF Told, Fixed, Before, Within
<1>10. CASE Deliver
  <2>1. pc \in {"vetted", "valid"} /\ status = 0 /\ ~usage
    BY <1>10 DEF Deliver, Ready, Told, Within
  <2>2. CASE streams
    <3>1. pc' = "closing" /\ status' = 0 /\ Opened
      BY <1>10, <2>1, <2>2 DEF Deliver, Told, Within
    <3>2. Opened' /\ usage' = usage
      <4>1. CASE Buffered
        BY <1>2, <1>10, <2>2, <3>1, <4>1, DeltaKeeps DEF Deliver, Typed, Contents
      <4>2. CASE ~Buffered
        BY <1>10, <2>2, <3>1, <4>2 DEF Deliver, encoder, Opened
      <4> QED
        BY <4>1, <4>2
    <3> QED
      BY <1>1, <1>2, <2>1, <2>2, <3>1, <3>2 DEF Told, Fixed, Before, Within
  <2>3. CASE ~streams
    <3>1. pc' = "over" /\ status' = 200 /\ wire' = <<>>
      BY <1>10, <2>3 DEF Deliver, Respond, encoder, Told
    <3> QED
      BY <1>1, <1>2, <2>3, <3>1 DEF Told, Fixed, Before, Within
  <2> QED
    BY <2>2, <2>3
<1>11. CASE Close
  <2>1. streams /\ status = 0 /\ status' = 0
    BY <1>11 DEF Close, Go, Typed, Placed, Told
  <2>2. CASE Go("closing", "finishing") /\ OnUsage
    <3>1. pc' = "finishing" /\ usage' /\ wire' = wire /\ Opened
      BY <2>1, <2>2 DEF Go, OnUsage, Told, Within
    <3> QED
      BY <1>1, <1>2, <2>1, <3>1 DEF Told, Fixed, Before, Within, Opened
  <2>3. CASE Go("finishing", "over") /\ OnFinished
    <3>1. Opened /\ usage /\ pc' = "over"
      BY <2>1, <2>3 DEF Go, Told
    <3>2. wire' # <<>> /\ wire'[Len(wire')].is = "done" /\ WireGrammar'
      BY <1>2, <2>3, <3>1, FinishEnds
    <3> QED
      BY <1>1, <1>2, <2>1, <3>1, <3>2 DEF Told, Fixed, Before, Within
  <2> QED
    BY <1>11, <2>2, <2>3 DEF Close
<1> QED
  BY <1>3, <1>4, <1>5, <1>6, <1>7, <1>8, <1>9, <1>10, <1>11, StepKinds

LEMMA ChargedStep ==
    ASSUME Typed, Told, ChargedLate, [PipelineNext]_pipelineVars
    PROVE  ChargedLate'
<1>1. CASE Ends
  <2>1. PICK error : /\ Fail(error) /\ pc # "over" /\ billed' = billed
                     /\ error \in {"unauthorized", "rate", "api", "budget"}
                          => pc \in {"passed", "calling"}
    BY <1>1 DEF Ends
  <2>2. /\ pc' = "over" /\ (streams => status' = 0)
        /\ status' \in {401, 402, 429, 502} =>
             error \in {"unauthorized", "rate", "api", "budget"}
    BY <2>1, FailTells
  <2> QED
    BY <2>1, <2>2 DEF ChargedLate, CheapRefusals, Before
<1>2. CASE Malformed
  BY <1>2 DEF Malformed, Go, Status, ChargedLate, CheapRefusals, Before, past
<1>3. CASE Compiles \/ Redact \/ Attach \/ Screens \/ Admit
  <2>1. pc \in Before /\ pc' \in Before \cup {"calling"} /\ UNCHANGED <<status, billed>>
    BY <1>3 DEF Compiles, Prepend, Redact, Attach, Screens, Admit, Go, Before, past
  <2> QED
    BY <2>1 DEF ChargedLate, CheapRefusals
<1>4. CASE Passes \/ UNCHANGED pipelineVars \/ (\E text \in Texts : Delta(text))
  <2>1. UNCHANGED <<pc, status, billed>>
    BY <1>4 DEF Passes, pipelineVars, Delta, past
  <2> QED
    BY <2>1 DEF ChargedLate, CheapRefusals
<1>5. CASE Screened \/ Vet \/ Validates \/ Close
  <2>1. pc' \in Before => pc \in Before
    BY <1>5 DEF Screened, Vet, Validates, Close, Go, Before
  <2>2. pc' # "calling" /\ UNCHANGED <<status, billed>>
    BY <1>5 DEF Screened, Vet, Validates, Close, Go, past
  <2> QED
    BY <2>1, <2>2 DEF ChargedLate, CheapRefusals
<1>6. CASE Answered
  <2>1. pc = "calling" /\ pc' = "billed" /\ status' = status
    BY <1>6 DEF Answered, Go
  <2> QED
    BY <2>1 DEF ChargedLate, CheapRefusals, Told, Before
<1>7. CASE Deliver
  <2>1. pc' \in {"closing", "over"} /\ status' \in {status, 200} /\ billed' = billed
    BY <1>7 DEF Deliver, Respond
  <2> QED
    BY <2>1 DEF ChargedLate, CheapRefusals, Before
<1> QED
  BY <1>1, <1>2, <1>3, <1>4, <1>5, <1>6, <1>7, StepKinds

LEMMA CheckedStep ==
    ASSUME Typed, Told, HeldBack, CheckedLast, [PipelineNext]_pipelineVars
    PROVE  CheckedLast'
<1> DEFINE Fits == Accepted(Parsed(body))
<1>1. Fixed
  BY AskedIsFixed
<1>2. body' = body => Fits' = Fits
  BY <1>1 DEF Accepted, Parsed, Fixed
<1>3. pc # "over" /\ format # "none" => status = 0 /\ remembered = {}
  BY DEF Typed, Placed, Places, Told, HeldBack
<1> USE DEF CheckedLast, Fixed
<1> HIDE DEF Fits
<1>4. CASE Ends
  <2>1. PICK error : Fail(error) /\ pc # "over" /\ remembered' = remembered
    BY <1>4 DEF Ends
  <2>2. pc' = "over" /\ status' # 200
    BY <2>1, FailTells DEF Typed
  <2> QED
    BY <1>1, <1>3, <2>1, <2>2
<1>5. CASE Malformed
  <2>1. pc # "over" /\ pc' = "over" /\ status' = 400 /\ remembered' = remembered
    BY <1>5 DEF Malformed, Go, Status, past
  <2> QED
    BY <1>1, <1>3, <2>1
<1>6. CASE \/ Compiles \/ Redact \/ Attach \/ Screens \/ Screened \/ Admit
           \/ (\E text \in Texts : Delta(text)) \/ Answered \/ Vet
  <2>1. pc # "over" /\ pc' # "valid" /\ status' = status
    BY <1>6 DEF Compiles, Prepend, Redact, Attach, Screens, Screened, Admit,
                 Delta, Answered, Vet, Go
  <2>2. remembered' = remembered
    BY <1>6 DEF Compiles, Prepend, Redact, Attach, Screens, Screened, Admit,
                 Delta, Answered, Vet, past
  <2> QED
    BY <1>1, <1>3, <2>1, <2>2
<1>7. CASE Passes \/ Close \/ UNCHANGED pipelineVars
  <2>1. UNCHANGED <<status, body, remembered>> /\ (pc' = "valid" => pc = "valid")
    BY <1>7 DEF Passes, Close, Go, pipelineVars, past
  <2> QED
    BY <1>1, <1>2, <2>1 DEF Fits
<1>8. CASE Validates
  <2>1. Fits /\ UNCHANGED <<status, body, remembered>>
    BY <1>8 DEF Validates, past, Fits
  <2> QED
    BY <1>2, <2>1 DEF Fits
<1>9. CASE Deliver
  <2>1. pc' # "valid" /\ body' = body /\ (format # "none" => pc = "valid")
    BY <1>9 DEF Deliver, Respond, Ready
  <2> QED
    BY <1>1, <1>2, <2>1 DEF Fits
<1> QED
  BY <1>4, <1>5, <1>6, <1>7, <1>8, <1>9, StepKinds

LEMMA ScreenedStep ==
    ASSUME Typed, ScreenedLast, [PipelineNext]_pipelineVars
    PROVE  ScreenedLast'
<1>1. Fixed
  BY AskedIsFixed
<1>2. CASE Ends \/ Malformed
  <2>1. pc' = "over" /\ sent' = sent
    BY <1>2 DEF Ends, Fail, Malformed, Go, past
  <2> QED
    BY <1>1, <2>1 DEF ScreenedLast, ScreenedIsSent, Fixed, Before
<1>3. CASE Compiles \/ Redact \/ Attach
  <2>1. pc \in Before /\ pc' \in {"compiled", "redacted", "ready"} /\ sent' = sent
    BY <1>3 DEF Compiles, Prepend, Redact, Attach, Go, past, Before
  <2> QED
    BY <1>1, <2>1 DEF ScreenedLast, ScreenedIsSent, Fixed, Before
<1>4. CASE Screens
  <2>1. /\ pc = "ready" /\ pc' = "screening" /\ messages' = messages
        /\ sent' = [sent EXCEPT !.guard = IF flags.guard THEN messages ELSE <<>>]
    BY <1>4 DEF Screens, Go
  <2>2. sent'.provider = sent.provider /\ (flags.guard => sent'.guard = messages)
    BY <2>1 DEF Typed, Contents
  <2> QED
    BY <1>1, <2>1, <2>2 DEF ScreenedLast, ScreenedIsSent, Fixed, Before
<1>5. CASE Admit
  <2>1. /\ pc = "passed" /\ pc' = "calling" /\ messages' = messages
        /\ sent' = [sent EXCEPT !.provider = messages]
    BY <1>5 DEF Admit, Go
  <2>2. sent'.guard = sent.guard /\ sent'.provider = messages
    BY <2>1 DEF Typed, Contents
  <2> QED
    BY <1>1, <2>1, <2>2 DEF ScreenedLast, ScreenedIsSent, Fixed, Before
<1>6. CASE \/ Passes \/ Screened \/ (\E text \in Texts : Delta(text)) \/ Answered
           \/ Vet \/ Validates \/ Deliver \/ Close \/ UNCHANGED pipelineVars
  <2>1. UNCHANGED <<sent, messages>>
    BY <1>6 DEF Passes, Screened, Delta, Answered, Vet, Validates, Deliver, Close,
                 past, pipelineVars
  <2>2. /\ pc' \in Before => pc \in Before
        /\ pc' \in {"screening", "passed"} => pc \in {"screening", "passed"}
    BY <1>6 DEF Passes, Screened, Delta, Answered, Vet, Validates, Deliver, Respond, Close,
                 Go, Before, pipelineVars
  <2> QED
    BY <1>1, <2>1, <2>2 DEF ScreenedLast, ScreenedIsSent, Fixed
<1> QED
  BY <1>2, <1>3, <1>4, <1>5, <1>6, StepKinds

(* The verdict passes what its answer plainly calls harmless, and nothing  *)
(* else: for every answer, scanner and kind of model.                      *)
LEMMA VerdictSound ==
    ASSUME NEW scan \in {Scan("injection", chunk) : chunk \in {"first", "second"}}
                           \cup {Scan("content", role) : role \in Roles},
           NEW a \in Answers, VerdictOf(scan, a, nemotron) = "passed"
    PROVE  Harmless(scan, a)
<1>1. /\ a.user \in Labels /\ a.response \in Labels /\ a.head \in Words
      /\ a.categories \subseteq Categories
  BY GuardAssumption
<1>2. CASE scan \in {Scan("injection", chunk) : chunk \in {"first", "second"}}
  <2>1. scan.scanner = "injection" /\ scan.part # "assistant"
    BY <1>2 DEF Scan
  <2>2. InjectionVerdict(a, nemotron) = "passed"
    BY <2>1 DEF VerdictOf
  <2>3. IF nemotron \/ Labelled(a) THEN SafetyLabel(a, "user") = "safe" ELSE a.head = "safe"
    BY <2>2 DEF InjectionVerdict, Read
  <2>4. SafetyLabel(a, "user") = IF a.user # "none" THEN a.user ELSE a.response
    BY DEF SafetyLabel
  <2> QED
    BY <1>1, <2>1, <2>3, <2>4 DEF Harmless, Labelled
<1>3. ASSUME NEW role \in Roles, scan = Scan("content", role)
      PROVE  Harmless(scan, a)
  <2> DEFINE as   == IF role = "assistant" THEN "assistant" ELSE "user"
             word == IF Labelled(a) THEN SafetyLabel(a, as) ELSE a.head
  <2>1. scan.scanner = "content" /\ scan.part = role
    BY <1>3 DEF Scan
  <2>2. ContentVerdict(a, as) = "passed"
    BY <2>1 DEF VerdictOf
  <2>3. SafetyLabel(a, as) =
          IF role = "assistant"
          THEN IF a.response # "none" THEN a.response ELSE a.user
          ELSE IF a.user # "none" THEN a.user ELSE a.response
    BY DEF SafetyLabel
  <2>4. word = "safe" \/ (word = "unsafe" /\ a.categories # {} /\ a.categories \subseteq Ignored)
    BY <2>2 DEF ContentVerdict, Read
  <2>5. a.categories # {} /\ a.categories \subseteq Ignored
          => a.categories \cap Ignored # {} /\ a.categories \ Ignored = {}
    OBVIOUS
  <2> QED
    BY <1>1, <2>1, <2>3, <2>4, <2>5 DEF Harmless, Labelled
<1> QED
  BY <1>2, <1>3

LEMMA HeldBackStep ==
    ASSUME Typed, Told, HeldBack, [PipelineNext]_pipelineVars
    PROVE  HeldBack'
<1> DEFINE Scans == {Scan("injection", chunk) : chunk \in {"first", "second"}}
                      \cup {Scan("content", role) : role \in Roles}
<1>1. Fixed
  BY AskedIsFixed
<1>2. /\ scans \subseteq Scans /\ FailClosed /\ wire \in Seq(WireChunk)
      /\ pc # "over" => ~alarm
  BY DEF HeldBack, FailClosed, Typed, Contents
<1>3. CASE Ends
  <2>1. PICK error : /\ Fail(error) /\ pc # "over" /\ remembered' = remembered
                     /\ alarm' # alarm => scans # {}
    BY <1>3 DEF Ends
  <2>2. /\ pc' = "over" /\ scans' = {} /\ status' # 200
        /\ \A i \in DOMAIN wire' :
              i \in DOMAIN wire \/ (wire'[i].is \in {"error", "done"} /\ wire'[i].text = "blank")
        /\ \A i \in DOMAIN wire : wire'[i] = wire[i]
    BY <2>1, FailTells DEF Typed
  <2>3. ASSUME alarm' PROVE FailClosed'
    <3>1. scans # {} /\ pc \in {"screening", "vetting"}
      BY <1>2, <2>1, <2>3 DEF Typed, Placed
    <3>2. remembered = {} /\ (pc = "vetting" => ContentOn(flags))
      BY <3>1 DEF HeldBack, Before, Within
    <3>3. \A i \in DOMAIN wire : wire[i].is = "role"
      <4>1. CASE wire = <<>>
        BY <4>1
      <4>2. CASE wire # <<>>
        <5>1. pc = "vetting" /\ streams
          BY <3>1, <4>2 DEF Told, Before
        <5>2. Len(wire) <= 1 /\ Opened
          BY <3>2, <5>1 DEF HeldBack, Within, Buffered, Told
        <5> QED
          BY <1>2, <5>2 DEF Opened
      <4> QED
        BY <4>1, <4>2
    <3>4. \A i \in DOMAIN wire' : wire'[i].is \notin {"finish", "text"}
      BY <2>2, <3>3
    <3>5. \A chunk \in ToSet(wire') : chunk.is \notin {"finish", "text"}
      BY <3>4 DEF ToSet
    <3> QED
      BY <2>1, <2>2, <3>2, <3>5 DEF FailClosed
  <2>4. FailClosed'
    BY <2>3 DEF FailClosed
  <2> QED
    BY <2>2, <2>4 DEF HeldBack, Before, Within
<1>4. CASE Passes
  <2>1. PICK scan \in scans, a \in Answers :
          /\ VerdictOf(scan, a, nemotron) = "passed"
          /\ alarm' = (alarm \/ ~Harmless(scan, a))
          /\ scans' = scans \ {scan}
          /\ UNCHANGED <<asked, pc, messages, answer, body, status, encoder>>
          /\ UNCHANGED <<sent, billed, remembered>>
    BY <1>4 DEF Passes
  <2>2. Harmless(scan, a)
    BY <1>2, <2>1, VerdictSound
  <2>3. pc # "over"
    BY <2>1 DEF Typed, Placed
  <2>4. FailClosed'
    BY <1>2, <2>1, <2>2, <2>3 DEF FailClosed
  <2>5. UNCHANGED <<pc, wire, remembered>> /\ scans' \subseteq scans
    BY <2>1 DEF encoder
  <2> QED
    BY <1>1, <2>4, <2>5 DEF HeldBack, Fixed, ContentOn, Buffered
<1>5. CASE UNCHANGED pipelineVars
  <2>1. UNCHANGED <<pc, wire, remembered, scans, status, alarm>>
    BY <1>5 DEF pipelineVars, encoder, past
  <2> QED
    BY <1>1, <2>1 DEF HeldBack, Fixed, ContentOn, Buffered, FailClosed
<1>6. CASE \/ Malformed \/ Compiles \/ Redact \/ Attach \/ Screens \/ Screened \/ Admit
           \/ (\E text \in Texts : Delta(text)) \/ Answered \/ Vet
           \/ Validates \/ Deliver \/ Close
  <2>1. pc # "over" /\ alarm' = alarm
    BY <1>6 DEF Malformed, Compiles, Prepend, Redact, Attach, Screens, Screened, Admit,
                 Delta, Answered, Vet, Validates, Deliver, Ready, Close, Go, past
  <2>2. FailClosed'
    BY <1>2, <2>1 DEF FailClosed
  <2>3. /\ scans' \subseteq Scans
        /\ pc' = "vetting" /\ scans' # {} => ContentOn(flags)
    <3>1. CASE Screens
      BY <3>1 DEF Screens, Go, Inbound, Roles
    <3>2. CASE Vet
      BY <3>2 DEF Vet, Outbound, Roles
    <3>3. CASE ~Screens /\ ~Vet
      <4>1. scans' = scans /\ (pc' = "vetting" => pc = "vetting")
        BY <1>6, <3>3 DEF Malformed, Compiles, Prepend, Redact, Attach, Screened, Admit,
                     Delta, Answered, Validates, Deliver, Respond, Close, Go, past
      <4> QED
        BY <1>2, <4>1 DEF HeldBack
    <3> QED
      BY <3>1, <3>2, <3>3
  <2>4. pc' \in Before \cup (Within \ {"closing"}) => remembered' = {}
    <3>1. CASE Deliver
      BY <3>1 DEF Deliver, Respond, Before, Within
    <3>2. CASE ~Deliver
      <4>1. /\ remembered' = remembered
            /\ pc' \in Before \cup (Within \ {"closing"})
                 => pc \in Before \cup (Within \ {"closing"})
        BY <1>6, <3>2 DEF Malformed, Compiles, Prepend, Redact, Attach, Screens, Screened,
               Admit, Delta, Answered, Vet, Validates, Close, Go, past, Before, Within
      <4> QED
        BY <4>1 DEF HeldBack
    <3> QED
      BY <3>1, <3>2
  <2>5. pc' \in Within \ {"closing"} /\ Buffered => Len(wire') <= 1
    <3>1. CASE Admit
      <4>1. wire = <<>>
        BY <3>1 DEF Admit, Go, Told, Before
      <4>2. CASE streams
        <5>1. wire' = <<Chunk("role")>>
          BY <3>1, <4>1, <4>2 DEF Admit, OnStarted, Sends
        <5>2. Len(wire') = 1
          BY <5>1
        <5> QED
          BY <5>2
      <4>3. CASE ~streams
        <5>1. Len(wire') = 0
          BY <3>1, <4>1, <4>3 DEF Admit, encoder
        <5> QED
          BY <5>1
      <4> QED
        BY <4>2, <4>3
    <3>2. CASE \/ Malformed \/ Compiles \/ Redact \/ Attach \/ Screens \/ Deliver \/ Close
      BY <3>2 DEF Malformed, Compiles, Prepend, Redact, Attach, Screens, Deliver, Respond,
                   Close, Go, Within
    <3>3. CASE \E text \in Texts : Delta(text)
      BY <3>3 DEF Delta, HeldBack, Within, encoder
    <3>4. CASE Screened \/ Answered \/ Vet \/ Validates
      <4>1. wire' = wire
        BY <3>4 DEF Screened, Answered, Vet, Validates, encoder
      <4>2. pc' \in Within => pc \in Within \ {"closing"}
        BY <3>4 DEF Screened, Answered, Vet, Validates, Go, Within
      <4> QED
        BY <4>1, <4>2 DEF HeldBack
    <3> QED
      BY <1>6, <3>1, <3>2, <3>3, <3>4
  <2> QED
    BY <1>1, <2>2, <2>3, <2>4, <2>5 DEF HeldBack, Fixed, ContentOn, Buffered
<1> QED
  BY <1>3, <1>4, <1>5, <1>6, StepKinds

LEMMA CleanStep ==
    ASSUME Typed, Told, Clean, [PipelineNext]_pipelineVars
    PROVE  Clean'
<1>1. Fixed
  BY AskedIsFixed
<1>2. SUFFICES ASSUME flags.pii PROVE Clean'
  BY <1>1 DEF Clean, Fixed
<1>3. /\ messages \in Seq(Message) /\ wire \in Seq(WireChunk) /\ answer \in Texts
      /\ sent \in [guard : Seq(Message), provider : Seq(Message)]
  BY DEF Typed, Contents
<1>4. /\ NoneRaw(sent.guard) /\ NoneRaw(sent.provider) /\ NoneRaw(wire)
      /\ "raw" \notin remembered
      /\ status = 200 => answer # "raw"
  BY <1>2 DEF Clean
<1>5. CASE Ends
  <2>1. PICK error : /\ Fail(error) /\ pc # "over"
                     /\ UNCHANGED <<sent, billed, remembered>>
    BY <1>5 DEF Ends
  <2>2. /\ pc' = "over" /\ status' # 200
        /\ \A i \in DOMAIN wire' : i \in DOMAIN wire \/ wire'[i].text = "blank"
        /\ \A i \in DOMAIN wire : wire'[i] = wire[i]
    BY <2>1, FailTells DEF Typed
  <2>3. NoneRaw(wire)'
    BY <1>4, <2>2 DEF NoneRaw
  <2> QED
    BY <1>4, <2>1, <2>2, <2>3 DEF Clean, NoneRaw
<1>6. CASE Malformed \/ Compiles
  <2>1. /\ pc' \in {"over", "compiled"} /\ status' # 200
        /\ UNCHANGED <<sent, wire, remembered>>
    BY <1>6 DEF Malformed, Compiles, Prepend, Go, past, encoder, Status, Told
  <2> QED
    BY <1>4, <2>1 DEF Clean, NoneRaw
<1>7. CASE Redact \/ Attach
  <2>1. /\ pc' \in {"redacted", "ready"} /\ status' = 0
        /\ UNCHANGED <<sent, wire, remembered>>
    BY <1>7 DEF Redact, Attach, Go, past, encoder, Told
  <2>2. NoneRaw(messages')
    <3>1. CASE Redact
      <4>1. messages' = RedactAll(messages)
        BY <1>2, <3>1 DEF Redact
      <4>2. DOMAIN RedactAll(messages) = DOMAIN messages
        BY DEF RedactAll
      <4> QED
        BY <1>3, <4>1, <4>2, RedactAllProperty DEF NoneRaw
    <3>2. CASE Attach
      <4>1. NoneRaw(messages)
        BY <1>2, <3>2 DEF Attach, Go, Clean, Places, Before
      <4>2. CASE messages' = messages
        BY <4>1, <4>2
      <4>3. ASSUME NEW text \in {"clean", "raw"}, messages' = WithMemory(messages, text)
            PROVE  NoneRaw(messages')
        BY <1>2, <1>3, <4>1, <4>3, WithMemoryProperty DEF NoneRaw
      <4> QED
        BY <3>2, <4>2, <4>3 DEF Attach
    <3> QED
      BY <1>7, <3>1, <3>2
  <2> QED
    BY <1>4, <2>1, <2>2 DEF Clean, NoneRaw
<1>8. CASE Screens \/ Admit
  <2>1. NoneRaw(messages) /\ messages' = messages
    BY <1>2, <1>8 DEF Screens, Admit, Go, Clean, Places, Before
  <2>2. NoneRaw(sent'.guard) /\ NoneRaw(sent'.provider)
    <3>1. CASE Screens
      <4>1. /\ sent'.provider = sent.provider
            /\ sent'.guard = IF flags.guard THEN messages ELSE <<>>
        BY <1>3, <3>1 DEF Screens
      <4>2. NoneRaw(<<>>)
        BY DEF NoneRaw
      <4> QED
        BY <1>4, <2>1, <4>1, <4>2
    <3>2. CASE Admit
      <4>1. sent'.guard = sent.guard /\ sent'.provider = messages
        BY <1>3, <3>2 DEF Admit
      <4> QED
        BY <1>4, <2>1, <4>1
    <3> QED
      BY <1>8, <3>1, <3>2
  <2>3. NoneRaw(wire')
    <3>1. wire' = wire \/ (wire = <<>> /\ wire' = <<Chunk("role")>>)
      BY <1>8 DEF Screens, Admit, Go, encoder, OnStarted, Sends, Told, Before
    <3>2. NoneRaw(<<Chunk("role")>>)
      BY DEF NoneRaw, Chunk
    <3> QED
      BY <1>4, <3>1, <3>2
  <2>4. pc' \in {"screening", "calling"} /\ status' = 0 /\ UNCHANGED remembered
    BY <1>8 DEF Screens, Admit, Go, Told
  <2> QED
    BY <1>4, <2>1, <2>2, <2>3, <2>4 DEF Clean, NoneRaw
<1>9. CASE Passes \/ UNCHANGED pipelineVars
  <2>1. UNCHANGED <<pc, messages, answer, status, wire, sent, remembered>>
    BY <1>9 DEF Passes, pipelineVars, past, encoder
  <2> QED
    BY <1>1, <2>1 DEF Clean, NoneRaw, Fixed
<1>10. CASE Screened \/ Validates
  <2>1. /\ pc \in Places \ {"arrived", "compiled", "over"} /\ status' = 0
        /\ pc' \in {"vetting", "vetted", "valid", "closing", "finishing"}
             => pc \in {"vetting", "vetted", "valid", "closing", "finishing"}
        /\ UNCHANGED <<messages, answer, wire, sent, remembered>>
    BY <1>10 DEF Screened, Validates, Go, past, encoder, Places, Before, Within, Told
  <2> QED
    BY <1>2, <1>4, <2>1 DEF Clean, NoneRaw
<1>11. CASE Answered \/ \E text \in Texts : Delta(text)
  <2>1. pc = "calling" /\ pc' \in {"calling", "billed"} /\ status' = 0
    BY <1>11 DEF Answered, Delta, Go, Told
  <2>2. UNCHANGED <<messages, wire, sent, remembered>>
    BY <1>2, <1>11 DEF Answered, Delta, Buffered, encoder, past
  <2>3. NoneRaw(messages)
    BY <1>2, <2>1 DEF Clean, Places, Within
  <2> QED
    BY <1>4, <2>1, <2>2, <2>3 DEF Clean, NoneRaw
<1>12. CASE Vet
  <2>1. answer' # "raw"
    BY <1>2, <1>12 DEF Vet, Final, Redacted
  <2>2. NoneRaw(messages)
    BY <1>2, <1>12 DEF Vet, Go, Clean, Places, Within
  <2>3. UNCHANGED <<messages, wire, sent, remembered>>
    BY <1>12 DEF Vet, encoder, past
  <2> QED
    BY <1>4, <2>1, <2>2, <2>3 DEF Clean, NoneRaw
<1>13. CASE Deliver
  <2>1. pc \in {"vetted", "valid"}
    BY <1>13 DEF Deliver, Ready
  <2>2. NoneRaw(messages) /\ answer # "raw"
    BY <1>2, <2>1 DEF Clean, Places, Within
  <2>3. "raw" \notin remembered'
    <3>1. LatestUser(messages) # "raw"
      BY <1>3, <2>2, LatestUserText DEF NoneRaw
    <3> QED
      BY <1>13, <2>2, <3>1 DEF Deliver, Remember
  <2>4. NoneRaw(wire')
    <3>1. wire' = wire \/ OnDelta(answer)
      BY <1>13 DEF Deliver, Respond, encoder
    <3>2. ASSUME OnDelta(answer) PROVE NoneRaw(wire')
      BY <1>3, <1>4, <2>2, <3>2, DeltaKeeps DEF NoneRaw
    <3> QED
      BY <1>4, <3>1, <3>2
  <2>5. UNCHANGED <<messages, answer, sent>>
    BY <1>13 DEF Deliver
  <2> QED
    BY <1>4, <2>2, <2>3, <2>4, <2>5 DEF Clean, NoneRaw
<1>14. CASE Close
  <2>1. pc \in {"closing", "finishing"}
    BY <1>14 DEF Close, Go
  <2>2. NoneRaw(messages) /\ answer # "raw"
    BY <1>2, <2>1 DEF Clean, Places, Within
  <2>3. NoneRaw(wire')
    <3>1. CASE Go("closing", "finishing") /\ OnUsage
      BY <1>4, <3>1 DEF OnUsage
    <3>2. CASE Go("finishing", "over") /\ OnFinished
      <4>1. Opened /\ usage
        BY <3>2 DEF Told, Typed, Placed, Go
      <4> QED
        BY <1>3, <1>4, <3>2, <4>1, FinishEnds DEF NoneRaw
    <3> QED
      BY <1>14, <3>1, <3>2 DEF Close
  <2>4. UNCHANGED <<messages, answer, sent, remembered>>
    BY <1>14 DEF Close, past
  <2> QED
    BY <1>4, <2>2, <2>3, <2>4 DEF Clean, NoneRaw
<1> QED
  BY <1>5, <1>6, <1>7, <1>8, <1>9, <1>10, <1>11, <1>12, <1>13, <1>14, StepKinds

LEMMA NoneRawConcat ==
    ASSUME NEW ms \in Seq(Message), NEW ns \in Seq(Message), NoneRaw(ms), NoneRaw(ns)
    PROVE  NoneRaw(ms \o ns)
<1> DEFINE both == ms \o ns
<1>1. /\ DOMAIN both = 1 .. Len(ms) + Len(ns)
      /\ Len(ms) \in Nat /\ Len(ns) \in Nat
      /\ \A i \in 1 .. Len(ms) : both[i] = ms[i]
      /\ \A i \in 1 .. Len(ns) : both[Len(ms) + i] = ns[i]
  BY Appended
<1>2. DOMAIN ms = 1 .. Len(ms) /\ DOMAIN ns = 1 .. Len(ns)
  OBVIOUS
<1> HIDE DEF both
<1>3. \A i \in DOMAIN both : both[i].text # "raw"
  <2> TAKE i \in DOMAIN both
  <2>1. CASE i \in 1 .. Len(ms)
    BY <1>1, <1>2, <2>1 DEF NoneRaw
  <2>2. CASE i \notin 1 .. Len(ms)
    <3>1. PICK k \in 1 .. Len(ns) : i = Len(ms) + k
      <4>1. i - Len(ms) \in 1 .. Len(ns) /\ i = Len(ms) + (i - Len(ms))
        BY <1>1, <2>2
      <4> QED
        BY <4>1
    <3> QED
      BY <1>1, <1>2, <3>1 DEF NoneRaw
  <2> QED
    BY <2>1, <2>2
<1> QED
  BY <1>3 DEF NoneRaw, both

LEMMA CleanIsNothingRaw ==
    ASSUME Typed, Clean
    PROVE  NothingRaw
<1>1. SUFFICES ASSUME flags.pii
               PROVE  \A m \in ToSet(sent.guard \o sent.provider) \cup ToSet(wire) :
                         m.text # "raw"
  BY DEF Clean, NothingRaw
<1>2. NoneRaw(sent.guard) /\ NoneRaw(sent.provider) /\ NoneRaw(wire)
  BY <1>1 DEF Clean
<1>3. sent.guard \in Seq(Message) /\ sent.provider \in Seq(Message)
  BY DEF Typed, Contents
<1>4. NoneRaw(sent.guard \o sent.provider)
  BY <1>2, <1>3, NoneRawConcat
<1> QED
  BY <1>2, <1>4 DEF ToSet, NoneRaw

LEMMA ToldIsToldOnce ==
    ASSUME Typed, Told
    PROVE  ToldOnce
<1>1. wire \in Seq(WireChunk)
  BY DEF Typed, Contents
<1>2. CASE wire = <<>>
  <2>1. WireGrammar /\ ToSet(wire) = {}
    BY <1>2 DEF WireGrammar, ToSet
  <2>2. pc = "over" <=> status # 0
    BY <1>2 DEF Told
  <2> QED
    BY <1>2, <2>1, <2>2 DEF ToldOnce, Typed
<1>3. CASE wire # <<>> /\ pc = "over"
  <2>1. status = 0 /\ WireGrammar /\ wire[Len(wire)].is = "done"
    BY <1>3 DEF Told
  <2>2. Len(wire) \in DOMAIN wire
    BY <1>1, <1>3
  <2> QED
    BY <1>3, <2>1, <2>2 DEF ToldOnce, Typed, ToSet
<1>4. CASE wire # <<>> /\ pc # "over"
  <2>1. Opened /\ status = 0
    BY <1>4 DEF Told, Typed, Placed, Places
  <2>2. \A i \in DOMAIN wire : wire[i].is \in {"role", "text"} /\ (i > 1 => wire[i].is = "text")
    BY <2>1 DEF Opened
  <2>3. WireGrammar
    BY <1>1, <2>1, <2>2 DEF WireGrammar, Opened
  <2>4. \A chunk \in ToSet(wire) : chunk.is # "done"
    BY <2>2 DEF ToSet
  <2> QED
    BY <1>4, <2>1, <2>3, <2>4 DEF ToldOnce, Typed
<1> QED
  BY <1>2, <1>3, <1>4

LEMMA WantedTyped ==
    ASSUME Typed
    PROVE  Wanted \subseteq Seq(Message)
<1>1. Assistant \in Seq(Message)
  BY DEF Assistant, Message, Roles, Texts
<1>2. prompt \in Seq(Message) /\ given \in Seq(Message)
  BY DEF Typed
<1>3. \A lead \in Seq(Message) : lead \o given \in Seq(Message)
  BY <1>2
<1> QED
  BY <1>1, <1>2, <1>3 DEF Wanted

(* A block of memories behind the system messages of what was kept.        *)
LEMMA KeptThenExtended ==
    ASSUME NEW ms \in Seq(Message), NEW want \in Seq(Message), Kept(ms, want),
           NEW text \in {"clean", "raw"}
    PROVE  Extended(WithMemory(ms, text), want)
<1> DEFINE got == WithMemory(ms, text)
           at  == Lead(want) + 1
           rest == RemoveAt(got, at)
<1>1. /\ Len(ms) = Len(want) /\ DOMAIN ms = 1 .. Len(ms) /\ Len(ms) \in Nat
      /\ \A i \in DOMAIN ms : Alike(ms[i], want[i])
  BY DEF Kept
<1>2. Lead(want) = Lead(ms)
  BY <1>1, LeadOfRoles DEF Alike
<1>3. /\ got \in Seq(Message) /\ at \in 1 .. Len(ms) + 1 /\ Len(got) = Len(ms) + 1
      /\ got[at].role = "system"
      /\ \A j \in 1 .. Lead(ms) : Alike(got[j], ms[j])
      /\ \A j \in at + 1 .. Len(ms) + 1 : Alike(got[j], ms[j - 1])
  BY <1>2, WithMemoryProperty
<1>4. Lead(ms) \in Nat /\ Lead(ms) = at - 1
  BY <1>2, LeadProperty
<1> HIDE DEF got, at
<1>5. at \in 1 .. Len(got)
  BY <1>1, <1>3
<1>6. /\ rest \in Seq(Message) /\ Len(rest) = Len(ms)
      /\ \A j \in 1 .. at - 1 : rest[j] = got[j]
      /\ \A j \in at .. Len(ms) : rest[j] = got[j + 1]
  <2>1. /\ RemoveAt(got, at) \in Seq(Message)
        /\ Len(RemoveAt(got, at)) = Len(got) - 1
        /\ \A j \in 1 .. at - 1 : RemoveAt(got, at)[j] = got[j]
        /\ \A j \in at .. Len(got) - 1 : RemoveAt(got, at)[j] = got[j + 1]
    BY <1>3, <1>5, RemoveInserted
  <2>2. Len(got) - 1 = Len(ms)
    BY <1>1, <1>3
  <2> QED
    BY <2>1, <2>2
<1> HIDE DEF rest
<1>7. \A j \in 1 .. Len(ms) : Alike(rest[j], ms[j])
  <2> TAKE j \in 1 .. Len(ms)
  <2>1. CASE j \in 1 .. at - 1
    BY <1>3, <1>4, <1>6, <2>1
  <2>2. CASE j \in at .. Len(ms)
    <3>1. j + 1 \in at + 1 .. Len(ms) + 1 /\ (j + 1) - 1 = j
      BY <1>1, <1>3, <2>2
    <3>2. Alike(got[j + 1], ms[(j + 1) - 1])
      BY <1>3, <3>1
    <3> QED
      BY <1>6, <2>2, <3>1, <3>2
  <2> QED
    BY <1>1, <1>3, <2>1, <2>2
<1>8. \A j \in 1 .. Len(ms) : Alike(rest[j], want[j])
  BY <1>1, <1>7 DEF Alike
<1>9. Kept(rest, want)
  BY <1>1, <1>6, <1>8 DEF Kept
<1>10. at \in DOMAIN got
  BY <1>3, <1>5
<1> QED
  BY <1>3, <1>9, <1>10 DEF Extended, got, at, rest

LEMMA CompleteStep ==
    ASSUME Typed, Complete, [PipelineNext]_pipelineVars
    PROVE  Complete'
<1>1. Fixed
  BY AskedIsFixed
<1>2. Wanted' = Wanted
  BY <1>1 DEF Wanted, Fixed
<1>3. /\ messages \in Seq(Message)
      /\ sent \in [guard : Seq(Message), provider : Seq(Message)]
      /\ Wanted \subseteq Seq(Message)
      /\ given \in Seq(Message) /\ prompt \in Seq(Message)
  BY WantedTyped DEF Typed, Contents
<1>4. /\ ConversationKept <=>
           (sent.provider # <<>> => \E want \in Wanted :
              Kept(sent.provider, want) \/ Extended(sent.provider, want))
      /\ ConversationKept' <=>
           (sent'.provider # <<>> => \E want \in Wanted :
              Kept(sent'.provider, want) \/ Extended(sent'.provider, want))
  BY <1>2 DEF ConversationKept, Kept, Extended, Wanted
<1>5. ASSUME sent'.provider = sent.provider PROVE ConversationKept'
  BY <1>4, <1>5 DEF Complete
<1>6. CASE Ends \/ Malformed
  <2>1. pc' = "over" /\ sent' = sent
    BY <1>6 DEF Ends, Fail, Malformed, Go, past
  <2> QED
    BY <1>5, <2>1 DEF Complete
<1>7. CASE Compiles
  <2>1. PICK ms \in Seq(Message) :
          /\ IF prompt = <<>> THEN ms = <<>> ELSE ms \in {prompt, Assistant}
          /\ Prepend(ms)
    BY <1>7 DEF Compiles
  <2>2. pc' = "compiled" /\ sent' = sent /\ messages' = ms \o given
    BY <2>1 DEF Prepend, Go, past, Complete
  <2>3. messages' \in Wanted
    BY <2>1, <2>2 DEF Wanted
  <2>4. Kept(messages', messages')
    BY DEF Kept, Alike
  <2> QED
    BY <1>2, <1>5, <2>2, <2>3, <2>4 DEF Complete
<1>8. CASE Redact
  <2>1. pc = "compiled" /\ pc' = "redacted" /\ sent' = sent
    BY <1>8 DEF Redact, Go, past
  <2>2. PICK want \in Wanted : Kept(messages, want)
    BY <2>1 DEF Complete
  <2>3. Kept(messages', want)
    <3>1. Kept(RedactAll(messages), want)
      <4>1. \A m \in Message : Redacted(Redacted(m.text)) = Redacted(m.text)
        BY DEF Redacted
      <4>2. \A j \in DOMAIN messages : Alike(RedactAll(messages)[j], messages[j])
        BY <1>3, RedactAllProperty DEF Alike, Redacted
      <4>3. DOMAIN RedactAll(messages) = DOMAIN messages
        BY DEF RedactAll
      <4> QED
        BY <1>3, <2>2, <4>2, <4>3, RedactAllProperty DEF Kept, Alike
    <3> QED
      BY <1>8, <2>2, <3>1 DEF Redact
  <2> QED
    BY <1>2, <1>5, <2>1, <2>3 DEF Complete
<1>9. CASE Attach
  <2>1. pc = "redacted" /\ pc' = "ready" /\ sent' = sent
    BY <1>9 DEF Attach, Go, past
  <2>2. PICK want \in Wanted : Kept(messages, want)
    BY <2>1 DEF Complete
  <2>3. Kept(messages', want) \/ Extended(messages', want)
    BY <1>3, <1>9, <2>2, KeptThenExtended DEF Attach
  <2> QED
    BY <1>2, <1>5, <2>1, <2>3 DEF Complete
<1>10. CASE Screens \/ Screened
  <2>1. /\ pc' \in {"screening", "passed"} => pc \in {"ready", "screening"}
        /\ pc' \in {"screening", "passed", "vetted"} /\ messages' = messages
    BY <1>10 DEF Screens, Screened, Go
  <2>2. sent'.provider = sent.provider
    BY <1>3, <1>10 DEF Screens, Screened, past
  <2>3. pc' \in {"screening", "passed"} =>
          \E want \in Wanted : Kept(messages', want) \/ Extended(messages', want)
    BY <2>1 DEF Complete
  <2> QED
    BY <1>2, <1>5, <2>1, <2>2, <2>3 DEF Complete
<1>11. CASE Admit
  <2>1. pc = "passed" /\ pc' = "calling" /\ messages' = messages
    BY <1>11 DEF Admit, Go
  <2>2. sent'.provider = messages
    BY <1>3, <1>11 DEF Admit
  <2>3. ConversationKept'
    BY <1>4, <2>1, <2>2 DEF Complete
  <2> QED
    BY <2>1, <2>3 DEF Complete
<1>12. CASE \/ Passes \/ (\E text \in Texts : Delta(text)) \/ Answered \/ Vet
            \/ Validates \/ Deliver \/ Close \/ UNCHANGED pipelineVars
  <2>1. UNCHANGED <<messages, sent>>
    BY <1>12 DEF Passes, Delta, Answered, Vet, Validates, Deliver, Close, pipelineVars, past
  <2>2. pc' = pc \/ pc' \notin Before
    BY <1>12 DEF Passes, Delta, Answered, Vet, Validates, Deliver, Respond, Close, Go,
                  pipelineVars, Before
  <2> QED
    BY <1>1, <1>2, <1>5, <2>1, <2>2 DEF Complete, Before, Kept, Extended, Fixed
<1> QED
  BY <1>6, <1>7, <1>8, <1>9, <1>10, <1>11, <1>12, StepKinds

-----------------------------------------------------------------------------
(* The theorems.                                                           *)

(* The inductive invariant holds in every state of the pipeline.           *)
THEOREM Inductive == PipelineSpec => []IInv
<1>1. ASSUME PipelineInit PROVE IInv
  <2>1. /\ given \in Seq(Message) /\ prompt \in Seq(Message) /\ flags \in Flags
        /\ <<>> \in Seq(Message) /\ <<>> \in Seq(WireChunk)
    <3>1. <<>> \in Seq(Message) /\ <<>> \in Seq(WireChunk)
      OBVIOUS
    <3>2. given \in Conversations /\ prompt \in Prompts \cup {<<>>} /\ flags \in FlagSettings
      BY <1>1 DEF PipelineInit
    <3> QED
      BY <3>1, <3>2, PipelineAssumption
  <2>2. Contents
    BY <1>1, <2>1 DEF PipelineInit, EncoderInit, Contents, Nothing, Texts, Body
  <2>3. Placed /\ PipelineTypeOK
    BY <1>1, <2>1, <2>2 DEF PipelineInit, PipelineTypeOK, Placed, Places, Before,
          Contents, WireChunk, Nothing, Texts
  <2>4. Typed
    BY <1>1, <2>1, <2>2, <2>3 DEF PipelineInit, Typed
  <2>5. Told
    BY <1>1 DEF PipelineInit, EncoderInit, Told, Within, Before
  <2>6. ChargedLate /\ CheckedLast
    BY <1>1 DEF PipelineInit, ChargedLate, CheapRefusals, CheckedLast
  <2>7. ScreenedLast /\ HeldBack
    BY <1>1 DEF PipelineInit, Nothing, ScreenedLast, ScreenedIsSent, HeldBack, FailClosed,
                 Within
  <2>8. Clean
    BY <1>1 DEF PipelineInit, EncoderInit, Nothing, Clean, NoneRaw
  <2>9. Complete
    BY <1>1 DEF PipelineInit, Nothing, Complete, ConversationKept
  <2> QED
    BY <2>4, <2>5, <2>6, <2>7, <2>8, <2>9 DEF IInv
<1>2. ASSUME IInv, [PipelineNext]_pipelineVars PROVE IInv'
  BY <1>2, TypedStep, ToldStep, ChargedStep, CheckedStep, ScreenedStep, HeldBackStep,
     CleanStep, CompleteStep DEF IInv
<1> HIDE DEF IInv
<1> QED
  BY <1>1, <1>2, PTL DEF PipelineSpec

(* A turn that is over has told its client how it ended, once, in a form   *)
(* the client can read: whatever failed, and wherever.                     *)
THEOREM ClientIsTold == PipelineSpec => []ToldOnce
<1>1. IInv => ToldOnce
  BY ToldIsToldOnce DEF IInv
<1> QED
  BY <1>1, Inductive, PTL

(* With redaction on nothing raw reaches a classifier, the provider,       *)
(* memory or the client.                                                   *)
THEOREM RedactionHolds == PipelineSpec => []NothingRaw
<1>1. IInv => NothingRaw
  BY CleanIsNothingRaw DEF IInv
<1> QED
  BY <1>1, Inductive, PTL

(* The guard is handed the very messages that the provider is given.       *)
THEOREM GuardSeesAll == PipelineSpec => []ScreenedIsSent
<1>1. IInv => ScreenedIsSent
  BY DEF IInv, ScreenedLast
<1> QED
  BY <1>1, Inductive, PTL

(* An answer of a classifier that is not plainly harmless ends the turn    *)
(* with nothing delivered.                                                 *)
THEOREM GuardFailsClosed == PipelineSpec => []FailClosed
<1>1. IInv => FailClosed
  BY DEF IInv, HeldBack
<1> QED
  BY <1>1, Inductive, PTL

(* The provider is given the whole conversation behind the prompt that was *)
(* named, in order, and at most one block of memories.                     *)
THEOREM NothingIsLost == PipelineSpec => []ConversationKept
<1>1. IInv => ConversationKept
  BY DEF IInv, Complete
<1> QED
  BY <1>1, Inductive, PTL

(* A structured answer matches what was asked for when it is delivered or  *)
(* remembered, after every rewriting by redaction: as a client's own       *)
(* parser reads it, or inside the wrapping that validate_output strips and *)
(* the answer keeps.                                                       *)
THEOREM DeliveredMatches == PipelineSpec => []DeliveredIsValid
<1>1. IInv => DeliveredIsValid
  <2>1. body.wrapped \in BOOLEAN => (body.wrapped \/ AsSent(body) = Parsed(body))
    BY DEF AsSent, Parsed
  <2> QED
    BY <2>1 DEF IInv, CheckedLast, DeliveredIsValid, Typed, Contents, Body
<1> QED
  BY <1>1, Inductive, PTL

(* A client that is turned away has not been charged for an answer.        *)
THEOREM RefusalsAreFree == PipelineSpec => []CheapRefusals
<1>1. IInv => CheapRefusals
  BY DEF IInv, ChargedLate
<1> QED
  BY <1>1, Inductive, PTL
=============================================================================
