---------------------------- MODULE Door_proofs ----------------------------
(***************************************************************************)
(* Proofs about Door, and so about the key store and the layer flags it is *)
(* composed of, for every set of requests, keys, settings and layers.      *)
(***************************************************************************)
EXTENDS Door, TLAPS

-----------------------------------------------------------------------------
(* The inductive invariant.                                                *)

(* A key revoked for good is inactive in memory and in the file, which the *)
(* next start will read.                                                   *)
BarredInactive ==
    \A id \in barred : /\ id \in DOMAIN records => ~records[id].active
                       /\ id \in DOMAIN disk => ~disk[id].active

(* What administrators were told of layers is in the file as well, also    *)
(* while the process is down and memory is not what counts.                *)
ToldIsSaved == \A f \in DOMAIN told : f \in DOMAIN saved /\ saved[f] = told[f]

StoreInv == AckedDurable /\ BarredInactive
FlagsInv ==
    /\ FlagsTypeOK
    /\ \A f \in DOMAIN told : f \in DOMAIN overlay /\ overlay[f] = told[f]
    /\ ToldIsSaved
InForceIsSaved == up => overlay = saved \/ unread

IInv == StoreInv /\ FlagsInv /\ InForceIsSaved /\ DoorTypeOK

-----------------------------------------------------------------------------
(* Maps with some of the ids, or some of the layers, as their domain.      *)

LEMMA BookMember ==
    ASSUME NEW f
    PROVE  f \in Book <=> /\ DOMAIN f \subseteq Ids
                          /\ f = [x \in DOMAIN f |-> f[x]]
                          /\ \A x \in DOMAIN f : f[x] \in Record
BY DEF Book

LEMMA WithBook ==
    ASSUME NEW f \in Book, NEW x \in Ids, NEW e \in Record
    PROVE  With(f, x, e) \in Book /\ With(f, x, e) # Nobody
<1>1. x \in DOMAIN With(f, x, e)
  BY DEF With
<1>2. DOMAIN Nobody = {}
  BY DEF Nobody
<1> QED
  BY <1>1, <1>2, BookMember DEF With

LEMMA NobodyBook == Nobody \in Book /\ DOMAIN Nobody = {}
BY BookMember DEF Nobody

LEMMA OverlayMember ==
    ASSUME NEW f
    PROVE  f \in Overlays <=> /\ DOMAIN f \subseteq Layers
                              /\ f = [x \in DOMAIN f |-> f[x]]
                              /\ \A x \in DOMAIN f : f[x] \in BOOLEAN
BY DEF Overlays

LEMMA OverOverlays ==
    ASSUME NEW f \in Overlays, NEW g \in Overlays
    PROVE  Over(f, g) \in Overlays
BY OverlayMember DEF Over

LEMMA ExceptOverlays ==
    ASSUME NEW f \in Overlays, NEW S
    PROVE  Except(f, S) \in Overlays
BY OverlayMember DEF Except

LEMMA NoOverlays == NoOverlay \in Overlays /\ DOMAIN NoOverlay = {}
BY OverlayMember DEF NoOverlay

-----------------------------------------------------------------------------
(* The key store.                                                          *)

LEMMA BootstrappedBook ==
    ASSUME NEW f \in Book
    PROVE  /\ Bootstrapped(f) \in Book
           /\ legacy => Bootstrapped(f) # Nobody
           /\ \/ Bootstrapped(f) = f
              \/ /\ f = Nobody
                 /\ DOMAIN Bootstrapped(f) = {Default}
<1>1. [active |-> TRUE, setting |-> AllScopes] \in Record
  BY StoreAssumption DEF Record
<1>2. Nobody \in Book /\ DOMAIN Nobody = {}
  BY NobodyBook
<1>3. DOMAIN With(Nobody, Default, [active |-> TRUE, setting |-> AllScopes]) = {Default}
  BY <1>2 DEF With
<1> QED
  BY <1>1, <1>2, <1>3, WithBook, StoreAssumption DEF Bootstrapped

LEMMA ChangeStep ==
    ASSUME StoreInv, NEW id \in Ids, NEW new \in Record, Change(id, new)
    PROVE  StoreInv'
<1> DEFINE changed  == With(records, id, new)
           reported == With(acked, id, new)
<1> USE DEF StoreInv, AckedDurable, TypeOK, BarredInactive
<1>1. changed \in Book /\ reported \in Book /\ changed # Nobody
  BY WithBook
<1>2. /\ DOMAIN changed = DOMAIN records \cup {id}
      /\ changed[id] = new
      /\ \A x \in DOMAIN records \ {id} : changed[x] = records[x]
  BY DEF With
<1>3. /\ DOMAIN reported = DOMAIN acked \cup {id}
      /\ reported[id] = new
      /\ \A x \in DOMAIN acked \ {id} : reported[x] = acked[x]
  BY DEF With
<1>4. records' = changed
  BY DEF Change
<1> HIDE DEF changed
<1>5. CASE /\ Save
           /\ acked' = reported
           /\ doubt' = doubt \ {id}
           /\ barred' = IF new.active THEN barred \ {id} ELSE barred \cup {id}
           /\ UNCHANGED faults
  <2>1. disk' = changed /\ legacy' = legacy
    BY <1>4, <1>5 DEF Change, Save
  <2> QED
    BY <1>1, <1>2, <1>3, <1>4, <1>5, <2>1
<1>6. CASE /\ Fault
           /\ Save \/ UNCHANGED disk
           /\ doubt' = doubt \cup {id}
           /\ barred' = IF new.active THEN barred \ {id} ELSE barred
           /\ UNCHANGED acked
  <2>1. disk' = changed \/ disk' = disk
    BY <1>4, <1>6 DEF Save
  <2>2. legacy' = legacy /\ faults' \in 0 .. MaxFaults
    BY <1>6, StoreAssumption DEF Change, Fault
  <2> QED
    BY <1>1, <1>2, <1>4, <1>6, <2>1, <2>2
<1> QED
  BY <1>5, <1>6 DEF Change

LEMMA RestartStep ==
    ASSUME StoreInv, NEW readable \in BOOLEAN, Restart(readable)
    PROVE  StoreInv'
<1> DEFINE loaded == Loaded(readable)
<1> USE DEF StoreInv, AckedDurable, TypeOK, BarredInactive
<1>1. /\ loaded \in Book
      /\ readable => loaded = disk
      /\ ~readable => DOMAIN loaded = {}
  BY NobodyBook DEF Loaded
<1>2. legacy' = legacy /\ acked' = acked /\ faults' \in 0 .. MaxFaults
  BY StoreAssumption DEF Restart, Fault
<1>3. doubt' = IF readable THEN doubt ELSE Ids
  BY DEF Restart
<1>4. records' = Bootstrapped(loaded)
  BY DEF Restart
<1>5. CASE records' = loaded
  <2>1. disk' = disk /\ barred' = barred /\ (legacy => records' # Nobody)
    BY <1>1, <1>4, <1>5, BootstrappedBook DEF Restart
  <2>2. AckedDurable'
    BY <1>1, <1>2, <1>3, <1>5, <2>1, BookMember
  <2> QED
    BY <1>1, <1>5, <2>1, <2>2
<1>6. CASE records' # loaded
  <2>1. /\ disk' = records' /\ barred' = barred \ {Default}
        /\ records' \in Book /\ (legacy => records' # Nobody)
        /\ DOMAIN records' = {Default} /\ DOMAIN loaded = {}
    BY <1>1, <1>4, <1>6, BootstrappedBook, NobodyBook DEF Restart, Save
  <2>2. AckedDurable'
    BY <1>1, <1>2, <1>3, <2>1, BookMember
  <2> QED
    BY <2>1, <2>2
<1> QED
  BY <1>5, <1>6

\* What a step does to the store: one of these, or nothing.
LEMMA StoreStep ==
    ASSUME StoreInv,
           \/ \E id \in Ids, setting \in Settings : Create(id, setting)
           \/ \E id \in Ids, new \in Record : Patch(id, new)
           \/ \E id \in Ids : Resolve(id)
           \/ \E readable \in BOOLEAN : Restart(readable)
           \/ /\ Fault \/ UNCHANGED faults
              /\ UNCHANGED <<legacy, records, disk, acked, doubt, barred>>
    PROVE  StoreInv'
<1>1. ASSUME NEW id \in Ids, NEW setting \in Settings, Create(id, setting)
      PROVE  StoreInv'
  BY <1>1, ChangeStep DEF Create, Record
<1>2. ASSUME NEW id \in Ids, NEW new \in Record, Patch(id, new)
      PROVE  StoreInv'
  BY <1>2, ChangeStep DEF Patch
<1>3. ASSUME NEW id \in Ids, Resolve(id)
      PROVE  StoreInv'
  BY <1>3 DEF Resolve, Save, StoreInv, AckedDurable, TypeOK, BarredInactive
<1>4. ASSUME NEW readable \in BOOLEAN, Restart(readable)
      PROVE  StoreInv'
  BY <1>4, RestartStep
<1>5. CASE /\ Fault \/ UNCHANGED faults
           /\ UNCHANGED <<legacy, records, disk, acked, doubt, barred>>
  BY <1>5, StoreAssumption
     DEF Fault, StoreInv, AckedDurable, TypeOK, BarredInactive
<1> QED
  BY <1>1, <1>2, <1>3, <1>4, <1>5

LEMMA StoreInit == Init => StoreInv
<1> SUFFICES ASSUME Init PROVE StoreInv
  OBVIOUS
<1>1. PICK keys \in {Nobody} \cup
              {With(Nobody, id, [active |-> TRUE, setting |-> AllScopes]) :
                   id \in Ids \ {Default}} :
         records = Bootstrapped(keys)
  BY DEF Init
<1>2. [active |-> TRUE, setting |-> AllScopes] \in Record
  BY StoreAssumption DEF Record
<1>3. keys \in Book
  BY <1>2, NobodyBook, WithBook
<1>4. records \in Book /\ (legacy => records # Nobody)
  BY <1>1, <1>3, BootstrappedBook
<1> QED
  BY <1>4, NobodyBook, StoreAssumption
     DEF Init, StoreInv, AckedDurable, TypeOK, BarredInactive

-----------------------------------------------------------------------------
(* The layer flags.                                                        *)

LEMMA SaveFlagsStep ==
    ASSUME FlagsInv, NEW patch \in Overlays, SaveFlags(patch)
    PROVE  FlagsInv' /\ InForceIsSaved'
<1>1. /\ Merged(patch) \in Overlays /\ Over(patch, told) \in Overlays
  BY OverOverlays DEF Merged, FlagsInv, FlagsTypeOK
<1>2. /\ overlay' = Merged(patch) /\ saved' = Merged(patch)
      /\ told' = Over(patch, told) /\ unread' = unread
  BY DEF SaveFlags
<1>3. \A f \in DOMAIN Over(patch, told) :
          /\ f \in DOMAIN Merged(patch)
          /\ Merged(patch)[f] = Over(patch, told)[f]
  BY DEF Merged, Over, FlagsInv
<1> QED
  BY <1>1, <1>2, <1>3 DEF FlagsInv, FlagsTypeOK, ToldIsSaved, InForceIsSaved

LEMMA FlagsDieStep ==
    ASSUME FlagsInv, NEW patch \in Overlays, FlagsDie(patch)
    PROVE  FlagsInv'
<1>1. Merged(patch) \in Overlays /\ Except(told, DOMAIN patch) \in Overlays
  BY OverOverlays, ExceptOverlays DEF Merged, FlagsInv, FlagsTypeOK
<1>2. /\ overlay' = overlay /\ saved' = Merged(patch)
      /\ told' = Except(told, DOMAIN patch) /\ unread' = unread
  BY DEF FlagsDie
<1>3. \A f \in DOMAIN Except(told, DOMAIN patch) :
          /\ f \in DOMAIN told \ DOMAIN patch
          /\ Except(told, DOMAIN patch)[f] = told[f]
  BY DEF Except
<1>4. \A f \in DOMAIN overlay \ DOMAIN patch :
          f \in DOMAIN Merged(patch) /\ Merged(patch)[f] = overlay[f]
  BY DEF Merged, Over
<1> QED
  BY <1>1, <1>2, <1>3, <1>4 DEF FlagsInv, FlagsTypeOK, ToldIsSaved

LEMMA LoadFlagsStep ==
    ASSUME FlagsInv, NEW readable \in BOOLEAN, LoadFlags(readable)
    PROVE  FlagsInv' /\ InForceIsSaved'
BY NoOverlays DEF LoadFlags, FlagsInv, FlagsTypeOK, ToldIsSaved, InForceIsSaved

-----------------------------------------------------------------------------
LEMMA InitInductive == DoorInit => IInv
<1> SUFFICES ASSUME DoorInit PROVE IInv
  OBVIOUS
<1>1. StoreInv
  BY StoreInit DEF DoorInit
<1>2. FlagsInv /\ InForceIsSaved /\ DoorTypeOK
  BY NoOverlays, DoorAssumption
     DEF DoorInit, FlagsInit, FlagsInv, FlagsTypeOK, ToldIsSaved,
         InForceIsSaved, DoorTypeOK
<1> QED
  BY <1>1, <1>2 DEF IInv

\* What does not touch a part of the state keeps its part of the invariant.
LEMMA FlagsFrame ==
    ASSUME FlagsInv, UNCHANGED flagVars
    PROVE  FlagsInv' /\ (InForceIsSaved /\ UNCHANGED up => InForceIsSaved')
BY DEF flagVars, FlagsInv, FlagsTypeOK, ToldIsSaved, InForceIsSaved

LEMMA StoreFrame ==
    ASSUME StoreInv, UNCHANGED vars
    PROVE  StoreInv'
BY StoreStep DEF vars

LEMMA NextInductive ==
    ASSUME IInv, [DoorNext]_doorVars
    PROVE  IInv'
<1> USE DEF IInv
<1> DEFINE Types == /\ allowOpen' \in BOOLEAN /\ up' \in BOOLEAN
                    /\ pc' \in [Requests -> {"away", "known", "config", "admin"}]
                    /\ who' \in [Requests -> Identity \cup {Unknown}]
                    /\ \A r \in Requests : pc'[r] = "away" => who'[r] = Unknown
<1>0. ASSUME FlagsInv', Types PROVE DoorTypeOK'
  BY <1>0 DEF DoorTypeOK, FlagsInv
<1>1. ASSUME NEW r \in Requests, Authenticate(r), UNCHANGED allowOpen PROVE IInv'
  <2>1. UNCHANGED vars \/ \E id \in Ids : Resolve(id)
    <3>1. Active \subseteq Ids
      BY BookMember DEF Active, StoreInv, AckedDurable, TypeOK
    <3> QED
      BY <1>1, <3>1 DEF Authenticate, ByKey, ByGatewayKey, WithoutKey
  <2>2. FlagsInv' /\ InForceIsSaved'
    BY <1>1, FlagsFrame DEF Authenticate
  <2>3. \A id \in Active : Bound(id) \in Identity
    BY DoorAssumption, BookMember
       DEF Active, Bound, Identity, StoreInv, AckedDurable, TypeOK, Record
  <2>4. Legacy \in Identity
    BY StoreAssumption DEF Legacy, Identity
  <2>5. Types
    BY <1>1, <2>3, <2>4
       DEF DoorTypeOK, Authenticate, ByKey, ByGatewayKey, WithoutKey, Bind
  <2>6. StoreInv'
    BY <2>1, StoreFrame, StoreStep
  <2> QED
    BY <2>2, <2>5, <2>6, <1>0
<1>2. ASSUME NEW r \in Requests, UNCHANGED allowOpen,
             Leave(r) \/ Unconfigured(r)
               \/ \E scope \in {"config", "admin"} : Enter(r, scope)
      PROVE  IInv'
  <2>1. StoreInv' /\ FlagsInv' /\ InForceIsSaved'
    BY <1>2, StoreFrame, FlagsFrame DEF Leave, Unconfigured, Enter
  <2>2. Types
    BY <1>2 DEF DoorTypeOK, Leave, Unconfigured, Enter, End
  <2> QED
    BY <2>1, <2>2, <1>0
<1>3. ASSUME NEW r \in Requests, Administer(r), UNCHANGED allowOpen PROVE IInv'
  <2>1. StoreInv' /\ FlagsInv' /\ InForceIsSaved'
    BY <1>3, StoreStep, FlagsFrame DEF Administer
  <2>2. Types
    BY <1>3 DEF DoorTypeOK, Administer, End
  <2> QED
    BY <2>1, <2>2, <1>0
<1>4. ASSUME NEW r \in Requests, Configure(r), UNCHANGED allowOpen PROVE IInv'
  <2>1. PICK patch \in Patches :
           \/ SaveFlags(patch) /\ UNCHANGED <<vars, up>> /\ End(r)
           \/ FlagsFail(patch) /\ Fault /\ End(r)
              /\ UNCHANGED <<legacy, records, disk, acked, doubt, barred, up>>
           \/ FlagsDie(patch) /\ Fault /\ up' = FALSE
              /\ UNCHANGED <<legacy, records, disk, acked, doubt, barred, requests>>
    BY <1>4 DEF Configure
  <2>2. patch \in Overlays
    BY DoorAssumption
  <2>3. StoreInv'
    BY <2>1, StoreFrame, StoreStep
  <2>4. FlagsInv' /\ InForceIsSaved'
    BY <2>1, <2>2, SaveFlagsStep, FlagsDieStep, FlagsFrame DEF FlagsFail, InForceIsSaved
  <2>5. Types
    BY <1>4, <2>1 DEF DoorTypeOK, End, requests
  <2> QED
    BY <2>3, <2>4, <2>5, <1>0
<1>5. ASSUME NEW keysReadable \in BOOLEAN, NEW flagsReadable \in BOOLEAN,
             Reboot(keysReadable, flagsReadable), UNCHANGED allowOpen
      PROVE  IInv'
  <2>1. StoreInv' /\ FlagsInv' /\ InForceIsSaved'
    BY <1>5, RestartStep, LoadFlagsStep DEF Reboot
  <2>2. Types
    BY <1>5, <2>1
       DEF DoorTypeOK, Reboot, Starts, AuthEnabled, StoreInv, AckedDurable, TypeOK
  <2> QED
    BY <2>1, <2>2, <1>0
<1>6. CASE UNCHANGED doorVars
  <2>1. StoreInv' /\ FlagsInv' /\ InForceIsSaved'
    BY <1>6, StoreFrame, FlagsFrame DEF doorVars
  <2>2. Types
    BY <1>6 DEF DoorTypeOK, doorVars, requests
  <2> QED
    BY <2>1, <2>2, <1>0
<1> HIDE DEF IInv
<1> QED
  BY <1>1, <1>2, <1>3, <1>4, <1>5, <1>6 DEF DoorNext

(* The inductive invariant holds for every history of requests, failing    *)
(* writes and restarts.                                                    *)
THEOREM Inductive == DoorSpec => []IInv
<1>1. IInv /\ [DoorNext]_doorVars => IInv'
  BY NextInductive
<1> QED
  BY InitInductive, <1>1, PTL DEF DoorSpec

(* What the key store reported as done is in memory and in the file, until *)
(* the same key is changed by a failing call or the file is not readable.  *)
THEOREM KeysDurable == DoorSpec => []AckedDurable
<1>1. IInv => AckedDurable
  BY DEF IInv, StoreInv
<1> QED
  BY Inductive, <1>1, PTL

(* The layers an administrator was told of stay as told, over other        *)
(* patches, failed and half-done writes and restarts.                      *)
THEOREM LayersKept == DoorSpec => []LayersAsTold
<1>1. IInv => LayersAsTold
  BY DEF IInv, FlagsInv, InForceIsSaved, LayersAsTold
<1> QED
  BY Inductive, <1>1, PTL

(* No revoked key is bound again, and a caller without a key does not pass *)
(* once there is one, although authentication, scope check and handler of  *)
(* a request are three steps with those of others in between.              *)
THEOREM RevokedStaysOut == DoorSpec => StrangersStayOut
<1>1. ASSUME IInv, [DoorNext]_doorVars, NEW r \in Requests
      PROVE  /\ pc[r] = "away" /\ who'[r] # Unknown /\ who'[r].id \in barred
                => legacy /\ who'[r].id = Default
             /\ pc[r] = "known" /\ who[r] = Unknown /\ pc'[r] \notin {"away", "known"}
                => ~AuthEnabled
  <2> USE <1>1 DEF IInv
  <2>1. /\ pc[r] = "away" => who[r] = Unknown
        /\ pc \in [Requests -> {"away", "known", "config", "admin"}]
        /\ who \in [Requests -> Identity \cup {Unknown}]
    BY DEF DoorTypeOK
  <2>2. ASSUME NEW s \in Requests, Authenticate(s)
        PROVE  /\ pc'[r] # "known" => pc'[r] = pc[r]
               /\ pc[r] = "away" /\ who'[r] # Unknown /\ who'[r].id \in barred
                    => legacy /\ who'[r].id = Default
    <3>1. CASE r # s
      BY <2>1, <2>2, <3>1 DEF Authenticate, ByKey, ByGatewayKey, WithoutKey, Bind
    <3>2. CASE r = s
      <4>1. \A id \in Active : Bound(id).id \notin barred
        BY DEF Active, Bound, StoreInv, BarredInactive
      <4> QED
        BY <2>1, <2>2, <3>2, <4>1
           DEF Authenticate, ByKey, ByGatewayKey, WithoutKey, Bind, Legacy
    <3> QED
      BY <3>1, <3>2
  <2>3. ASSUME NEW s \in Requests, NEW scope \in {"config", "admin"}, Enter(s, scope)
        PROVE  /\ who' = who
               /\ who[r] = Unknown /\ pc'[r] # pc[r] => ~AuthEnabled
    BY <2>1, <2>3 DEF Enter, May
  <2>4. ASSUME NEW s \in Requests,
               Leave(s) \/ Administer(s) \/ Configure(s) \/ Unconfigured(s)
        PROVE  /\ pc'[r] \in {pc[r], "away"}
               /\ who'[r] \in {who[r], Unknown}
    BY <2>1, <2>4 DEF Leave, Administer, Configure, Unconfigured, End, requests
  <2>5. ASSUME NEW keysReadable \in BOOLEAN, NEW flagsReadable \in BOOLEAN,
               Reboot(keysReadable, flagsReadable)
        PROVE  pc'[r] = "away" /\ who'[r] = Unknown
    BY <2>5 DEF Reboot
  <2>6. CASE UNCHANGED doorVars
    BY <2>1, <2>6 DEF doorVars, requests
  <2> QED
    BY <2>1, <2>2, <2>3, <2>4, <2>5, <2>6 DEF DoorNext
<1>2. IInv /\ [DoorNext]_doorVars =>
        [\A r \in Requests :
          /\ pc[r] = "away" /\ who'[r] # Unknown /\ who'[r].id \in barred
             => legacy /\ who'[r].id = Default
          /\ pc[r] = "known" /\ who[r] = Unknown /\ pc'[r] \notin {"away", "known"}
             => ~AuthEnabled]_doorVars
  BY <1>1
<1> QED
  BY Inductive, <1>2, PTL DEF DoorSpec, StrangersStayOut

(* A gateway that may not be open is opened only by the administrator who  *)
(* revokes its last key.                                                   *)
THEOREM OpensByRevoking == DoorSpec => OpenedByRevoking
<1>1. ASSUME [DoorNext]_doorVars,
             ~allowOpen, up', ~AuthEnabled', AuthEnabled \/ ~up
      PROVE  /\ up
             /\ \E r \in Requests, id \in Active :
                   pc[r] = "admin" /\ ~records'[id].active
  <2> USE <1>1
  <2>1. \/ \E r \in Requests : Administer(r)
        \/ \E keysReadable, flagsReadable \in BOOLEAN :
              Reboot(keysReadable, flagsReadable) /\ UNCHANGED allowOpen
        \/ (up' => up) /\ UNCHANGED <<legacy, records>>
    BY DEF DoorNext, doorVars, vars, Authenticate, ByKey, ByGatewayKey, WithoutKey,
           Resolve, Leave, Enter, Configure, Unconfigured
  <2>2. CASE (up' => up) /\ UNCHANGED <<legacy, records>>
    BY <2>2 DEF AuthEnabled, Active
  <2>3. CASE \E keysReadable, flagsReadable \in BOOLEAN :
                Reboot(keysReadable, flagsReadable) /\ UNCHANGED allowOpen
    BY <2>3 DEF Reboot, Starts
  <2>4. ASSUME NEW r \in Requests, Administer(r)
        PROVE  /\ up
               /\ \E id \in Active : pc[r] = "admin" /\ ~records'[id].active
    <3>1. /\ up /\ pc[r] = "admin" /\ UNCHANGED legacy
          /\ \E id, new : records' = With(records, id, new)
      BY <2>4 DEF Administer, Create, Patch, Change
    <3>2. PICK id \in Active : TRUE
      BY <3>1 DEF AuthEnabled
    <3>3. id \in DOMAIN records' /\ id \notin Active'
      BY <3>1, <3>2 DEF AuthEnabled, Active, With
    <3> QED
      BY <3>1, <3>2, <3>3 DEF Active
  <2> QED
    BY <2>1, <2>2, <2>3, <2>4
<1>2. [DoorNext]_doorVars =>
        [~allowOpen /\ up' /\ ~AuthEnabled' /\ (AuthEnabled \/ ~up)
         => /\ up
            /\ \E r \in Requests, id \in Active :
                  pc[r] = "admin" /\ ~records'[id].active]_doorVars
  BY <1>1
<1> QED
  BY <1>2, PTL DEF DoorSpec, OpenedByRevoking
=============================================================================
