---------------------------- MODULE IdentityStore ----------------------------
(***************************************************************************)
(* GatewayIdentityStore (app/infrastructure/identities.py): the issued     *)
(* keys in memory and their file gateway-keys.json.                        *)
(*                                                                         *)
(* Every operation runs under the store's lock, changes the records in     *)
(* memory and then writes them all to the file.  The write may fail (the   *)
(* caller gets an error and the change stays in memory), the process may   *)
(* die right after it, and the file may be unreadable at the next start.   *)
(* A record's setting stands for its scopes, label and quotas.             *)
(***************************************************************************)
EXTENDS FiniteSets, Integers

CONSTANTS
    Ids,            \* ids of issued keys
    Default,        \* the id of the record made from GATEWAY_API_KEY
    Settings,       \* the settings an administrator may give
    AllScopes,      \* the setting of the bootstrap record
    MaxFaults       \* bound: failed writes, crashes and unreadable files

ASSUME StoreAssumption ==
    /\ Default \in Ids
    /\ AllScopes \in Settings
    /\ MaxFaults \in Nat

VARIABLES
    legacy,     \* GATEWAY_API_KEY is set; multi-key mode is on, with a pepper
    records,    \* _records
    disk,       \* the keys of gateway-keys.json
    faults,
    \* History variables.
    acked,      \* id -> the record as the last successful answer reported it
    doubt,      \* ids changed since then by a call that failed, or wiped
    barred      \* ids revoked for good: nobody has asked for them since

vars == <<legacy, records, disk, faults, acked, doubt, barred>>

Record == [active : BOOLEAN, setting : Settings]
With(f, x, e) == [y \in DOMAIN f \cup {x} |-> IF y = x THEN e ELSE f[y]]
Nobody == [x \in {} |-> x]

-----------------------------------------------------------------------------
\* Mutant: revoked_at is not read back.
LoadedActive(readable) ==
    IF readable THEN [id \in DOMAIN disk |-> [disk[id] EXCEPT !.active = TRUE]]
                ELSE Nobody

\* load: what cannot be read counts as no keys at all.
Loaded(readable) == IF readable THEN disk ELSE Nobody

\* ensure_bootstrap_default
Bootstrapped(loaded) ==
    IF legacy /\ loaded = Nobody
    THEN With(Nobody, Default, [active |-> TRUE, setting |-> AllScopes])
    ELSE loaded

\* The first start finds no key file, or one with a key issued before.
Init ==
    /\ legacy \in BOOLEAN
    /\ \E issued \in {Nobody} \cup
            {With(Nobody, id, [active |-> TRUE, setting |-> AllScopes]) :
                 id \in Ids \ {Default}} :
         records = Bootstrapped(issued)
    /\ disk = records
    /\ faults = 0
    /\ acked = Nobody /\ doubt = {} /\ barred = {}

Fault == faults < MaxFaults /\ faults' = faults + 1

\* Mutant: the file is written before the record is put into memory.
SaveBefore == disk' = records

\* _save_unlocked replaces the file as a whole, so a failed write leaves
\* the old one.
Save == disk' = records'

(* One administrative change: the record in memory, then the whole file.   *)
(* Only the first outcome is reported as done.                             *)
Change(id, new) ==
    /\ records' = With(records, id, new)
    /\ UNCHANGED legacy
    /\ \/ /\ Save
          /\ acked' = With(acked, id, new)
          /\ doubt' = doubt \ {id}
          /\ barred' = IF new.active THEN barred \ {id} ELSE barred \cup {id}
          /\ UNCHANGED faults
       \/ /\ Fault                 \* the write fails, or the process dies after it
          /\ Save \/ UNCHANGED disk
          /\ doubt' = doubt \cup {id}
          /\ barred' = IF new.active THEN barred \ {id} ELSE barred
          /\ UNCHANGED acked

\* create refuses an id that exists, a revoked one as well.  Nobody names a
\* key like the bootstrap record.
Create(id, setting) ==
    /\ id \notin DOMAIN records \cup {Default}
    /\ Change(id, [active |-> TRUE, setting |-> setting])

\* patch and revoke: other settings, revoked or revived.
Patch(id, new) == id \in DOMAIN records /\ Change(id, new)

\* resolve accepts the key, and at most once a minute writes last_used_at:
\* with it goes whatever an earlier write failed to save.
Resolve(id) ==
    /\ id \in DOMAIN records /\ records[id].active
    /\ UNCHANGED records
    /\ Save
    /\ UNCHANGED <<legacy, faults, acked, doubt, barred>>

(* The process starts again.  A file that cannot be read leaves no keys,   *)
(* and the next write makes that final; GATEWAY_API_KEY then makes its     *)
(* record anew.  A bootstrap that cannot be written does not start.        *)
Restart(readable) ==
    /\ IF readable THEN UNCHANGED faults ELSE Fault
    /\ records' = Bootstrapped(Loaded(readable))
    /\ IF records' = Loaded(readable)
       THEN UNCHANGED <<disk, barred>>
       ELSE Save /\ barred' = barred \ {Default}
    /\ doubt' = IF readable THEN doubt ELSE Ids
    /\ UNCHANGED <<legacy, acked>>

Next ==
    \/ \E id \in Ids, setting \in Settings : Create(id, setting)
    \/ \E id \in Ids, new \in Record : Patch(id, new)
    \/ \E id \in Ids : Resolve(id)
    \/ \E readable \in BOOLEAN : Restart(readable)

Spec == Init /\ [][Next]_vars

-----------------------------------------------------------------------------
Book == UNION {[some -> Record] : some \in SUBSET Ids}

(* The type invariant.  With GATEWAY_API_KEY set the store is never empty. *)
TypeOK ==
    /\ legacy \in BOOLEAN
    /\ records \in Book /\ disk \in Book /\ acked \in Book
    /\ doubt \subseteq Ids /\ barred \subseteq Ids
    /\ faults \in 0 .. MaxFaults
    /\ legacy => records # Nobody

(* Whatever the store has reported as done is in memory and in the file,   *)
(* until the same key is changed by a call that failed, or the file could  *)
(* not be read.  So it survives a restart, other keys' failing calls and   *)
(* the writes of resolve.                                                  *)
AckedDurable ==
    /\ TypeOK
    /\ \A id \in DOMAIN acked \ doubt :
         /\ id \in DOMAIN records /\ records[id] = acked[id]
         /\ id \in DOMAIN disk /\ disk[id] = acked[id]
=============================================================================
