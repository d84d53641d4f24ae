-------------------------------- MODULE Door --------------------------------
(***************************************************************************)
(* Requests on their way to a handler: require_gateway_auth (auth.py), the *)
(* scope check of the route (dependencies.py) and the handlers that change *)
(* something, /admin/keys (admin.py) and PATCH /config (config.py), over   *)
(* the key store of IdentityStore and the layer flags of FlagOverlay, with *)
(* the refusals of GatewayRuntime.start (container.py).                    *)
(*                                                                         *)
(* The two checks are plain functions and run in threads of their own,     *)
(* the handlers run on the event loop: between authentication, scope check *)
(* and handler of a request the handlers of others take their turns.  An   *)
(* identity is taken at authentication and kept.                           *)
(***************************************************************************)
EXTENDS IdentityStore, FlagOverlay

CONSTANTS
    Requests,       \* requests under way at a time
    Granted,        \* setting -> the scopes it grants
    Patches,        \* the layers administrators ask for
    Openings        \* the values of GATEWAY_ALLOW_OPEN looked at

Scopes == {"read", "chat", "config", "admin"}
Unknown == [id |-> "nobody"]

ASSUME DoorAssumption ==
    /\ Granted \in [Settings -> SUBSET Scopes]
    /\ Granted[AllScopes] = Scopes
    /\ Patches \subseteq Overlays /\ NoOverlay \notin Patches
    /\ Openings \subseteq BOOLEAN

VARIABLES
    allowOpen,  \* GATEWAY_ALLOW_OPEN
    up,         \* the process serves
    pc,         \* request -> where it is
    who         \* request -> the identity bound to it, or nobody

requests == <<pc, who>>
doorVars == <<vars, flagVars, allowOpen, up, requests>>

Identity == [id : Ids, scopes : SUBSET Scopes]

Active == {id \in DOMAIN records : records[id].active}

AuthEnabled == legacy \/ Active # {}

DoorInit ==
    /\ Init /\ FlagsInit
    /\ up = TRUE
    /\ pc = [r \in Requests |-> "away"]
    /\ who = [r \in Requests |-> Unknown]
    /\ allowOpen \in Openings
    /\ allowOpen \/ AuthEnabled

Bound(id) == [id |-> id, scopes |-> Granted[records[id].setting]]

\* resolve accepts GATEWAY_API_KEY without an active record of it.
Legacy == [id |-> Default, scopes |-> Scopes]

Bind(r, identity) ==
    /\ pc[r] = "away" /\ pc' = [pc EXCEPT ![r] = "known"]
    /\ who' = [who EXCEPT ![r] = identity]

End(r) ==
    /\ pc' = [pc EXCEPT ![r] = "away"]
    /\ who' = [who EXCEPT ![r] = Unknown]

\* The secret of a key; its last use is written now and then.
ByKey(r) ==
    \E id \in Active : Bind(r, Bound(id)) /\ (Resolve(id) \/ UNCHANGED vars)

\* GATEWAY_API_KEY when its record is revoked or was never made.
ByGatewayKey(r) ==
    /\ legacy /\ Default \notin Active
    /\ Bind(r, Legacy) /\ UNCHANGED vars

\* Without a key, or with a wrong one, only while there is none.
WithoutKey(r) == ~AuthEnabled /\ Bind(r, Unknown) /\ UNCHANGED vars

\* require_gateway_auth.
Authenticate(r) ==
    /\ up
    /\ ByKey(r) \/ ByGatewayKey(r) \/ WithoutKey(r)
    /\ UNCHANGED <<flagVars, up>>

\* Mutant: an unknown caller is not looked at again.
MayOnce(r, scope) == IF who[r] = Unknown THEN TRUE ELSE scope \in who[r].scopes

\* require_scopes: whether there is a need for a key is asked again.
May(r, scope) ==
    IF who[r] = Unknown THEN ~AuthEnabled ELSE scope \in who[r].scopes

Enter(r, scope) ==
    /\ up /\ pc[r] = "known" /\ May(r, scope)
    /\ pc' = [pc EXCEPT ![r] = scope]
    /\ UNCHANGED <<vars, flagVars, up, who>>

\* 401, 403 or a handler that changes nothing.
Leave(r) ==
    /\ up /\ pc[r] = "known" /\ End(r)
    /\ UNCHANGED <<vars, flagVars, up>>

\* create_key, patch_key and revoke_key.
Administer(r) ==
    /\ up /\ pc[r] = "admin" /\ End(r)
    /\ \/ \E id \in Ids, setting \in Settings : Create(id, setting)
       \/ \E id \in Ids, new \in Record : Patch(id, new)
    /\ UNCHANGED <<flagVars, up>>

(* patch_config asks require_configured_gateway_key first.  The layers are  *)
(* saved, the file cannot be written, or the process dies after it was.    *)
Configure(r) ==
    /\ up /\ AuthEnabled /\ pc[r] = "config"
    /\ \E patch \in Patches :
         \/ SaveFlags(patch) /\ UNCHANGED <<vars, up>> /\ End(r)
         \/ FlagsFail(patch) /\ Fault /\ End(r)
            /\ UNCHANGED <<legacy, records, disk, acked, doubt, barred, up>>
         \/ FlagsDie(patch) /\ Fault /\ up' = FALSE
            /\ UNCHANGED <<legacy, records, disk, acked, doubt, barred, requests>>

\* 403 gateway_key_required.
Unconfigured(r) ==
    /\ up /\ ~AuthEnabled /\ pc[r] = "config" /\ End(r)
    /\ UNCHANGED <<vars, flagVars, up>>

\* Mutant: start does not ask whether the gateway may be open.
StartsAlways == TRUE

\* start: an open gateway must be allowed to be.
Starts == allowOpen \/ AuthEnabled'

(* The process ends and starts again, with what it can read of the files.  *)
(* The requests under way are gone.                                        *)
Reboot(keysReadable, flagsReadable) ==
    /\ Restart(keysReadable)
    /\ LoadFlags(flagsReadable)
    /\ up' = Starts
    /\ pc' = [r \in Requests |-> "away"]
    /\ who' = [r \in Requests |-> Unknown]

DoorNext ==
    /\ UNCHANGED allowOpen
    /\ \/ \E r \in Requests :
            \/ Authenticate(r) \/ Leave(r)
            \/ \E scope \in {"config", "admin"} : Enter(r, scope)
            \/ Administer(r) \/ Configure(r) \/ Unconfigured(r)
       \/ \E keysReadable, flagsReadable \in BOOLEAN :
            Reboot(keysReadable, flagsReadable)

DoorSpec == DoorInit /\ [][DoorNext]_doorVars

-----------------------------------------------------------------------------
(* The type invariant of what Door adds to the store and the flags.        *)
DoorTypeOK ==
    /\ FlagsTypeOK
    /\ allowOpen \in BOOLEAN /\ up \in BOOLEAN
    /\ pc \in [Requests -> {"away", "known", "config", "admin"}]
    /\ who \in [Requests -> Identity \cup {Unknown}]
    /\ \A r \in Requests : pc[r] = "away" => who[r] = Unknown

(* A layer that an administrator was told is on or off stays so, whatever  *)
(* other layers are patched, fail to be written or are lost half-way, and  *)
(* over restarts; and the layers in force are those that the next start    *)
(* will find, unless this one could not read the file.                     *)
LayersAsTold ==
    /\ DoorTypeOK
    /\ \A f \in DOMAIN told : f \in DOMAIN overlay /\ overlay[f] = told[f]
    /\ up => overlay = saved \/ unread

(* A key that was revoked for good opens the door to nobody, after failed  *)
(* writes, crashes and restarts (GATEWAY_API_KEY is let in while its       *)
(* record is revoked); and a caller without a key, let in while there was  *)
(* none, does not get to a handler after the first was made.               *)
StrangersStayOut ==
    [][\A r \in Requests :
          /\ pc[r] = "away" /\ who'[r] # Unknown /\ who'[r].id \in barred
             => legacy /\ who'[r].id = Default
          /\ pc[r] = "known" /\ who[r] = Unknown /\ pc'[r] \notin {"away", "known"}
             => ~AuthEnabled]_doorVars

(* A gateway that was not allowed to be open opens only when its           *)
(* administrator revokes the last key, never by a restart, by a file that  *)
(* cannot be read or by a request.                                         *)
OpenedByRevoking ==
    [][~allowOpen /\ up' /\ ~AuthEnabled' /\ (AuthEnabled \/ ~up)
       => /\ up
          /\ \E r \in Requests, id \in Active :
                pc[r] = "admin" /\ ~records'[id].active]_doorVars
=============================================================================
