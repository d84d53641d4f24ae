---------------------------- MODULE FlagOverlay ----------------------------
(***************************************************************************)
(* RuntimeFlagStore (app/infrastructure/flags.py): the layer flags an      *)
(* administrator has set, over the defaults of the settings, and their     *)
(* file runtime-flags.json.                                                *)
(*                                                                         *)
(* A patch is merged with the overlay in memory, the result replaces the   *)
(* file, and only then the overlay.  The file is read when the process     *)
(* starts; one that cannot be read counts as no overlay at all.            *)
(***************************************************************************)
EXTENDS FiniteSets, Integers

CONSTANTS
    Layers,         \* the names of the flags
    DefaultLayers   \* layer -> what the settings say

ASSUME LayersAssumption == DefaultLayers \in [Layers -> BOOLEAN]

VARIABLES
    overlay,    \* _overlay
    saved,      \* the contents of runtime-flags.json
    \* History variables.
    told,       \* the layers set by answered patches
    unread      \* the file could not be read when the process started

flagVars == <<overlay, saved, told, unread>>

Overlays == UNION {[some -> BOOLEAN] : some \in SUBSET Layers}
NoOverlay == [f \in {} |-> FALSE]

\* The left map, and the right one where the left has no entry.
Over(f, g) ==
    [x \in DOMAIN f \cup DOMAIN g |-> IF x \in DOMAIN f THEN f[x] ELSE g[x]]
Except(f, S) == [x \in DOMAIN f \ S |-> f[x]]

\* snapshot
InForce == Over(overlay, DefaultLayers)

FlagsInit ==
    /\ overlay = NoOverlay /\ saved = NoOverlay /\ told = NoOverlay
    /\ unread = FALSE

\* Mutant: the file is replaced by the patch alone.
MergedAlone(patch) == patch

\* save_flags: what is written.
Merged(patch) == Over(patch, overlay)

\* save_flags.
SaveFlags(patch) ==
    /\ saved' = Merged(patch)
    /\ overlay' = Merged(patch)
    /\ told' = Over(patch, told)
    /\ UNCHANGED unread

\* The temporary file cannot be written, or cannot replace the other.
FlagsFail(patch) == patch \in Overlays /\ UNCHANGED flagVars

\* The process dies after the file was replaced; nobody had an answer.
FlagsDie(patch) ==
    /\ saved' = Merged(patch)
    /\ told' = Except(told, DOMAIN patch)
    /\ UNCHANGED <<overlay, unread>>

\* load
LoadFlags(readable) ==
    /\ overlay' = IF readable THEN saved ELSE NoOverlay
    /\ told' = IF readable THEN told ELSE NoOverlay
    /\ unread' = ~readable
    /\ UNCHANGED saved

(* The type of the overlay's state, a part of the composition's.           *)
FlagsTypeOK ==
    /\ overlay \in Overlays /\ saved \in Overlays /\ told \in Overlays
    /\ unread \in BOOLEAN
=============================================================================
