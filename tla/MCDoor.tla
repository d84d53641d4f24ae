------------------------------- MODULE MCDoor -------------------------------
(* A small instance of Door: two requests under way, the bootstrap key and *)
(* one more, a setting with all scopes and one for administrators of keys. *)
EXTENDS Door, TLC

CONSTANTS default, k1, all, keysOnly, guard, memory, r1, r2

MCGranted == (all :> {"read", "chat", "config", "admin"})
          @@ (keysOnly :> {"admin"})
MCDefaults == (guard :> TRUE) @@ (memory :> FALSE)
MCPatches == {guard :> FALSE, memory :> TRUE}

Alike == Permutations({r1, r2})
=============================================================================
