--------------------------- MODULE MCSharedBudget ---------------------------
(* Two gateway processes, one capped key and calls without identity.       *)
EXTENDS SharedBudget, TLC

CONSTANTS k1, gateway, w1, w2, r1, r2, r3

MCCap == [a \in {k1, gateway} |-> IF a = gateway THEN 4 ELSE 2]

MCRequests == {[who |-> k1, charge |-> 2]}

MCSymmetry == Permutations(Workers) \cup Permutations(Rids)
=============================================================================
