--------------------------- MODULE MCBudgetLedger ---------------------------
(* A small instance of BudgetLedger: one capped key besides calls without  *)
(* identity, a priced model and one without a price.                       *)
EXTENDS BudgetLedger, TLC

CONSTANTS k1, gateway, r1, r2, loop, worker

MCCap == [b \in Buckets |->
            CASE b = <<gateway, "tokens">> -> 4
              [] b = <<gateway, "usd">>    -> 2
              [] b = <<k1, "tokens">>      -> 3
              [] OTHER                     -> NoCap]

Pay(tokens, usd) == [m \in Meters |-> IF m = "tokens" THEN tokens ELSE usd]

MCRequests ==
    {[who |-> k1,      charge |-> Pay(2, 1), priced |-> TRUE],
     [who |-> gateway, charge |-> Pay(1, 0), priced |-> FALSE]}

MCUses == {Pay(1, 1), Pay(3, 1)}

RidSymmetry == Permutations(Rids)
=============================================================================
