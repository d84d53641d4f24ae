----------------------------- MODULE MCChatTurn -----------------------------
(* A small instance of ChatTurn: a plain chat or an embedding of one key   *)
(* beside a streamed chat of the same key.                                 *)
EXTENDS ChatTurn, TLC

CONSTANTS k1, gateway, t1, t2

MCCap == [b \in {k1, gateway} \X {"tokens", "usd"} |->
            CASE b = <<gateway, "tokens">> -> 3
              [] b = <<k1, "tokens">>      -> 2
              [] OTHER                     -> -1]

Pay(tokens, usd) ==
    [m \in {"tokens", "usd"} |-> IF m = "tokens" THEN tokens ELSE usd]

\* The estimate of a prompt is one token; the answer takes a second one.
MCWant == (t1 :> [who |-> k1, charge |-> Pay(1, 0), priced |-> FALSE])
       @@ (t2 :> [who |-> k1, charge |-> Pay(1, 0), priced |-> FALSE])
MCUses == {Pay(2, 0)}

MCKinds == (t1 :> {"complete", "embed"}) @@ (t2 :> {"stream"})

\* With and without redaction and guards; memory is on.
MCFlags == {[pii |-> on, guard |-> on, memory |-> TRUE] : on \in BOOLEAN}
=============================================================================
