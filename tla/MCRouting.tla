------------------------------ MODULE MCRouting ------------------------------
(* A chat and a status request, two upstream lists and the static table of *)
(* a failure.  One short name has a model with either provider.            *)
EXTENDS Routing

CONSTANTS chat, status, a1, a2, b1, embed

MCProvider == [m \in Models |-> IF m = b1 THEN "b" ELSE "a"]
MCName == [m \in Models |-> CASE m \in {a1, b1} -> "one" [] m = a2 -> "two"
                              [] OTHER -> "embed"]
MCListing == [v \in Failed .. MaxVersion |->
    CASE v = Failed -> {a1} [] v = 1 -> {a1, a2, embed} [] OTHER -> {a2, b1}]
MCSetups == {<<"same-provider", FALSE>>, <<"allowlist", TRUE>>}
MCAllowed == {"one", a2, embed}
MCRequest == {a1}
=============================================================================
