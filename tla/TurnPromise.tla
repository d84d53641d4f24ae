---------------------------- MODULE TurnPromise ----------------------------
(***************************************************************************)
(* What the gateway promises for one turn (a chat completion, a streamed   *)
(* chat or an embedding), as its client and its auditor see it: the text   *)
(* that reached the client and what became of the estimate held on its     *)
(* budget.  ChatTurn implements this specification.                        *)
(*                                                                         *)
(* A turn whose text is passed on as it is produced is paid for when the   *)
(* text has ended: its client may have the whole of it and leave unpaid.   *)
(* Every other turn is paid for before any of its text is shown.           *)
(***************************************************************************)
CONSTANTS Turns

VARIABLES
    phase,  \* turn -> waiting, running, or how it ended
    live,   \* turns whose text is passed on as it is produced
    text,   \* turn -> none, part or all of the answer is with the client
    money   \* turn -> none, held, charged, free (cached), returned or lost

vars == <<phase, live, text, money>>

Ended == {"refused", "answered", "failed", "gone"}

Init ==
    /\ phase = [t \in Turns |-> "waiting"]
    /\ live  = {}
    /\ text  = [t \in Turns |-> "none"]
    /\ money = [t \in Turns |-> "none"]

\* How its text will be passed on is settled before anything is held.
Begin(t) ==
    /\ phase[t] = "waiting"
    /\ live' \in {live \cup {t}, live \ {t}}
    /\ UNCHANGED <<phase, text, money>>

\* Turned away, or the client left, before anything was held.
Refuse(t) ==
    /\ phase[t] = "waiting"
    /\ \E end \in {"refused", "gone"} : phase' = [phase EXCEPT ![t] = end]
    /\ UNCHANGED <<live, text, money>>

Admit(t) ==
    /\ phase[t] = "waiting"
    /\ phase' = [phase EXCEPT ![t] = "running"]
    /\ money' = [money EXCEPT ![t] = "held"]
    /\ UNCHANGED <<live, text>>

Paid(t) == money[t] \in {"charged", "free"}

\* Part of the text, or all of it, while the estimate is held, where the
\* text is passed on as it is produced; otherwise all of it, when it is paid.
Show(t) ==
    /\ phase[t] = "running"
    /\ \/ /\ t \in live /\ text[t] # "all"
          /\ \E shown \in {"part", "all"} : text' = [text EXCEPT ![t] = shown]
       \/ /\ Paid(t)
          /\ text' = [text EXCEPT ![t] = "all"]
    /\ UNCHANGED <<phase, live, money>>

Pay(t) ==
    /\ phase[t] = "running"
    /\ money[t] = "held"
    /\ \E how \in {"charged", "free"} : money' = [money EXCEPT ![t] = how]
    /\ UNCHANGED <<phase, live, text>>

\* An answer is complete, and paid for.
Answer(t) ==
    /\ phase[t] = "running"
    /\ \/ Paid(t) /\ UNCHANGED money
       \/ /\ money[t] = "held"
          /\ money' = [money EXCEPT ![t] = "charged"]
    /\ phase' = [phase EXCEPT ![t] = "answered"]
    /\ text' = [text EXCEPT ![t] = "all"]
    /\ UNCHANGED live

\* A turn that breaks off after it was paid stays paid; before that its
\* estimate goes back, or is lost to the day.
BreakOff(t) ==
    /\ phase[t] = "running"
    /\ \E end \in {"failed", "gone"} : phase' = [phase EXCEPT ![t] = end]
    /\ \/ Paid(t) /\ UNCHANGED money
       \/ /\ money[t] = "held"
          /\ \E how \in {"returned", "lost"} :
                money' = [money EXCEPT ![t] = how]
    /\ UNCHANGED <<live, text>>

\* The process dies: every turn under way is gone, some before admission.
Crash ==
    /\ \E waiting \in SUBSET {t \in Turns : phase[t] = "waiting"} :
          phase' = [t \in Turns |->
                      IF phase[t] = "running" \/ t \in waiting THEN "gone"
                                                              ELSE phase[t]]
    /\ money' = [t \in Turns |-> IF phase[t] = "running" /\ money[t] = "held"
                                 THEN "lost" ELSE money[t]]
    /\ UNCHANGED <<live, text>>

Next ==
    \/ \E t \in Turns : \/ Begin(t) \/ Refuse(t) \/ Admit(t) \/ Show(t) \/ Pay(t)
                        \/ Answer(t) \/ BreakOff(t)
    \/ Crash

Spec == Init /\ [][Next]_vars
=============================================================================
