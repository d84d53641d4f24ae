---------------------------- MODULE OpenAIStream ----------------------------
(***************************************************************************)
(* encode_openai (app/api/encoders/openai.py): the stream events of        *)
(* ChatService turned into the chunks of an OpenAI client, one event at a  *)
(* time, as the client asks for more.                                      *)
(*                                                                         *)
(* A chunk is what it carries: the role, a piece of text, the finish       *)
(* reason, the usage, an error or the end mark.  The models that chunks    *)
(* name are those of Routing, and StreamFallback does no more than change  *)
(* the name.  The branch for events that end without StreamFinished is     *)
(* left out: ChatService.stream ends with it or raises.                    *)
(***************************************************************************)
EXTENDS Sequences, Integers

VARIABLES
    wire,       \* the chunks sent
    usage       \* usage_event: StreamUsage has come

encoder == <<wire, usage>>

Chunk(is) == [is |-> is, text |-> "blank"]

EncoderInit == wire = <<>> /\ usage = FALSE

Sends(chunks) == wire' = wire \o chunks /\ UNCHANGED usage

OnStarted == Sends(<<Chunk("role")>>)

\* A delta without content sends nothing.
OnDelta(text) ==
    Sends(IF text = "blank" THEN <<>> ELSE <<[is |-> "text", text |-> text]>>)

OnUsage == usage' = TRUE /\ UNCHANGED wire

Finish == <<Chunk("finish")>> \o IF usage THEN <<Chunk("usage")>> ELSE <<>>

OnFinished == Sends(Finish \o <<Chunk("done")>>)

\* Mutant: the exception is left to the server, which cuts the connection.
OnErrorSilent == UNCHANGED encoder

OnError == Sends(<<Chunk("error"), Chunk("done")>>)

-----------------------------------------------------------------------------
(* What a client of the OpenAI interface can read: the role, then text,    *)
(* and either the finish reason and the usage or an error, once, and the   *)
(* end mark last and once; an error may come before the role.              *)
WireGrammar ==
    /\ \A i, j \in DOMAIN wire : i < j =>
         /\ wire[i].is # "done"
         /\ wire[j].is # "role"
         /\ wire[j].is = "text" => wire[i].is \in {"role", "text"}
         /\ wire[i].is = "error" => wire[j].is = "done"
         /\ wire[i].is = "finish" => wire[j].is \in {"usage", "done"}
         /\ wire[i].is = "usage" => wire[j].is = "done"
    /\ wire # <<>> => wire[1].is \in {"role", "error"}
    /\ \A i \in DOMAIN wire : wire[i].is = "done" =>
         i > 1 /\ wire[i - 1].is \in {"usage", "error"}
=============================================================================
