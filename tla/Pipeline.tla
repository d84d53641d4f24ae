------------------------------ MODULE Pipeline ------------------------------
(***************************************************************************)
(* What one turn of ChatService (app/application/chat.py) does to its      *)
(* messages and to the answer, from the request to the last chunk: the     *)
(* named prompt, redaction, memories, guards, the provider, the checks of  *)
(* the answer, its schema, what is remembered and what the client is told, *)
(* as a JSON answer or through encode_openai.  ChatTurn has the same steps *)
(* as they interleave with other turns and with the ledger; here they are  *)
(* followed for what they do to the text.                                  *)
(*                                                                         *)
(* A message is its role and whether its text is blank, free of personal   *)
(* data (clean) or not (raw).  Presidio, Langfuse, Mem0, the classifiers   *)
(* and the provider are external.                                          *)
(***************************************************************************)
EXTENDS Guards, OpenAIStream, FiniteSets

CONSTANTS
    Conversations,  \* the messages clients send
    Prompts,        \* what named prompts compile to
    FlagSettings    \* the runtime flags looked at

Message == [role : Roles, text : Texts]
Flags == [pii : BOOLEAN, memory : BOOLEAN,
          guard : BOOLEAN, injection : BOOLEAN, content : BOOLEAN]

ASSUME PipelineAssumption ==
    /\ Conversations \subseteq Seq(Message)
    /\ Prompts \subseteq Seq(Message) \ {<<>>}
    /\ FlagSettings \subseteq Flags

VARIABLES
    streams,    \* the client asked for a stream
    format,     \* type of response_format, or none
    prompt,     \* what the prompt that was named compiles to, or nothing
    given,      \* the client's messages
    flags,      \* the flags when the turn began
    nemotron,   \* the injection model is a content-safety model
    known,      \* guards.content_ignore has no unknown category
    pc,
    messages,   \* outgoing
    scans,      \* classifier calls that have not answered
    answer,     \* the assistant's text
    body,       \* what a structured answer is as JSON
    status,     \* HTTP status of a JSON answer; 0 is none yet
    \* History variables.
    sent,       \* what the classifiers and the provider were given
    billed,     \* the usage of the answer was recorded
    alarm,      \* a classifier did not call its text harmless
    remembered  \* the texts memory was given

asked == <<streams, format, prompt, given, flags, nemotron, known>>
past  == <<sent, billed, alarm, remembered>>
pipelineVars ==
    <<asked, pc, messages, scans, answer, body, status, encoder, past>>

Formats == {"none", "json_object", "json_schema"}

(* A structured answer: what it reads as within its wrapping (a Markdown   *)
(* fence, or blanks that JSON does not know), no JSON, JSON, or JSON that  *)
(* matches the schema; and whether it comes in such a wrapping.            *)
Body == [reads : {"text", "json", "matches"}, wrapped : BOOLEAN]

Nothing == [guard |-> <<>>, provider |-> <<>>]

PipelineInit ==
    /\ streams \in BOOLEAN /\ format \in Formats
    /\ prompt \in Prompts \cup {<<>>}
    /\ flags \in FlagSettings /\ nemotron \in BOOLEAN /\ known \in BOOLEAN
    /\ given \in Conversations /\ messages = given
    /\ pc = "arrived" /\ scans = {} /\ answer = "blank" /\ status = 0
    /\ EncoderInit
    /\ sent = Nothing /\ billed = FALSE /\ alarm = FALSE
    /\ body = [reads |-> "text", wrapped |-> FALSE] /\ remembered = {}

-----------------------------------------------------------------------------
(* Failures.                                                               *)

\* classify and as_http; an error they do not know is a 500.
Status(error) ==
    CASE error \in {"prompt", "model", "large", "blocked", "schema", "bad"} -> 400
      [] error \in {"unauthorized"}                                       -> 401
      [] error \in {"budget"}                                             -> 402
      [] error \in {"rate"}                                               -> 429
      [] error \in {"api"}                                                -> 502
      [] error \in {"misconfigured"}                                      -> 503
      [] OTHER                                                            -> 500

ProviderErrors == {"unauthorized", "rate", "bad", "api", "other"}

\* The turn ends: a status, or an error chunk.
Fail(error) ==
    /\ pc' = "over" /\ scans' = {}
    /\ IF streams THEN OnError /\ UNCHANGED status
                  ELSE status' = Status(error) /\ UNCHANGED encoder
    /\ UNCHANGED <<asked, messages, answer, body>>

Go(from, to) == pc = from /\ pc' = to

-----------------------------------------------------------------------------
(* The named prompt.                                                       *)

\* _load_local_record, _messages_from_local: a file with messages in it,
\* one without any that can be used, or none that can be read.
Local == {"usable", "unusable", "none"}

\* Langfuse is not set up, has the prompt, has one without messages, cannot
\* be reached, or its SDK raises whatever it is given.
Remote == {"off", "found", "empty", "unreachable", "raises"}

\* _fallback_chat, for a file without messages: "You are a helpful assistant."
Assistant == <<[role |-> "system", text |-> "clean"]>>

(* resolve_prompt.  The SDK is given the local copy as its fallback; when  *)
(* it raises all the same the copy is used directly.  A prompt that        *)
(* compiles to no messages is unknown, and so is one that is nowhere.      *)
Found(remote, local) ==
    CASE remote = "found"            -> TRUE
      [] remote = "empty"            -> FALSE
      [] remote = "unreachable"      -> local # "none"
      [] remote \in {"off", "raises"} -> local = "usable"

Compiled(remote, local) ==
    IF remote = "unreachable" /\ local = "unusable" THEN Assistant ELSE prompt

Prepend(ms) ==
    /\ Go("arrived", "compiled")
    /\ messages' = ms \o messages
    /\ UNCHANGED <<asked, scans, answer, body, status, encoder, past>>

\* Mutant: a prompt that is not found is left out.
CompileAnyway(remote, local) ==
    Prepend(IF prompt # <<>> /\ Found(remote, local)
            THEN Compiled(remote, local) ELSE <<>>)

\* prepare_messages
Compile(remote, local) ==
    /\ pc = "arrived" /\ ~(streams /\ format # "none")
    /\ IF prompt = <<>> THEN Prepend(<<>>)
       ELSE IF Found(remote, local) THEN Prepend(Compiled(remote, local))
       ELSE Fail("prompt") /\ UNCHANGED past

(* normalize_response_format, and structured output cannot be streamed.    *)
(* The route refuses before the stream begins, so with a status.           *)
Malformed ==
    /\ Go("arrived", "over") /\ format # "none"
    /\ status' = Status("schema")
    /\ UNCHANGED <<asked, messages, scans, answer, body, encoder, past>>

-----------------------------------------------------------------------------
(* Redaction and memories.                                                 *)

\* _latest_user_text
LatestUser(ms) ==
    LET said == {i \in DOMAIN ms : ms[i].role = "user" /\ ms[i].text # "blank"}
    IN IF said = {} THEN "blank" ELSE ms[Max(said)].text

Redacted(text) == IF text = "raw" THEN "clean" ELSE text

RedactAt(ms, i) == [ms EXCEPT ![i].text = Redacted(@)]

RedactAll(ms) == [i \in DOMAIN ms |-> [ms[i] EXCEPT !.text = Redacted(@)]]

\* redact_messages
Redact ==
    /\ Go("compiled", "redacted")
    /\ messages' = IF flags.pii THEN RedactAll(messages) ELSE messages
    /\ UNCHANGED <<asked, scans, answer, body, status, encoder, past>>

\* inject_memories: behind the system messages at the beginning.
Lead(ms) ==
    Max({i \in 0 .. Len(ms) : \A j \in 1 .. i : ms[j].role = "system"})

Injected(ms, text) ==
    InsertAt(ms, Lead(ms) + 1, [role |-> "system", text |-> text])

\* Mutant: the block is taken for the first message.
FirstIndex(before, after) == 1

\* _injected_message_index: the first message that is another one.
InjectedIndex(before, after) ==
    Min({i \in DOMAIN before : before[i] # after[i]} \cup {Len(after)})

WithMemory(ms, text) ==
    LET after == Injected(ms, text)
    IN IF flags.pii THEN RedactAt(after, InjectedIndex(ms, after)) ELSE after

(* attach: nothing is searched for without a question, and a search that   *)
(* fails finds nothing.  Of what it adds only the block is redacted.       *)
Attach ==
    /\ Go("redacted", "ready")
    /\ \/ /\ flags.memory /\ LatestUser(messages) # "blank"
          /\ \E text \in {"clean", "raw"} : messages' = WithMemory(messages, text)
       \/ UNCHANGED messages
    /\ UNCHANGED <<asked, scans, answer, body, status, encoder, past>>

-----------------------------------------------------------------------------
(* The guards.  Classifiers work side by side; the first bad verdict ends  *)
(* the turn.                                                               *)

\* Mutant: the guard looks at what the client sent.
ScreenGiven == given

\* assert_inbound
ToScreen == messages

\* _ensure_scanners, then the calls go out.
Screen(chunks) ==
    /\ pc = "ready"
    /\ IF ~Scannable(flags, known)
       THEN Fail("misconfigured") /\ UNCHANGED past
       ELSE /\ pc' = "screening"
            /\ scans' = IF flags.guard THEN Inbound(ToScreen, flags, chunks) ELSE {}
            /\ sent' = [sent EXCEPT !.guard = IF flags.guard THEN ToScreen ELSE <<>>]
            /\ UNCHANGED <<asked, messages, answer, body, status, encoder>>
            /\ UNCHANGED <<billed, alarm, remembered>>

\* _classify and the verdict.
Classified(scan, a) ==
    /\ scan \in scans
    /\ alarm' = (alarm \/ ~Harmless(scan, a))
    /\ IF VerdictOf(scan, a, nemotron) = "passed"
       THEN /\ scans' = scans \ {scan}
            /\ UNCHANGED <<asked, pc, messages, answer, body, status, encoder>>
       ELSE Fail(VerdictOf(scan, a, nemotron))
    /\ UNCHANGED <<sent, billed, remembered>>

\* The call fails or says nothing, or the guard's model is unknown.
ClassifierFails ==
    /\ scans # {} /\ Fail("misconfigured") /\ UNCHANGED past

Screened ==
    /\ scans = {}
    /\ Go("screening", "passed") \/ Go("vetting", "vetted")
    /\ UNCHANGED <<asked, messages, scans, answer, body, status, encoder, past>>

-----------------------------------------------------------------------------
(* The provider.                                                           *)

\* resolve_model, max_input_tokens, assert_rpm, reserve.
TurnAway ==
    /\ pc = "passed"
    /\ \E error \in {"model", "large", "rate", "budget"} : Fail(error)
    /\ UNCHANGED past

\* Mutant: the estimate is charged for good when the call is made.
AdmitCharged ==
    /\ Go("passed", "calling")
    /\ sent' = [sent EXCEPT !.provider = messages]
    /\ billed' = TRUE
    /\ IF streams THEN OnStarted ELSE UNCHANGED encoder
    /\ UNCHANGED <<asked, messages, scans, answer, body, status>>
    /\ UNCHANGED <<alarm, remembered>>

\* The estimate is reserved; a stream begins.
Admit ==
    /\ Go("passed", "calling")
    /\ sent' = [sent EXCEPT !.provider = messages]
    /\ IF streams THEN OnStarted ELSE UNCHANGED encoder
    /\ UNCHANGED <<asked, messages, scans, answer, body, status>>
    /\ UNCHANGED <<billed, alarm, remembered>>

\* buffer_output
Buffered == flags.pii \/ ContentOn(flags)

Joined(s, t) ==
    CASE "raw" \in {s, t}   -> "raw"
      [] "clean" \in {s, t} -> "clean"
      [] OTHER              -> "blank"

\* A chunk of the provider's stream.  Bound: three chunks on the wire.
Delta(text) ==
    /\ streams /\ pc = "calling" /\ Len(wire) < 3
    /\ answer' = Joined(answer, text)
    /\ IF Buffered THEN UNCHANGED encoder ELSE OnDelta(text)
    /\ UNCHANGED <<asked, pc, messages, scans, body, status, past>>

ProviderFails ==
    /\ pc = "calling"
    /\ \E error \in ProviderErrors : Fail(error)
    /\ UNCHANGED past

\* What a model, or the redaction, makes of a structured answer: anything.
Written(text) ==
    IF format = "none" THEN UNCHANGED body
    ELSE body' \in {b \in Body : text = "blank" => b.reads = "text"}

\* record_usage; an answer from the cache costs nothing.
Answered ==
    /\ Go("calling", "billed")
    /\ IF streams THEN billed' = TRUE /\ UNCHANGED answer
                  ELSE billed' \in BOOLEAN /\ answer' \in Texts
    /\ Written(answer')
    /\ UNCHANGED <<asked, messages, scans, status, encoder>>
    /\ UNCHANGED <<sent, alarm, remembered>>

-----------------------------------------------------------------------------
(* The checks of the answer, and what becomes of it.                       *)

\* redact_text
Final == IF flags.pii THEN Redacted(answer) ELSE answer

(* Redaction, which may spoil a structured answer, then assert_outbound;   *)
(* its scanners are checked again.                                         *)
Vet ==
    /\ Go("billed", "vetting")
    /\ answer' = Final
    /\ IF Final = answer THEN UNCHANGED body ELSE Written(Final)
    /\ scans' = Outbound(Final, flags)
    /\ UNCHANGED <<asked, messages, status, encoder, past>>

\* Presidio or its model is missing, or fails.
RedactionFails ==
    /\ flags.pii
    /\ pc \in {"compiled", "billed"} \/ (pc = "redacted" /\ flags.memory)
    /\ Fail("misconfigured") /\ UNCHANGED past

\* _parse_json: the wrapping is stripped.
Parsed(b) == b.reads

\* What a client's own parser makes of the text as it is delivered.
AsSent(b) == IF b.wrapped THEN "text" ELSE b.reads

Accepted(reads) ==
    reads = "matches" \/ (reads = "json" /\ format = "json_object")

\* validate_output: what is inside the wrapping is checked.
Validate ==
    /\ pc = "vetted" /\ format # "none"
    /\ IF Accepted(Parsed(body))
       THEN /\ pc' = "valid"
            /\ UNCHANGED <<asked, messages, scans, answer, body, status, encoder>>
       ELSE Fail("schema")
    /\ UNCHANGED past

\* schedule_record: the latest question and the answer, if there are both.
Remember ==
    LET turn == {LatestUser(messages), answer}
    IN remembered' = IF flags.memory /\ "blank" \notin turn THEN turn ELSE {}

\* Mutant: the schema is not waited for.
ReadyUnchecked == pc = "vetted"

Ready == pc = IF format = "none" THEN "vetted" ELSE "valid"

\* wrap_chat_response, or the response of /chat as it is.
Respond == pc' = "over" /\ status' = 200 /\ UNCHANGED encoder

(* The answer is delivered: as a JSON answer, or the rest of a stream that *)
(* was held back.                                                          *)
Deliver ==
    /\ Ready
    /\ Remember
    /\ IF streams
       THEN /\ pc' = "closing" /\ UNCHANGED status
            /\ IF Buffered THEN OnDelta(answer) ELSE UNCHANGED encoder
       ELSE Respond
    /\ UNCHANGED <<asked, messages, scans, answer, body>>
    /\ UNCHANGED <<sent, billed, alarm>>

Close ==
    /\ \/ Go("closing", "finishing") /\ OnUsage
       \/ Go("finishing", "over") /\ OnFinished
    /\ UNCHANGED <<asked, messages, scans, answer, body, status, past>>

Over == pc = "over" /\ UNCHANGED pipelineVars

PipelineNext ==
    \/ \E remote \in Remote, local \in Local : Compile(remote, local)
    \/ Malformed \/ Redact \/ Attach \/ RedactionFails
    \/ \E chunks \in {{"first"}, {"first", "second"}} : Screen(chunks)
    \/ \E scan \in scans, a \in Answers : Classified(scan, a)
    \/ ClassifierFails \/ Screened \/ TurnAway \/ Admit
    \/ \E text \in Texts : Delta(text)
    \/ ProviderFails \/ Answered \/ Vet
    \/ Validate \/ Deliver \/ Close \/ Over

PipelineSpec == PipelineInit /\ [][PipelineNext]_pipelineVars

-----------------------------------------------------------------------------
(* The type invariant.                                                     *)
PipelineTypeOK ==
    /\ flags \in Flags /\ given \in Conversations /\ format \in Formats
    /\ \A ms \in {messages, sent.guard, sent.provider} : ms \in Seq(Message)
    /\ answer \in Texts /\ body \in Body
    /\ remembered \subseteq Texts
    /\ wire \in Seq([is : {"role", "text", "finish", "usage", "error", "done"},
                     text : Texts])
    /\ scans # {} => pc \in {"screening", "vetting"}

(* A turn that is over has told its client how it ended, once: by a status *)
(* and a body, or by a stream of the form that an OpenAI client can read.  *)
ToldOnce ==
    /\ PipelineTypeOK /\ WireGrammar
    /\ pc = "over" <=> (status # 0 \/ \E chunk \in ToSet(wire) : chunk.is = "done")
    /\ status = 0 \/ wire = <<>>

(* With redaction on no personal data is in anything that leaves: to the   *)
(* classifiers, to the provider, to memory or to the client, wherever it   *)
(* came from: the conversation, a prompt, a memory or the answer.          *)
NothingRaw ==
    flags.pii =>
        /\ \A m \in ToSet(sent.guard \o sent.provider) \cup ToSet(wire) : m.text # "raw"
        /\ status = 200 => answer # "raw"
        /\ "raw" \notin remembered

(* The guard is handed the very messages that the provider is given, with  *)
(* the named prompt and the memories in them.                              *)
ScreenedIsSent ==
    flags.guard /\ sent.provider # <<>> => sent.guard = sent.provider

(* The guard fails closed: an answer of a classifier that is not plainly   *)
(* harmless ends the turn, and nothing of it is delivered or remembered.   *)
FailClosed ==
    alarm => /\ pc = "over" /\ status # 200 /\ remembered = {}
             /\ \A chunk \in ToSet(wire) : chunk.is # "finish"
             /\ flags.content => \A chunk \in ToSet(wire) : chunk.is # "text"

Alike(m, n) == m.role = n.role /\ Redacted(m.text) = Redacted(n.text)

(* The provider is given the prompt that was named (or, for a local copy   *)
(* without messages, the assistant's) and the whole conversation, in       *)
(* order, and at most one block of memories, behind the system messages    *)
(* they begin with.                                                        *)
ConversationKept ==
    LET got == sent.provider
        Kept(ms, want) ==
            Len(ms) = Len(want) /\ \A i \in DOMAIN ms : Alike(ms[i], want[i])
        Wanted == {lead \o given :
            lead \in {prompt} \cup IF prompt = <<>> THEN {} ELSE {Assistant}}
    IN got # <<>> => \E want \in Wanted :
         \/ Kept(got, want)
         \/ LET i == Lead(want) + 1
            IN /\ i \in DOMAIN got /\ got[i].role = "system"
               /\ Kept(RemoveAt(got, i), want)

(* A structured answer that is delivered or remembered matches what was    *)
(* asked for as it then is, with all that redaction made of it.  It goes   *)
(* out as it was checked but for its wrapping: a client's own parser finds *)
(* a match in it, or the match is inside a wrapping.                       *)
DeliveredIsValid ==
    format # "none" /\ (status = 200 \/ remembered # {}) =>
        \/ Accepted(AsSent(body))
        \/ body.wrapped /\ Accepted(Parsed(body))

(* A client that is told to authenticate, to pay, to wait or to blame the  *)
(* provider has not been charged for an answer (the guard's calls before   *)
(* it have been paid for).                                                 *)
CheapRefusals == status \in {401, 402, 429, 502} => ~billed
=============================================================================
