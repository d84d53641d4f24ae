---------------------------- MODULE ChatConsole ----------------------------
(***************************************************************************)
(* A streamed chat between the gateway's native encoder                    *)
(* (app/api/encoders/native.py) and the console: the frames on the wire,   *)
(* the reader that puts them together again from chunks cut anywhere       *)
(* (web/lib/chatClient.ts, web/lib/sseParser.ts) and the session that      *)
(* keeps the messages to send and the log to show                          *)
(* (web/hooks/useChatSession.ts).                                          *)
(*                                                                         *)
(* A frame is a body and two line ends; a chunk is any number of these     *)
(* tokens.  A cut inside a body is the cut before it: the parser looks for *)
(* the blank line only.                                                    *)
(*                                                                         *)
(* Left out: what the labels beside an answer say, the prompt for a key    *)
(* after a 401, and the page being closed, which ends the session.         *)
(***************************************************************************)
EXTENDS Integers, Sequences, FiniteSets

CONSTANTS MaxTurns,    \* how often the user sends
          MaxDeltas,   \* pieces of text in an answer
          MaxReports   \* errors reported from outside the session

ASSUME BoundsAssumption == {MaxTurns, MaxDeltas, MaxReports} \subseteq Nat

VARIABLES server,     \* where the generator behind encode_native stands
          produced,   \* how many pieces of text it has sent
          wire,       \* tokens sent and not read yet
          conn,       \* the fetch: none, waiting, refused, open or ended
          buffer,     \* streamChat's buffer
          reply,      \* the text put together so far
          busy,       \* the hook's busy
          turn,       \* the number of the latest send
          asked,      \* nextMessages of the latest send
          messages,   \* the conversation the next send will carry
          log,        \* the rows on the page
          reports,    \* errors reported so far
          since,      \* history: the latest turn of the chat before this one
          how,        \* history: how the server's part of each turn went
          hit         \* history: turns during which an error was reported

session == <<busy, turn, asked, messages, log>>
notes == <<reports, since, hit>>
vars == <<server, produced, wire, conn, buffer, reply, session, notes, how>>

Turns == 1..MaxTurns
Texts == UNION {[1..n -> 0..MaxDeltas] : n \in 0..MaxDeltas}

Token(kind, n) == [kind |-> kind, n |-> n]
NL == Token("nl", 0)
Row(kind, t, text) == [kind |-> kind, turn |-> t, text |-> text]
Message(role, t, text) == [role |-> role, turn |-> t, text |-> text]
Intro == <<Row("system", 0, <<>>)>>
\* What the session writes for an answer without text, "(empty response)".
EmptyResponse == <<0>>

\* The k-th of a set of numbers, and what a sequence holds at the positions in
\* a set, in order.
Nth(S, k) == CHOOSE i \in S : Cardinality({j \in S : j <= i}) = k
Picked(s, S) == [k \in 1..Cardinality(S) |-> s[Nth(S, k)]]

----------------------------------------------------------------------------
(* The encoder's frames and the console's parser.                          *)

Frame(body) == <<body, NL, NL>>

Blank(b, i) == i > 1 /\ b[i] = NL /\ b[i - 1] = NL

\* The end of the last complete frame in a buffer, 0 if there is none.
LastBlank(b) ==
  LET ends == {i \in DOMAIN b : Blank(b, i)}
  IN  IF ends = {} THEN 0 ELSE CHOOSE i \in ends : \A j \in ends : j <= i

Complete(b) == SubSeq(b, 1, LastBlank(b))

\* The variant that forgets the unfinished part.
RestDropped(b) == <<>>

Rest(b) == SubSeq(b, LastBlank(b) + 1, Len(b))

\* The events of complete frames: the first body of each.
Starts(b) == {i \in DOMAIN b : b[i] # NL /\ (i = 1 \/ Blank(b, i - 1))}
Events(b) == Picked(b, Starts(b))

\* An error frame is one only when its message is not empty (json.error).
IsError(event) == event.kind = "error" /\ event.n > 0

\* The events handled before the first error, and whether there is one.
Handled(events) ==
  LET errors == {i \in DOMAIN events : IsError(events[i])}
  IN  {i \in DOMAIN events : \A j \in errors : i < j}

\* The variant that lets an error pass.
ThrowsNever(events) == FALSE

Throws(events) == \E i \in DOMAIN events : IsError(events[i])

TextAt(tokens) == {i \in DOMAIN tokens : tokens[i].kind = "text"}
TextOf(tokens) ==
  LET texts == Picked(tokens, TextAt(tokens)) IN [k \in DOMAIN texts |-> texts[k].n]

----------------------------------------------------------------------------
(* The session's updates of the log.                                       *)

LastIsAnswer(rows) == rows[Len(rows)].kind = "assistant"

Shown(rows, text) ==
  IF LastIsAnswer(rows) THEN [rows EXCEPT ![Len(rows)].text = text] ELSE rows

WithError(rows) ==
  LET row == Row("error", turn, <<>>)
  IN  IF LastIsAnswer(rows) /\ rows[Len(rows)].text = <<>>
      THEN [rows EXCEPT ![Len(rows)] = row]
      ELSE Append(rows, row)

HangUp ==
  /\ conn' = "none"
  /\ wire' = <<>>
  /\ buffer' = <<>>

\* The variant of a session that stays busy after an error.
FailBusy(rows) ==
  /\ HangUp
  /\ log' = WithError(rows)
  /\ UNCHANGED <<busy, turn, asked, messages, notes>>

\* The catch and finally of onSend.
Fail(rows) ==
  /\ HangUp
  /\ log' = WithError(rows)
  /\ busy' = FALSE
  /\ UNCHANGED <<turn, asked, messages, notes>>

----------------------------------------------------------------------------
Init ==
  /\ server = "idle"
  /\ produced = 0
  /\ wire = <<>>
  /\ conn = "none"
  /\ buffer = <<>>
  /\ reply = <<>>
  /\ busy = FALSE
  /\ turn = 0
  /\ asked = <<>>
  /\ messages = <<>>
  /\ log = Intro
  /\ reports = 0
  /\ since = 0
  /\ how = [t \in Turns |-> [ended |-> "not", sent |-> 0]]
  /\ hit = {}

\* onSend up to its await: the user's row, an empty answer, and the request.
Send ==
  /\ ~busy
  /\ turn < MaxTurns
  /\ turn' = turn + 1
  /\ asked' = Append(messages, Message("user", turn', <<>>))
  /\ messages' = asked'
  /\ log' = log \o <<Row("user", turn', <<>>), Row("assistant", turn', <<>>)>>
  /\ busy' = TRUE
  /\ conn' = "waiting"
  /\ server' = "idle"
  /\ produced' = 0
  /\ reply' = <<>>
  /\ UNCHANGED <<wire, buffer, notes, how>>

\* The gateway's answer begins: 200 before anything of the stream ran, or a
\* refusal by the checks before it, whose body is still to be read.
Accept ==
  /\ conn = "waiting"
  /\ conn' = "open"
  /\ server' = "preflight"
  /\ UNCHANGED <<produced, wire, buffer, reply, session, notes, how>>

Refuse ==
  /\ conn = "waiting"
  /\ conn' = "refused"
  /\ how' = [how EXCEPT ![turn].ended = "failed"]
  /\ UNCHANGED <<server, produced, wire, buffer, reply, session, notes>>

\* encode_native, one event of ChatService.stream per step.
Emit(body) ==
  /\ conn = "open"
  /\ wire' = wire \o Frame(body)
  /\ UNCHANGED <<buffer, reply, session, notes>>

Started ==
  /\ server = "preflight"
  /\ server' = "streaming"
  /\ Emit(Token("meta", 0))
  /\ UNCHANGED <<produced, conn, how>>

Delta ==
  /\ server = "streaming"
  /\ produced < MaxDeltas
  /\ produced' = produced + 1
  /\ Emit(Token("text", produced'))
  /\ UNCHANGED <<server, conn, how>>

Usage ==
  /\ server = "streaming"
  /\ server' = "closing"
  /\ Emit(Token("meta", 0))
  /\ UNCHANGED <<produced, conn, how>>

Over(ending) ==
  /\ conn' = "ended"
  /\ server' = "idle"
  /\ how' = [how EXCEPT ![turn] = [ended |-> ending, sent |-> produced]]
  /\ UNCHANGED produced

Finished ==
  /\ server = "closing"
  /\ Emit(Token("done", 0))
  /\ Over("finished")

\* An exception becomes the last frame, without a terminator.  Its message
\* may be empty, as that of a timeout is.
Raises ==
  /\ server \in {"preflight", "streaming"}
  /\ \E n \in {0, 1} :
       /\ Emit(Token("error", n))
       /\ Over(IF n = 0 THEN "mute" ELSE "failed")

----------------------------------------------------------------------------
(* streamChat and the rest of onSend.                                      *)

\* The session hands the answer to the next turn and is free again.
Conclude(text) ==
  /\ HangUp
  /\ messages' = Append(asked, Message("assistant", turn, text))
  /\ busy' = FALSE
  /\ UNCHANGED <<turn, asked, notes>>

\* The variant that writes nothing for an answer without text.
SucceedQuietly(text) ==
  /\ Conclude(text)
  /\ log' = IF text = EmptyResponse THEN log ELSE Shown(log, text)

\* The answer to an end without an error.
Succeed(text) ==
  /\ Conclude(text)
  /\ log' = Shown(log, text)

\* What onEvent does with the events before an error.
Take(events) ==
  reply' = reply \o TextOf([i \in Handled(events) |-> events[i]])
Updated == IF reply' = reply THEN log ELSE Shown(log, reply')

\* One chunk: any part of what is on the wire.
Read ==
  /\ conn \in {"open", "ended"}
  /\ \E n \in 1..Len(wire) :
       LET b      == buffer \o SubSeq(wire, 1, n)
           events == Events(Complete(b))
       IN  /\ Take(events)
           /\ IF Throws(events)
              THEN Fail(Updated)
              ELSE /\ wire' = SubSeq(wire, n + 1, Len(wire))
                   /\ buffer' = Rest(b)
                   /\ log' = Updated
                   /\ UNCHANGED <<conn, busy, turn, asked, messages, notes>>
  /\ UNCHANGED <<server, produced, how>>

\* The stream has ended: flushSseBuffer, then the answer is complete.
ReadEnd ==
  /\ conn = "ended"
  /\ wire = <<>>
  /\ LET events == IF buffer = <<>> THEN <<>> ELSE Events(buffer \o <<NL, NL>>)
     IN  /\ Take(events)
         /\ IF Throws(events)
            THEN Fail(Updated)
            ELSE Succeed(IF reply' = <<>> THEN EmptyResponse ELSE reply')
  /\ UNCHANGED <<server, produced, how>>

\* A refusal's body was read, or could not be: both throw a GatewayError.
ReadRefusal ==
  /\ conn = "refused"
  /\ Fail(log)
  /\ UNCHANGED <<server, produced, reply, how>>

\* The connection breaks.  Chunks that were not read are lost with it.
Lose ==
  /\ conn \in {"waiting", "open", "ended"}
  /\ Fail(log)
  /\ server' = "idle"
  /\ how' = IF conn = "ended" THEN how
            ELSE [how EXCEPT ![turn] = [ended |-> "failed", sent |-> produced]]
  /\ UNCHANGED <<produced, reply>>

\* The variant that forgets to abort.
ResetOnly ==
  /\ messages' = <<>>
  /\ log' = Intro
  /\ since' = turn
  /\ UNCHANGED <<server, produced, wire, conn, buffer, reply, busy, turn,
                 asked, how, reports, hit>>

\* resetChat.  The abort ends the fetch before anything else runs; a refusal
\* whose body is cut off this way still throws its error, into the new log.
Reset ==
  /\ messages' = <<>>
  /\ log' = IF conn = "refused" THEN WithError(Intro) ELSE Intro
  /\ busy' = FALSE
  /\ HangUp
  /\ server' = "idle"
  /\ since' = turn
  /\ how' = IF conn \in {"waiting", "open"}
            THEN [how EXCEPT ![turn] = [ended |-> "left", sent |-> produced]]
            ELSE how
  /\ UNCHANGED <<produced, reply, turn, asked, reports, hit>>

\* reportError, called by the page when its own loading fails.
Report ==
  /\ reports < MaxReports
  /\ reports' = reports + 1
  /\ log' = Append(Picked(log, {i \in DOMAIN log : log[i].kind # "error"}),
                   Row("error", 0, <<>>))
  /\ hit' = IF busy THEN hit \union {turn} ELSE hit
  /\ UNCHANGED <<server, produced, wire, conn, buffer, reply, busy, turn,
                 asked, messages, since, how>>

Gateway == Accept \/ Refuse \/ Started \/ Delta \/ Usage \/ Finished \/ Raises
Reader == Read \/ ReadEnd \/ ReadRefusal
Next == Send \/ Gateway \/ Reader \/ Lose \/ Reset \/ Report

Spec == Init /\ [][Next]_vars
FairSpec == Spec /\ WF_vars(Gateway) /\ WF_vars(Reader)

----------------------------------------------------------------------------
Reading == conn \in {"open", "ended"}

\* Types, the hook is busy exactly while a request is under way, and a stream
\* that ended in order leaves no part of a frame behind.
TypeOK ==
  /\ server \in {"idle", "preflight", "streaming", "closing"}
  /\ conn \in {"none", "waiting", "refused", "open", "ended"}
  /\ produced \in 0..MaxDeltas
  /\ reply \in Texts
  /\ turn \in 0..MaxTurns
  /\ since \in 0..turn
  /\ hit \subseteq 1..turn
  /\ busy = (conn # "none")
  /\ conn = "ended" /\ wire = <<>> => buffer = <<>>

\* However the chunks are cut, the text put together, with what is still in
\* the buffer and on the wire, is what the encoder sent, in order and once
\* (sseParser.ts keeps the unfinished rest of a buffer).
Reassembled ==
  /\ TypeOK
  /\ Reading => reply \o TextOf(buffer) \o TextOf(wire) = [i \in 1..produced |-> i]

\* The conversation the next turn sends: an answer follows the question it
\* belongs to, is the whole text the gateway sent, and its turn did not fail;
\* the exception is a failure without a message, which the parser takes for
\* an ordinary payload.  Questions keep their order.
TranscriptHonest ==
  /\ \A i, j \in DOMAIN messages : i < j => messages[i].turn <= messages[j].turn
  /\ \A i \in DOMAIN messages : messages[i].role = "assistant" =>
       LET m == messages[i]
           whole == [k \in 1..how[m.turn].sent |-> k]
       IN  /\ i > 1 /\ messages[i - 1] = Message("user", m.turn, <<>>)
           /\ how[m.turn].ended \in {"finished", "mute"}
           /\ m.text = IF whole = <<>> THEN EmptyResponse ELSE whole
  /\ ~busy /\ messages # <<>> =>
       \/ messages[Len(messages)].role = "assistant"
       \/ log[Len(log)].kind = "error"

\* After "New chat" nothing of an earlier conversation is sent or shown
\* (resetChat aborts the stream).  An error row is excepted: see Reset.
StaysInConversation ==
  /\ \A i \in DOMAIN messages : messages[i].turn > since
  /\ \A i \in DOMAIN log :
       log[i].kind \in {"user", "assistant"} => log[i].turn > since

InLog(m) == \E i \in DOMAIN log : log[i] = Row("assistant", m.turn, m.text)
Answers == {messages[i] : i \in {j \in DOMAIN messages :
                                   messages[j].role = "assistant"}}

\* The answer that the next turn sends along is the one on the page, but for
\* turns during which the page reported an error of its own.
ShownAsSent == \A m \in Answers : m.turn \in hit \/ InLog(m)

\* USAGE_WALKTHROUGH.md:174, "if request succeeds, assistant response
\* appears with meta": the answer of a turn that finished is on the page.  reportError appends a
\* row, and the session writes to an assistant row only while it is the last.
AnswerAppears ==
  \A m \in Answers : how[m.turn].ended = "finished" => InLog(m)

\* A send is over in the end: with an answer, an error or a new chat.
BusyEnds == busy ~> ~busy
=============================================================================
