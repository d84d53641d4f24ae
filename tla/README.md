# ReaLLM: TLA+ models and proofs

ReaLLM is an LLM gateway: a FastAPI process (`src/app/`) that puts budgets,
issued keys, guards, redaction and memory in front of the providers LiteLLM
reaches, and a Next.js console (`src/web/`). This directory models the parts of
it that keep state and decide something, checks them with TLC on small
instances, and proves with TLAPS, for every instance, the invariants, the action
properties and the refinements of all nine of its specifications.

All line numbers below are of the files under `src/`.

## 1. The system

### How it runs

One process has one asyncio event loop. Three kinds of threads work beside it:

- the default executor, for Mem0 and redaction (`asyncio.to_thread` in
  `memory.py` and `pii.py`), and FastAPI's pool for synchronous dependencies
  (`auth.py`, `dependencies.py`: key lookup and the rate limit);
- one daemon thread at a time for the model catalog, and one for the names of
  remote prompts;
- LiteLLM's and Mem0's own.

Calls into the budget are synchronous, so the loop runs nothing else between
their first and last line; a memory thread may. With `REDIS_URL` several
processes share the budget; without it a second worker is refused at start
unless split budgets are allowed (`container.py`).

### Inventory

| Component | State it keeps | Operations | What makes it correct |
|---|---|---|---|
| File ledger, `budget.py` | `budget-state.json` (day, tokens and USD of the gateway and of each key), `_reservations` | `reserve`, `record_usage`, `release` | no estimate given back twice or forgotten; caps hold for admitted estimates; a new day starts at zero |
| Redis ledger and fallback, `budget.py`, `redis_health.py` | hashes per day, the remembered probe | `_reserve_redis`, `_record_redis`, `_get_redis`, `reachable`, `/ready` | caps hold across processes; the switch to the file is bounded; readiness tells the truth |
| Requests per minute, `budget.py` | aligned counters on Redis, `_rpm_hits` | `assert_rpm` | the limit holds in the window it is stated for |
| Chat turns, `chat.py`, `routes/openai.py` | the turn's reservation, buffered text | `complete`, `stream`, `openai_embeddings` | every estimate is settled once; nothing unvetted is shown; what is complete is paid |
| Guards, `guards.py` | none | injection and content checks, gathered | their calls are billed; what the provider gets was screened; any doubt blocks the turn |
| Memory, `memory.py` | the Mem0 instance, the bound identity, background tasks | `attach`, `search`, `add`, `delete`, `schedule_record`, `drain` | one instance; billed to the caller; only the owner deletes; drain ends |
| Issued keys, `identities.py` | records, `gateway-keys.json` | `create`, `patch`, `revoke`, `resolve`, `load` | reported changes survive; revoked stays revoked |
| Layer flags, `flags.py` | flags, overlay file | `snapshot`, `save_flags`, `apply_layer_patch`, `load` | a turn keeps the flags it started with; what an administrator was told is in force, also after a restart |
| Catalog, `catalog.py` | cached list, refresh flag | read, refresh, `resolve_model`, `fallback_from` | one refresh at a time; nothing older installed; the cache catches up; names stand for one model |
| Prompts, `prompts.py` | cached names, refresh flag | `prepare_messages`, list and refresh names | a turn is not sent without the prompt it names; as for the catalog |
| Router, `router.py` | the LiteLLM router and its signature, `litellm.cache` | `get_router`, `chat_fallback_ids`, `acompletion`, `aembedding`, `close` | model, router and fallbacks of one listing; the cache is the router's; no older router stays |
| Redaction, `pii.py` | analyser instances | `redact_text`, `redact_messages`, `redact_hits` | nothing that leaves is unredacted |
| Structured output, `structured.py` | none | `normalize_response_format`, `validate_output` | what is delivered and remembered matches, after redaction too |
| Encoders, `api/encoders/`, and the console's chat, `web/lib/sseParser.ts`, `chatClient.ts`, `useChatSession.ts` | frames in flight, the conversation sent and the log shown | encode, parse, send, abort, report an error | one end, told in a form the client reads; text arrives whole and in order; answers stay under their questions; what is sent on is what is shown |
| Authentication, `api/auth.py`, `dependencies.py`, `routes/admin.py`, `routes/config.py` | the identity of a request | authenticate, check scopes, change keys and layers | a revoked key and an unknown caller get no further, whatever changes in between |
| Start and stop, `container.py`, `bootstrap.py` | the wiring | `start`, `close` | no restart opens a closed gateway; drains before it closes |
| Settings, schemas, logging, metrics | none after start | pure | — |

### How the parts meet

- **Turn → ledger.** A turn reserves before the provider call and settles in
  `record_usage`, or in `release` from a `finally`. The reservation id is the
  only thing both know.
- **Turn → flags.** A turn takes one snapshot. Redaction and the outbound guard
  decide from it whether a stream is buffered.
- **Guard and memory → ledger.** Their own model calls are billed without a
  reservation, from the loop and from a memory thread.
- **Turn → memory.** A finished exchange becomes a background task; shutdown
  waits for it with a timeout.
- **Process → Redis → file.** Every budget call may change ledger halfway.
- **Turn → encoder → console.** Events become frames; an exception becomes the
  last frame. The session keeps two lists, what it sends and what it shows.
- **Request → keys → handler.** Authentication and scope check run in threads,
  the handler on the loop; the key store may change between them.
- **Administrator → keys, flags** while requests are under way.
- **Call → catalog → router.** A call reads the listing four times: to resolve
  its model, to choose fallbacks, to get a router, to name who answered. Refresh
  threads replace it in between, and a changed listing rebuilds the router.
- **Prompt, redaction, memory, guard → provider → redaction, guard, schema →
  client, memory.** Each works on what the one before left.

### What is hard here

- Settling is two sections of one lock: the reservation leaves the dictionary,
  then the file is read and rewritten. Other threads, a midnight, a failing
  write or a crash fit in between.
- An estimate can be booked on one day and settled on the next.
- A stream can be closed by its client at every `yield`.
- A Redis command may have worked although its reply was lost; two pipelines
  settle one call; the fallback repeats the whole change on the file.
- `RedisHealth` asks once and remembers.
- Guard calls run in `asyncio.gather`: the first exception leaves the others
  running, and billing.
- The memory extractor is one object whose identity is set per operation and
  read when a model call returns.
- Writes that fail after memory was changed.
- A router and a process-wide response cache are replaced while calls are under
  way, and building the new router may fail.
- Scopes are checked after authentication, keys can be made and revoked in
  between, and key file and flag file can be unreadable at the next start.
- The block of memories is found again by comparing two lists, so that only it
  is redacted; a classifier answers in one of three dialects or in none.
- A stream has no status left when it fails.
- The console cuts frames out of chunks that end anywhere, while the user starts
  a new chat and the page reports errors into the same log.

`PROJECT.json` lists these hazards line by line with the properties that cover
them.

## 2. The modules

`PROJECT.json` maps every definition to its lines; this is the overview. Each
action is one uninterrupted stretch of code: from one lock, `await`, `yield` or
remote command to the next.

| Module | Models | State ↔ code |
|---|---|---|
| `BudgetLedger` | the file ledger in one process | `file` = `budget-state.json`; `reservations` = `_reservations`; `applying` = what a thread took out of it in the first section of `record_usage`/`release` and has not yet written in `_apply_delta` |
| `ChatTurn` | turns of `ChatService.complete`, `ChatService.stream` and the embeddings route over one `BudgetLedger` (`INSTANCE`) | `pc` = where the coroutine is suspended; `snap` = the flags it read; `shown` = text sent; `remember` = tasks for memory |
| `TurnPromise` | the abstract specification of a turn that `ChatTurn` implements | `phase`, `text`, `money` of each turn, `live` = those whose text is passed on as it is produced; not code |
| `SharedBudget` | several processes on one Redis with the shared file behind it | `redis`, `health` = `RedisHealth`'s memory, `job` = the budget call a process is in, between two commands |
| `RateLimit` | `assert_rpm` | `count` = the Redis counters, `hits` = `_rpm_hits`, as the number of stamps at each tick |
| `IdentityStore` | `GatewayIdentityStore` | `records`, `disk`; `legacy` = `GATEWAY_API_KEY` is set |
| `FlagOverlay` | `RuntimeFlagStore` | `overlay` = `_overlay`, `saved` = `runtime-flags.json` |
| `Door` | `require_gateway_auth`, `require_scopes`, the handlers of `/admin/keys` and `PATCH /config`, and `start`, over the two | `who` = `request.state.gateway_identity`; `pc` = where a request is between its threads and the loop; `up` = the process serves |
| `MemoryRuntime` | the shared Mem0 instance, its locks, the pool, background tasks and `drain` | `initLock` = `_lock`, `opsLock` = `_ops_lock`, `bound` = `RouterLLM.identity_id`, `background`, `accepting` |
| `RefreshCache` | the refresh of the catalog and of prompt names, which have the same code shape | `list`, `pending` = `_refresh_pending`, `at` = the refresh thread |
| `Routing` | `resolve_model`, fallbacks, `get_router`, `fallback_from` and their callers, over `RefreshCache` | `router` = `_router` with its signature, `cache` = `litellm.cache`, `lock` = `_lock`; `asks`, `via` = what a call has in hand |
| `Guards` | verdicts and scans of `GuardService`, as operators | an answer of a classifier is what the code reads of it |
| `OpenAIStream` | `encode_openai`, as steps | `wire` = chunks sent, `usage` = `usage_event` |
| `Pipeline` | one turn from the request to its last chunk, over the two | `messages` = `outgoing`, `scans` = classifier calls under way, `answer`, `body` = what a structured answer reads as and whether in a fence, `status` |
| `ChatConsole` | a streamed chat from the native encoder to the console's page | `server` = the generator behind `encode_native`; `wire` = tokens between them; `buffer` = `streamChat`'s; `conn` = its fetch; `messages`, `log`, `busy` = the hook's state, `asked` = the closure's `nextMessages` |
| `BudgetLedger_proofs`, `ChatTurn_proofs`, `SharedBudget_proofs`, `Door_proofs`, `MemoryRuntime_proofs`, `Routing_proofs`, `Pipeline_proofs`, `ChatConsole_proofs` | theorems about the module they are named for and the ones it extends, `ChatTurn_proofs` about `RateLimit` as well, which a turn passes before it reserves (section 4) | — |
| `MC*` | constants for TLC | — |

**Composition.** `ChatTurn` instantiates `BudgetLedger` with turns as
reservation ids and two threads (the loop, a memory worker). The property
`LedgerSpec` says that the composition uses the ledger only as `BudgetLedger`
allows, so the theorems about the ledger carry over (`LedgerUnderTurns`). `KeepsPromise` is the
refinement to `TurnPromise`: a turn is complete only when it is paid, a paid
turn stays paid, an unpaid one gives its estimate back or loses it in a named
way, and no text is shown before it is paid. The last is not promised of a
stream without redaction and outbound guard, whose client may have the whole
text by then (`chat.py:443`, before `457`). `Door` extends
`IdentityStore` and `FlagOverlay` and runs their operations from requests and
restarts; `Routing` extends `RefreshCache` and lets its threads work between the
four readings of a call; `Pipeline` extends `Guards` and `OpenAIStream` and
drives the encoder with the events of its turn. The properties of the extended
modules are checked in the composition and have no run of their own.
`ChatTurn` and `Pipeline` are two views of the same code: the first has the
interleavings of several turns with the ledger and no text, the second one turn
with all that happens to its text.

**History variables.** `charged`, `overrun`, `leaked`, `stray` (and their
counterparts in `SharedBudget`), `BudgetLedger`'s `lost`, `vetted`, `recorded`, `money`, `billed`,
`built`, `acked`, `doubt`, `barred`, `admitted`, `since`, `fresh`, `how`, `hit`,
`told`, `unread`, `moved`, `sent`, `alarm`, `remembered` and `Routing`'s
`lost` are an auditor's notes. No guard of an action reads them. `charged` of
`BudgetLedger` is all usage that the gateway settled today, whether or not the
ledger was written; `lost` is the part that was not. Usage belongs to the day on
which the gateway comes to settle it. What a provider never reported, because
the client left or the call failed, is known to nobody.

**Abstractions.**

- Amounts are small numbers; a request is who asks, the estimate per meter and
  whether the model has a price. `SharedBudget` has one meter: apart from the
  cap check, no Redis command tells tokens from dollars. A consequence it does
  not show: the Lua script skips the USD check when the estimate costs nothing
  (`budget.py:39-57`), the file only when the model has no price.
- In `ChatTurn` the text of prompts and answers is absent; redaction, guard and
  schema checks either pass or not, and `guard` stands for the injection and the
  content guard together, with the outbound check on. In `Pipeline` a message is
  its role and whether its text is blank, free of personal data or not, and
  redaction makes the last of these the second; Presidio may do less, which no
  model of the gateway can show. Tools, `response_format` and metadata are no
  messages: nothing redacts them, and `NothingRaw` does not speak of them.
- A structured answer is no JSON, JSON, or a match, bare or inside a fence or
  blanks that `_parse_json` strips and a client's parser does not. Redaction
  that changes its text may make any of these of it.
- A message that `_fallback_chat` or `_coerce_messages` drops, having no content
  or an unknown role, is not counted among those of its prompt
  (`prompts.py:132`).
- A classifier's answer is its two labels, its first word and its categories,
  each in one of the forms that the code tells apart.
- A model id is its provider and its last segment. Ids with more slashes, where
  a name may be a longer tail of an id, are left out.
- A record's setting is its scopes, label and quotas together. Secrets are the
  ids they belong to.
- A guard or extractor call is the bill it writes.
- In `SharedBudget` the threads of a process are not told apart, which
  `BudgetLedger` does.
- Mem0 and Redis are external: Redis executes a command atomically and may be
  gone or lose a reply; Mem0 adds one fact, drops one, does nothing or raises.
- `ChatConsole` cuts chunks at tokens (a body or a line end); the text of an
  answer is the numbers of its pieces. The labels beside an answer are left out.
- `RefreshCache` describes a list by the version of the upstream list it was
  taken from; `Failed` is whatever a failed or partial listing yields. `Routing`
  gives each version the ids it lists.
- In `Routing` LiteLLM answers from the model asked for or one of the fallbacks
  its router has, and names it by id or by short name; when a call ends is open.

## 3. The runs

All runs finish within two minutes. Outside `budget_ledger`, the type invariant
of a module is the first conjunct of one of its run's invariants (`HeldByTurn`,
`CapTwiceAtMost`, `LocalSpan`, `Reassembled`, `OneInstance`, `OfferedTogether`,
`AckedDurable` and `LayersAsTold`, `ToldOnce`). "Bounds" are the constants that end an
otherwise unbounded counter; each is a guard of the action it bounds.

| Run | Shows | Bounds and why they are enough |
|---|---|---|
| `budget_ledger` | no order of reserve, settle, midnight, failing or unreadable file and crash breaks `Conservation` or `CapHonoured`, from which `UsageBounded` follows; the usage that a failed write or a crash keeps out of the ledger is counted, in `lost` | two reservations, two threads, one capped key beside the gateway, two days, one fault: a settlement is overtaken by each other kind of step. The theorems below remove the bounds |
| `chat_turn` | a plain chat or an embedding beside a streamed chat, with redaction and guard switched while they run: reservations follow turns (`HeldByTurn`), unvetted text stays inside, memory learns only from paid and complete turns, the ledger is used as specified, the turn's promise is kept (paid before complete, and before shown where the text is not passed on as it comes), and every estimate is settled in the end (`EventuallySettled`) | two turns meet in every pair of places, on both sides of a midnight; one fault hits each of their steps; one guard bill and one extractor bill may be under way |
| `chat_turn_leak` | **violated**: finding 1 | no fault needed |
| `shared_budget` | two processes: the Lua script keeps the caps, a calm Redis is exact between any two pipelines, the two ledgers together never undercount but by the named amounts, one outage gives a cap a second time and not a third (`CapTwiceAtMost`, both) | three ids for reservations and bills, one outage, one lost reply or crash, two days: the smallest with a full cap on both ledgers |
| `shared_budget_twice` | **violated**: finding 2 | |
| `rate_limit` | a process admits at most the limit in every span of a window; on Redis at most the limit per aligned window and twice in any span | limit 2, window 3 ticks, 6 instants, 5 requests: both sides of a boundary and every mixture of Redis and local |
| `door` | what was reported as done, of keys and layers, is in memory and on disk, and found again by a restart (`AckedDurable`, `LayersAsTold`); a revoked key opens no door, after restarts and failed writes as well, and an unknown caller gets to no handler once there is a key (`StrangersStayOut`); only the revocation of the last key opens a closed gateway | two requests, so that each step of one falls between any two of the other (they are alike: symmetry); the bootstrap record and one key, two settings, two layers set by different administrators; one fault: a failed write, a death after a write, or an unreadable file |
| `chat_console` | however chunks are cut, the text arrives once and in order; the conversation sent on holds whole answers under their questions; a new chat leaves nothing of the old one; the page shows what is sent but for turns the page itself disturbed; every send ends | two turns, two pieces of text, one reported error: a failed or answered turn before another, a text cut in two, an error before, in and after an answer |
| `chat_console_row` | **violated**: finding 3 | |
| `memory_runtime` | each extraction is billed to its caller, one instance, facts go only by their owner, nothing is left after `drain`, everything ends | a background exchange, an add, a search and a delete of two callers in a pool of two: every lock has a waiter and the pool a queue |
| `routing` | calls offer models that their router has, no model twice; the client is told who answered; the response cache is that of the router in use; neither router nor list is replaced by an older one (`NeverOlder`); in the end list and router are those upstream has (`CatchesUp`) | a chat and a status request, so that a build meets a call in every place; two threads (a second refresh would show), time to live 1, two upstream lists and the static table of a failure: a model stays, one goes, one comes, one short name becomes ambiguous; same-provider fallbacks with the local cache and an allowlist with the Redis cache |
| `pipeline` | nothing raw leaves while redaction is on; the provider is sent what the guard saw; anything but a plain pass blocks and leaves no trace; the conversation reaches the provider whole and in order, with its prompt; a structured answer matches what was asked for as it is delivered and remembered, bare or inside a fence (`DeliveredIsValid`); turns refused with 401, 402, 429 or 502 are not charged for an answer; the client is told once, in the grammar of the interface (`ToldOnce`) | five conversations, three prompts, every combination of layers, eight shapes of verdicts, one or two chunks for injection scans, three chunks on the wire: a blank, a clean and a raw piece beside each other in every place |

Deadlock is checked in `door`, `routing`, `pipeline`, `rate_limit` and
`chat_console`; in `pipeline` a turn that is over stands still by a step of its
own (`Over`), so every other place it could be stuck in is an error. In the
others a bounded behaviour ends in earnest: a turn, a budget call or an
operation that is over does not start again.

### Fairness

Liveness is checked under weak fairness, with two exceptions, both in `Routing`.

- `ChatTurn`: the event loop runs every callback that is ready (`Settle`,
  `Unwind`, `Vet`, `Finish`); a provider answers, fails or meets the router's
  timeout (`router.py`); a client takes the next event or its connection is
  closed. That a client closes in time is not assumed, only that it does not
  stand still for ever, which the server's write would end.
- `MemoryRuntime`: the pool's threads and the loop run; a model call is
  answered or times out; `drain`'s `wait` has a timeout. Lock acquisition needs
  no more than weak fairness, since every operation takes each lock finitely
  often.
- `Routing`: time passes, calls come again and go on, threads go on, and a lock
  that is free is taken. Strong fairness of `Ask`: a listing may raise, but does
  not raise every time. Strong fairness of `Build`: the constructor of the
  router may raise, but does not raise every time.
- `ChatConsole`: the gateway answers or fails, the browser reads what arrives.
  Neither sending, nor a new chat, nor a break of the connection is assumed.

### Findings

1. **A stream closed at its first event keeps its estimate**
   (`chat_turn_leak`, `ReleasedWhenOver`). `stream` reserves in
   `_prepare_outgoing` and yields `StreamStarted` (`chat.py:408`) before the
   `try` whose `finally` releases (`chat.py:428`, `486`). `GeneratorExit` at
   that yield releases nothing. `USAGE_WALKTHROUGH.md:253` names only a crash as
   a way to hold an estimate until the day rolls. `HeldByTurn` and
   `EventuallySettled` show that this is the only such place.
2. **One settlement can be taken off two ledgers** (`shared_budget_twice`,
   `RefundedOnce`). `_apply_delta` runs two pipelines (`budget.py:601-608`). If
   the second raises, or the reply to the first is lost, the whole change goes
   to the file as well (`610-615`). `NoUndercount` bounds what is lost.
3. **An error of the page hides the answer that is streaming**
   (`chat_console_row`, `AnswerAppears`). The session writes only into a row
   that is last in the log (`useChatSession.ts:101`, `136`); `reportError`
   appends one (`45`), for instance when the runtime configuration loads slowly
   and fails. The next turn sends an answer the user never saw.
   `USAGE_WALKTHROUGH.md:174` promises that it appears; `ShownAsSent` shows that
   there is no other way to lose it.

Noted without a run: aligned windows on Redis admit twice the limit within a
minute across a boundary (`SharedSpan` is the exact bound); a bucket on Redis
can go negative when an estimate of yesterday is settled today, where the file
clamps; a `create` that could not be saved leaves its id taken in memory; a key
file that cannot be read counts as empty and the next write makes it so; an
error frame with an empty message passes for an ordinary payload
(`sseParser.ts:19`), so the turn ends as a complete answer, the exception in
`TranscriptHonest`; "New chat" while the body of a refusal is being read leaves
an error row in the new log, because `res.json().catch` hides the abort
(`chatClient.ts:21`), the exception in `StaysInConversation`.

Readiness does not follow Redis either: `openwiki/operations/reliability.md:37`
says "`GET /ready` is `503` unless at least one provider is detected and Redis
is reachable, or Redis is configured and degraded mode is allowed", but the
first probe is remembered for good (`redis_health.py:38`). For the same reason a
process that started without Redis never returns to it (`budget.py:203`);
`tests/test_budget.py:127` expects a retry to succeed, on an object built
without `RedisHealth`. A property of it would restate one line, so there is no
run.

Of the parts modelled with `Door`, `Routing` and `Pipeline`:

- A caller let through the scope check of `PATCH /config` while there was no key
  at all is served if the first key is made before its handler runs
  (`routes/config.py:25` asks whether there is a key, not whether the caller has
  one). `StrangersStayOut` is about the checks, which hold.
- `GATEWAY_API_KEY` is let in with all scopes when the record made from it is
  revoked (`identities.py:236`), the exception in
  `StrangersStayOut`. Without
  it, revoking the last key opens a running gateway to everybody
  (`identities.py:84`), the exception in `OpenedByRevoking`.
- An unreadable flag file counts as no overlay (`flags.py:53`) until the next
  patch replaces it, the exception in `LayersAsTold`.
- With Langfuse out of reach, a turn that names a local prompt without messages
  is sent "You are a helpful assistant." in its place (`prompts.py:138`);
  without Langfuse the same turn is refused. `ConversationKept` allows both.
- While the listing changes, a client may be told the model it asked for though
  a fallback that is no longer listed answered (`catalog.py:229`), and a model
  may be offered to a router that lost it, which LiteLLM refuses.
- A build that fails after `litellm.cache` was cleared leaves calls without a
  cache, and the router of the old listing, until the next call tries again
  (`router.py:221`).
- A stream without redaction and outbound guard passes its last piece of text on
  before it is billed (`chat.py:443`, `457`): a client that leaves there has the
  whole answer, and its estimate is given back. Nothing in the documents says
  otherwise; `TurnPromise` allows it for these streams and no other turn.
- A structured answer in a Markdown fence passes the check, which strips the
  fence (`structured.py:83-91`), and is delivered with it (`chat.py:373`);
  `schema_valid` is true, and a client that parses the text as it stands finds no
  JSON. `tests/test_structured.py:79` wants the check to pass.
  `DeliveredIsValid` says this much and no more.
- When the ledger file cannot be written (`budget.py:612-615`), the usage of that
  call is in no book. Of a call with an estimate the estimate stays until the
  day ends; of a guard's or an extractor's own call nothing does. `Conservation`
  and `UsageBounded` name the amount (`lost`); only the number of faults bounds
  it.
- A streamed answer is priced from its token counts only (`chat.py:446-455`), a
  plain one from what the provider reports as well.

## 4. The proofs

Eight modules prove what the runs check, `ChatTurn_proofs` for two
specifications and the others for one each: for all turns, callers, keys, processes, conversations, caps,
limits and bounds, where TLC had a handful of each. `Inductive` in each of them
is `Spec => []IInv` (for `RateLimit`, `RateInductive` and `RateInv`); the other
theorems follow from it. Where a run's invariant
has the type invariant as its first conjunct, so has the theorem.

| Theorem | States |
|---|---|
| **`BudgetLedger_proofs`**: `TypeCorrect` | `TypeOK`: no bucket is ever negative, nothing is dated in the future |
| `LedgerConserved` | `Conservation`: the ledger shows no more than the usage written today and what is still held, and falls short of all usage settled today and what is still held only by the named amounts: taken off for another day, forgotten with an unreadable file, lost with a failed write or a crash |
| `CapRespected` | `CapHonoured`: what exceeds a cap is usage beyond estimates |
| `UsageWithinCap` | `UsageBounded`: the two together, as the operator of a capped account reads them: all usage settled today and the estimates still out are within the cap but for overruns, strays and lost usage |
| **`ChatTurn_proofs`**: `Reservations` | `HeldByTurn`: an estimate is held exactly while its turn is under way; the one that nobody gives back is finding 1 |
| `ShownIsVetted` | `NothingUnvetted`: no text reaches a client before redaction and outbound guard, whatever is switched meanwhile |
| `MemoryIsHonest` | `RememberedHonestly`: memory learns from paid, vetted and complete exchanges only |
| `UsesTheLedger` | `LedgerSpec`: every step of the turns is a step of `BudgetLedger` or leaves it alone |
| `LedgerUnderTurns` | so `Conservation`, `CapHonoured` and `UsageBounded` hold under turns |
| `PromiseKept` | `KeepsPromise`: every turn implements `TurnPromise`, with the streams that pass their text on as it comes excepted from payment before text |
| `WindowKept` | `LocalSpan` of `RateLimit`: a process admits at most the limit on its own in every span of one window, also when Redis comes and goes |
| `SharedWindowKept` | `SharedSpan`: on Redis all processes together admit at most the limit in an aligned window, and at most twice the limit in any span as long |
| **`SharedBudget_proofs`**: `NothingUncounted` | `NoUndercount`: Redis and file together never show less than was used and is reserved, but for the named amounts |
| `CapsHold` | `CapTwiceAtMost`: the cap holds on Redis, and the fallback gives it a second time and not a third |
| `BooksAreExact` | `ExactWhileCalm`: while Redis answers and nothing dies, its buckets are exact, also between two pipelines |
| **`MemoryRuntime_proofs`**: `InstanceOnce` | `OneInstance`: however many come first and however many builds fail, one Mem0 instance is built |
| `BillsRight` | `BilledToCaller`: every model call of an extraction is billed to the caller whose text it is |
| `DrainIsFinal` | `DrainedForGood`: after `drain` nothing is left in the background and nothing queued starts |
| `RemovedByOwner` | `OnlyOwnerRemoves`: a fact goes only by an operation of its owner |
| `NoCircularWait` | `NobodyStuck` (of the proof module): an operation that cannot go on waits for a lock or a thread of one that can, for any pool |
| **`Routing_proofs`**: `Offers` | `OfferedTogether`: model and fallbacks are ones the router has, none twice, unless a listing came in between |
| `CacheIsUsed` | `RoutingSpec => Spec`: the composition uses the listing cache only as `RefreshCache` specifies it |
| `AnswerIsNamed` | `ToldWhoAnswered`: while the listing stays, the client is told who answered |
| `CacheFollows` | `CacheOfRouter`: the response cache is the one of the router in use, unless a build failed after taking it away |
| `NothingOlder` | `NeverOlder`: neither list nor router is replaced by one of an earlier listing |
| **`Door_proofs`**: `KeysDurable` | `AckedDurable`: what the key store reported as done is in memory and on disk |
| `LayersKept` | `LayersAsTold`: a layer reported as set stays set over patches, failed writes and restarts |
| `RevokedStaysOut` | `StrangersStayOut`: a revoked key is never let in again, an unknown caller gets to no handler once there is a key |
| `OpensByRevoking` | `OpenedByRevoking`: a closed gateway opens only by the revocation of its last key |
| **`Pipeline_proofs`**: `ClientIsTold` | `ToldOnce`: one end, by status or by a stream in the grammar of the interface |
| `RedactionHolds` | `NothingRaw`: nothing raw goes to classifiers, provider, memory or client while redaction is on |
| `GuardSeesAll` | `ScreenedIsSent`: the guard is handed the messages that the provider is given |
| `GuardFailsClosed` | `FailClosed`: what is not plainly harmless ends the turn and leaves no trace |
| `NothingIsLost` | `ConversationKept`: prompt and conversation arrive whole, in order, with at most one block of memories |
| `DeliveredMatches` | `DeliveredIsValid`: a structured answer matches what was asked for as it is delivered and remembered, after redaction, bare or inside a fence |
| `RefusalsAreFree` | `CheapRefusals`: 401, 402, 429 and 502 are not charged for an answer |
| **`ChatConsole_proofs`**: `StreamReassembled` | `Reassembled`: however chunks are cut, the reader puts together what was sent, in order and once |
| `TranscriptIsHonest` | `TranscriptHonest`: an answer that is sent on follows its question, is whole, and is of a turn that did not fail |
| `ConversationKeptApart` | `StaysInConversation`: nothing of an earlier chat is sent or shown after a new one, whatever was under way |
| `AnswersAreShown` | `ShownAsSent`: the answer that is sent on is the one on the page, but for the turns of finding 3 |

### Assumptions

Each is an `ASSUME` of the module that declares the constants, and TLC evaluates
it in the module's runs.

- `ConstantsAssumption`, `LedgerAssumption`, `SharedAssumption`: the account of
  the gateway is no key; caps are integers (below zero: none), amounts naturals;
  a model without a price has no dollar estimate, which is how
  `estimated_input_usd` works. `LedgerAssumption` is `ConstantsAssumption` for
  the constants that `ChatTurn` hands to its ledger.
- `TurnAssumption`: a turn is a plain chat, a stream or an embedding, and the
  event loop is not the memory thread.
- `MemoryAssumption`: an operation is of one of the four kinds and has a target;
  the pool has a thread.
- `CacheAssumption`, `RoutingAssumption`: finitely many refresh threads, a
  positive time to live; every listing is of known models; an id contains a
  slash, so no short name is an id; "none" is neither a model, a call nor a set
  of models.
- `StoreAssumption`, `LayersAssumption`, `DoorAssumption`: the bootstrap record
  has all scopes; a patch of layers is not empty.
- `RateAssumption`: limit and window are positive, which `assert_rpm` and the
  constant `_RPM_WINDOW_SECONDS` make them; the place of the shared counter is
  no process.
- `BoundsAssumption` (of `ChatConsole`): the bounds are natural numbers.
- `GuardAssumption`, `PipelineAssumption`: answers and messages are of the forms
  that the code tells apart; a prompt that is named and compiles has a message.

The bounds (`MaxDay`, `MaxFaults`, `MaxVersion`, `MaxCalls` and so on) remain in
the guards, but are arbitrary numbers: a behaviour of any length lies within
some of them.

### Arguments

Few of the invariants are inductive by themselves. What each needs is checked
by TLC with the constants of its run before it is proved.

**`BudgetLedger`**, `IInv == TypeOK /\ UnitsFinite /\ LostWasUsed /\ Conservation
/\ CapHonoured`.

- `Conservation` alone is not inductive: to give an estimate back without
  clamping at zero one must know that it was booked, which `Conservation` says
  once the numbers are naturals (`TypeOK`).
- What is outstanding is a sum over a map. It is written as the cardinality of
  a set of *units* `<<holder, number>>`, because a recursive sum is beyond the
  provers; `UnitsFinite` lets the cardinalities be used as numbers, and
  `UnitsWith` and `UnitsWithout` say that adding or removing one holder changes
  the sum by its share.
- `LostWasUsed` (no more is lost than was used) says that what was written,
  `charged` less `lost`, is a natural number; `UnwrittenWith` and
  `UnwrittenWithout` do for the usage of settlements under way, which a crash
  loses, what the lemmas above do for estimates.
- `CapHonoured` is kept because the cap check and the booking are one step, and
  because a settlement raises a bucket only by what `overrun` notes.
- Each action has a `Type…` lemma and a `Balance…` lemma for one bucket;
  `NextInductive` puts them together.

**`ChatTurn`**, `IInv == TypeOK /\ Reserved /\ OneSettles /\ Stages /\
NothingUnvetted /\ RememberedHonestly`.

- `OneSettles`: the event loop is inside the ledger while a turn settles, and
  of one turn. Without it two turns could settle with one another's entry.
- `Stages`: what a turn has behind it at each place, such as being paid when its
  answer is delivered. This is what connects the text with the money.
- `UsesTheLedger` maps each action of a turn to one of the ledger's or to a
  stutter. `LedgerUnderTurns` instantiates `BudgetLedger_proofs` with turns for
  reservation ids; `SameLedger` shows the two instances to be one specification.
- `PromiseStep` maps each action to a step of `TurnPromise` for the turn that
  takes it (`PhaseOf`), and to a stutter for the rest. Whether a turn is live is
  settled by the snapshot it takes, and no other step changes it (`LiveTurns`,
  `LiveStays`).

**`RateLimit`**, `RateInv == RateTypeOK /\ Stamped /\ Shared /\ Remembered`.

- A quota is a sum over the ticks of a span; it is written as the cardinality of
  a set of stamps `<<tick, number>>`. `NumberFewer`, `NumberStamp` and
  `NumberUnion` compare two of them, add one stamp, and cover a set of ticks by
  two.
- `LocalSpan` is not inductive: the check looks at what the process remembers,
  not at what it admitted. `Remembered` says that the two agree for the last
  window; older stamps are forgotten when the next request comes, so elsewhere
  the memory is only at most the history. `Stamped` (nothing is dated in the
  future) makes every span that holds this tick one that ends with it
  (`CurrentProperty`).
- `Shared` carries the number of admissions of an aligned window below its
  counter, which also counts the rejected. A span of one window meets two
  aligned windows (`AlignedProperty`, from the division by a window of any
  length), which gives twice the limit.

**`SharedBudget`**, `IInv == TypeOK /\ Dated /\ Progress /\ Counted /\ Quiet`.

- `Dated`: the hash of a day to come is empty, so midnight starts from zero.
- `Progress`: which pipelines of a call have been carried out, that an id
  belongs to one call, and that a draft about to be saved with an estimate has
  passed the caps as they were read. The last is what an unlocked file leaves of
  the cap check.
- `Counted` has two bounds for each account. `Covered`: used and held is at most
  what the ledgers show and `stray`. `Within`: what lies above the cap on Redis
  and what lies above it in the file come to no more than `over`, and the same
  is true of *every draft* of a process that may yet overwrite the file; without
  the drafts it is not inductive. `CapTwiceAtMost` is arithmetic from there.
- `Quiet`: on the first day without outage or fault every call is on Redis, and
  the buckets are exact. `Calm` can become true by a step, when a Redis that was
  away at the start comes back; so `Still` leaves out whether it answers, and
  `OnRedisOnly` adds that one that does not has never been asked.
- The sums are again cardinalities of units (`Reserved`, `ToSettle`); the lemmas
  `Begins`, `Moves`, `Ends`, `Stores` say once what a step of a call does to
  them, and each action cites one.

**`MemoryRuntime`**, `IInv == TypeOK /\ BuiltOnce /\ BoundByHolder /\ TasksKnown
/\ OwnerRead`.

- `TypeOK` says that exactly the holder of a lock is in its section.
- `BoundByHolder`: who is inside, other than to delete, has bound the extractor;
  nobody else can have bound it since. This gives `BilledToCaller`.
- `TasksKnown`: a queued exchange is one that `drain` knows, and no exchange is
  accepted once it looks.
- `OwnerRead`: a delete has read the owner in one section and deletes in
  another. The fact may have gone in between, but its id is not given out again.
- `NobodyStuck` is the part of `AllEnd` that is a predicate on states. The holder
  of a lock is in its section (`TypeOK`, `LocksHeld`), which waits for nothing;
  in a full pool some thread waits for no lock, or for one of those. `CanGoOn`
  puts down the guards of the steps of an operation.

**`Routing`**, `IInv == ListInv /\ CallTypes /\ Carried /\ Agreed /\ Dated /\
CacheInv`.

- `ListInv` is of `RefreshCache` alone: one thread works exactly while
  `_refresh_pending` is set (`Flagged`), and it set out when the list at hand
  was there already (`Ordered`). `ListStep` proves it for any step of the cache,
  `RestStep` reuses it for the composition.
- `Agreed`: a call between whose reads no listing was installed has its model,
  its fallbacks and its router from the one list. `Dated`: router and list are
  in the order of their listings, and so is the router being built.
- `CacheInv`: whoever holds the lock has taken the cache away first.

**`Door`**, `IInv == StoreInv /\ FlagsInv /\ InForceIsSaved /\ DoorTypeOK`.

- `BarredInactive`: a revoked key is inactive in the file as well, which the
  next start reads; `StrangersStayOut` needs it across a restart.
- `ToldIsSaved` is about the time while the process is down, when memory is not
  what counts. `InForceIsSaved` is its counterpart while it is up.

**`Pipeline`**, `IInv == Typed /\ Told /\ ChargedLate /\ CheckedLast /\
ScreenedLast /\ HeldBack /\ Clean /\ Complete`, one part per theorem.

- Each part says at every place of the turn what the run's invariant says at the
  end of it: what has been told, that messages are clean once redacted, that
  they are the wanted ones with at most one block of memories, that the answer
  matches from its check to its delivery (`CheckedLast`).
- Conversations are sequences of any length. `LeadProperty`, `InsertProperty`,
  `RemoveInserted` and `InjectedIndexFinds` say that the block goes behind the
  leading system messages, that removing it gives the conversation back, and
  that the comparison of the two lists finds it again (`chat.py`), so that only
  the block is redacted. They rest on the least element of a set of naturals
  (`LeastExists`, from well-foundedness), in place of an induction.
- `StepKinds` sorts the actions by what they do to a turn; the steps of
  the encoder are reasoned about once each (`ErrorEnds`, `FinishEnds`,
  `DeltaKeeps`).

**`ChatConsole`**, `IInv == Typed /\ Stream /\ Outcome /\ Session`.

- `Stream`: the buffer and the wire together are whole frames (`Framed`: every
  third token is a body), the buffer holds less than one of them, and the text
  put together with the text that is pending is all that was sent. `Reassembled`
  says only the last; without the frames a reader could take half of one for a
  whole.
- The parser keeps what stands at certain positions, in order. `Picked` lists a
  set of positions by their ranks, which cardinalities give without recursion:
  `RankProperty` (ranks are one to one and leave nothing out) stands for the
  induction over a list. From it `TextConcat` and `EventsProperty` follow:
  the text of two pieces is the one text behind the other, and the events of
  whole frames carry their text and their errors. `Parse` is then one read of
  any length, `PiecesPrefix` says that what has been put together so far is a
  beginning of the answer.
- `Outcome`: the frame of a failure stays pending until it is handled. It is what
  keeps a failed turn out of the conversation when the stream ends.
- `Session` adds to the three properties of the session `Waits` (the
  conversation ends with the question of this turn and has no answer to it
  yet), `NotAhead` (nothing is of a later turn) and `Writes` (the answer row
  that is last is this turn's, and only an error of the page takes its place).
  The last is how far the page can be trusted: the session writes into the last
  row without looking whose it is.

### Only model-checked

- The four liveness properties, `EventuallySettled`, `AllEnd`, `CatchesUp` and
  `BusyEnds`: they rest on fairness, hence on `ENABLED`, and a proof of one would
  be an induction over the steps that are left; the prover has none of these.
- That a place can be left at all (no deadlock), for the same reason. What is
  proved of it is `NoCircularWait`, with the guards in place of `ENABLED`.
- The three violations, which are behaviours.

Every invariant and every action property that a passing run checks is a
theorem, as are both refinements.

## 5. What is not modelled

| Part | Why |
|---|---|
| Settings and YAML presets (`settings.py`) | parsing of strings when the process starts; no state, no decision afterwards. What it yields are constants and initial choices of the modules: caps, limits, policies, defaults of layers, `GATEWAY_ALLOW_OPEN` |
| Retries, cooldown, routing strategy, contents of the response cache | LiteLLM's code, outside this repository |
| What Presidio recognises, how a guard's text is cut into windows, how variables are filled into a prompt, JSON Schema | functions over text, of libraries for the most part; when they run, on what, and what their failure does is in `Pipeline` |
| `redact_hits` and `assert_memory_write` | used by the routes of `/memory`, whose operations are in `MemoryRuntime` without their text |
| Prices (`completion_usd`, `usage_from_counts`) | arithmetic of LiteLLM's tables; the ledgers take any amount |
| `StreamFallback` in the OpenAI encoder | changes the model's name in later chunks; the names are in `Routing` |
| The refusal of several workers without Redis (`container.py:85`) | one condition on the environment, tested |
| Logging, metrics, telemetry, schemas, status routes | observe or describe only |
| React views | render what the modelled hooks hold |
| Lifetime of Redis keys (three days, or two windows) | what they count is over before they expire |
| Several processes over one key file or flag file | excluded by the documentation (`README.md:21`): the files stay on one process |

## 6. The plan

The components that keep state are modelled, every run's invariants and action
properties are proved, and its liveness is checked. What would come next:

1. One specification of a turn from the rate limit through `Pipeline` and
   `ChatTurn` to the console. Now a turn's text and its interleavings with the
   ledger are two views of one code, and the text ends at the encoder of
   OpenAI's interface or begins at the native one.
2. Several turns in one `ChatConsole` conversation over a gateway that remembers
   (`MemoryRuntime`), to state that what a user deletes is in no later prompt.
3. `redact_hits` and `assert_memory_write`, with the text of what memory holds.
4. Fixes of the three findings, each of which turns a violated run into a
   passing one and takes an exception out of an invariant: the lost estimate out of
   `HeldByTurn`, one application of a settlement in `SharedBudget`, and `hit`
   out of `ShownAsSent`.
