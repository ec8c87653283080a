# A verification development for jetbrainsai2api

jetbrainsai2api is a Go proxy that offers the OpenAI and the Anthropic chat API on top of a pool of JetBrains
AI accounts. This directory holds TLA+ models of its core logic, the TLC configurations that check them and
TLAPS proofs. Paths below are relative to `src/`; `internal/` is left out where a package name is enough.

1. Inventory  2. Modules  3. Runs and bounds  4. Fairness  5. Proofs  6. What was noticed  7. Plan

## 1. Inventory

| Component | State | Operations | What is hard about it |
|---|---|---|---|
| **Account pool and request loop** `account/manager.go`, `account/api.go`, `server/helpers.go`, `process/processor.go`, the two handlers | the channel `accounts` (a buffer of all free accounts), JWT, expiry and `HasQuota` of each account, the loop counters of each request, the request context | `AcquireAccount` (receive, redraw, put back), `ensureAccountReady` (refresh, quota), `sendWithRetry` (send, 477, retry), `ReleaseAccount` (deferred), the statistics page | many requests share few accounts; every error path must give the account back, once; three nested waits; cancellation at any time; a quota cache between the check and its answer |
| **LRU cache** `cache/cache.go` | map, doubly linked list with two sentinels, expiry of each item | `Set`, `Get`, `Delete`, `Clear`, `cleanupExpired` | pointer surgery shared by expiry, eviction and deletion |
| **File storage** `storage/storage.go` | `stats.json`, `stats.json.tmp` | `SaveStats` (write, rename, remove), `LoadStats` | a call fails or the process dies between two system calls; two saves share one temporary name |
| **Metrics** `metrics/metrics.go` | atomic counters, `historyBuffer` under `bufferMu`, `requestHistory` under `historyMu`, `lastSaveTime` | `RecordRequest`, `flushLoop`, `flushBuffer`, `GetRequestStats`, `SaveStatsDebounced`, `LoadStats`, `Close` | a flush moves a batch in two steps under two locks, from three kinds of goroutine; counters are read outside either lock; restart |
| **Rate limiter** `server/middleware.go` | one `visitorInfo` per IP | `allow`, `cleanupLoop` | a count that starts over after a pause, and a cleanup at any moment |
| **Request conversion** `convert/openai.go`, `convert/anthropic.go`, `process/processor.go` | pooled `MessageConverter`s with name tables, the conversion cache | `ProcessMessages`, `OpenAIToJetbrainsMessages`, `AnthropicToJetbrainsMessages` | state that survives in a pooled object or in the cache and reaches the next conversation; ids used again; results before calls |
| **Tool definitions** `validate/tools.go`, `process/processor.go`, `convert/anthropic.go` | the tools cache | `ProcessTools`, `ValidateAndTransformTools`, `AnthropicToJetbrainsTools` | names cleaned in one place and required in another; three limits on size and depth; Go's order of maps; a cache keyed by a hash of JSON |
| **Response converters** `server/response_anthropic.go`, `server/response_openai.go`, `convert/jetbrains.go` | the tool call being collected, open block and indices, flags | one step per upstream event, one per way the stream ends | events in any order, streams cut anywhere, client writes that fail; one struct reused for every call |
| **Quota decisions** `account/api.go`, `account/manager.go`, `cache/cache.go` | `HasQuota` of each account, the quota cache | `GetQuotaData`, `ProcessQuotaData`, `MarkAccountNoQuota`, the statistics page | amounts that are missing; answers that are old, a copy's, or another account's with the same cache key; a mark and a cache entry that say different things |
| **Server lifecycle** `cmd/server/main.go`, `server/server.go` | HTTP server, signal goroutine, shutdown goroutine | `Run`, `setupGracefulShutdown`, `Close` | `Run` returns while requests are still served; the services are closed under them |
| Image validation `validate/image.go`, authentication, CORS, routing, Redis storage, configuration, logging, HTTP client | (read once, or none) | | pure functions of one request, or I/O |

How they interact: a handler converts messages and **tools** (**request conversion**, which uses the **cache**),
takes an account from the **pool** (which makes **quota decisions** with the **cache** and may refresh the JWT
upstream), sends the payload, lets a **response converter** read the stream while it still holds the account,
records the outcome in the **metrics** service and gives the account back in a deferred call. The metrics
service saves to the **storage**. The **rate limiter** runs before all of this; the **server lifecycle** starts
it all, and closes metrics and storage at the end. The statistics page checks copies of all accounts against the
quota cache and flushes the metrics buffer.

What makes each part correct, in one line each: the pool never loses, doubles or shares an account, sends only
on accounts known to be ready, and answers every request; the cache behaves as a least-recently-used map with
expiry; a saved file is always one complete snapshot; a request record is never doubled and never lost while
there is room; at most the rate gets through per minute; a payload says what its own conversation says, with
tool schemas upstream can use; a response keeps its protocol and says what the stream says; what is believed of
an account's quota is what upstream said of that account; a signal ends the process, and a quiet `Close` saves the
statistics.
`PROJECT.json` lists the hazards behind these, each at its line, with the properties that watch it.

## 2. Modules

**`AccountPool`** — one action per step of a request: `Arrive`, `StartTry`/`StopTrying` (the loop of
`sendWithRetry`), `Receive`/`SelectFails` (the `select` of `tryAcquireOnce`), `PutBackTried`, `BeginCheck`,
`RefreshOK`/`RefreshFails`, `LookUp`, `FetchOK`/`FetchFails`, `Accept`/`OverQuota` (`ensureAccountReady` and
`GetQuotaData`), `SendFails`, `Exhausted` (477), `Answered`, `Finish` (the deferred release), and the
surroundings `Cancel`, `Age` (a JWT gets old), `CacheDrops`, `StatsPage`. A step ends where another goroutine
can see or change something: at a channel operation, a cache operation, an account lock or a call upstream. `pc`
is the place in the code, `acct` the account in the request's hands. What upstream answers is a choice: a JWT
that is valid, ageing, expired or not parsable; quota or none; any status. Times are abstracted to what the code
tells apart (`JwtStates`).
**`AccountLease`** is what the pool promises: accounts are lent exclusively and come back. `AccountPool` states
the refinement (`free` is the set of accounts in the channel, `holds` is `acct`) as `LeaseSpec` and `FairLease`.

**`LRUCache`** keeps the map, the `next`/`prev` links and the sentinels; one action per method and outcome
(`SetExisting`, `SetNew` with its eviction, `GetMiss`, `GetExpired`, `GetHit`, `Delete`, `CleanupExpired`,
`Clear`), each atomic because each method holds the mutex. **`LRUStore`** is a map with a recency order and
no links: a relation says which key was used after which. The list implements it, as a key is newer than those
its `next` pointers lead to (`After`).

**`FileStorage`** has one action per system call of `SaveStats` and per failure of one, names and files kept
apart (`tmp` and `target` point to files, descriptors too, as in a file system), and `Crash`, after which
`Loaded` is what `LoadStats` finds. **`AtomicStore`** has one step that replaces the stored snapshot, or
nothing.

**`QuotaVerdicts`** sets what the program believes of quotas next to the truth. The steps on an account are
those of its holder: `LookUp` (the cache), `Fetch`/`FetchFails` (the quota endpoint), `Store`, `SendRefused`
(477), `SendDone`; the page has `PageFetch` and `PageStore`; and around them are `Expire`, `Spend` and `Refill`.
`AccountPool` leaves the outcome of a quota check open; here an answer is data: a full `Report`, one `Without` some
of its amounts (`Losses` says which; the part is there, its amount is missing or does not parse) or `Blank`. What
is kept of it for the cache is its clone, which has lost the tariff and top-up parts, and `Owners` says which
accounts share a cache key. `seen` and `refused` remember what upstream last said; an answer that lacks one of the
amounts that tell what is left (`Telling`) is "unclear". One page is filled at a time; a 401 to it deletes a cache entry, as
`Expire` does.

**`MetricsHistory`** has one action per critical section: `Count`, `AppendRecord`, `TakeBatch` (under
`bufferMu`), `MergeBatch` (under `historyMu`), `CopyHistory`, `CopyTotal`, `Save`, run by handlers, the ticker,
the statistics page and `Close`; and `Restart`, a new start with `LoadStats`. `Close` closes `done` (`BeginClose`),
stops the timer and flushes (`StopTimer`), and takes its snapshot (`CloseSnapshot`). It does not wait for the
goroutine of `flushLoop`, whose `select` may see a tick first even when `done` is closed (`Tick` as long as the
timer runs, or `FlushLoopEnds`), and which may be in the middle of a flush. **`ServerLifecycle`** extends it
with the process around it and holds the specification of both: `stage` goes from `serving` over `cancelled`
(`Signalled`), `refusing` (`StopListening`: the listeners are closed and `Run` returns) and `closing`
(`CloseServer`) to `exited` (`Exit`), while `Accept` and `Serve` are the requests, which may be in progress and
begin at every stage: closed listeners do not keep a request from coming on a connection that was accepted before.
`quiet` and `still` remember whether a request was in progress, and `flushLoop` in a flush, since `Close` began. `StartAgain` is a kill at any moment, or the next start.

**`RateLimiter`** has `StartOver`, `Allow`, `Refuse` (the three outcomes of `allow`), `Cleanup` and a clock.
`asked` and `granted` remember the past for the properties.

**`RequestMessages`** has the OpenAI handler up to its payload (`ReceiveChat`, `CacheHit`, `TakeConverter`,
`Convert`, `Store`) with the pool of converters and the cache as shared state, and the Anthropic handler
(`ReceiveDialog`). The converters are operators on contents, calls and results; texts are opaque, and a joined
text is the sequence of its parts. The arguments of a call are decoded to a `map[string]any` and encoded again,
which changes integers above 2^53 and keeps one of several equal keys; `Reencoded` is what each string becomes.
`ChatMessage` and `AnthropicMessage` are what clients may send, in any number and order: only the assistant
calls tools, only Anthropic's users send results of tools, a call of Anthropic's has an id and a name. That they
do is `ClientsAssumption` of `Converters`, which TLC evaluates on the conversations of the instance.

**`ToolSchemas`** does the same for tools: `ReceiveOpenAI`, `CacheHit`, `Validate`, `Store` and
`ReceiveAnthropic`. A schema is a function from paths of property names to nodes, which makes the transformation
an operator on one node (`Transform`) and a choice of paths (`TransformParameters`), without recursion. Go's
order of maps is a choice, too: where two names become one, either may be written last (`LastWritten`), and
sonic, which does not sort map keys, may write the same tools in any of `Encodings` ways, each with a cache key
of its own. `IsSchema` and `AreTools` are what clients may send: any node at any path, as long as only nodes with
properties have nodes below them. **`Lists`** has the two loops that both modules consist of: append what is made
of each element (`Each`), append the elements that pass a test (`Where`).

**`Upstream`** is the event alphabet and what a faithful conversion of a stream contains; **`AnthropicStream`**,
**`AnthropicParse`** and **`OpenAIResponse`** are the converters, one action per event and per ending;
**`Converters`** composes the five conversions of a chat request, messages and tools on
the way in and the three kinds of answer on the way out; `api` chooses the one a behaviour follows. In
`OpenAIResponse` the streaming and the collecting converter read the same stream side by side, so that
their answers can be compared. A text, call or piece is the position of its event in the stream, which is
enough to see loss, doubling, order and mix-ups.

`*_proofs` modules hold the theorems, `MC*` modules the instances for TLC. Operators whose comment begins with
"Mutated form" are broken variants of the operator that follows them; no specification uses them. They
show that a property can be violated by a plausible mistake in the code.

## 3. Runs and bounds

| Run | Instance | What it shows |
|---|---|---|
| `pool` | 2 accounts (one licensed, one static), 2 requests, up to 2 tries | `Exclusive`, `ReadyWhenSent`, `OnlyHolderWrites`, and that the pool implements the lease (`LeaseSpec`), under every interleaving with refreshes, quota answers, 477s, cancellations, cache expiry and the statistics page |
| `pool_live` | 2 static accounts sharing a cache key, 2 requests | every request ends; every lent account comes back |
| `lru` | 4 keys, capacity 3, 2 values | `WellFormed`: map, forward and backward list agree; `StoreSpec` |
| `file` | 1 saver, 5 snapshots, 3 files | `FileWhole`, `NeverOlder`, `StoreSpec` with failures and crashes anywhere |
| `file_torn` | 2 savers | violated: see 6 |
| `lifecycle` | 1 handler, ticker, page and `Close`; batches of 2, history of 2, 3 records, 1 restart | `NeverDoubled`, `NeverLost`, `Bounded`, `CountedBeforeListed`, `QuietCloseSaves`, `BufferDrains`, `SignalEnds`, with a kill at any point |
| `shutdown` | 2 handlers, 2 records | violated: see 6 |
| `quota` | 2 accounts with keys of their own or with one key, one with both kinds of quota and one with a tariff; answers may lack the top-up amount or both amounts of the parts, or be blank | `VerdictIsOwn`, `RefusedOnce`, `UsedAgain` |
| `quota_reset` | the same, answers that are complete or blank | violated: see 6 |
| `rate` | 2 visitors, rate 2, a minute of 2 ticks, 6 ticks, 5 requests each | `WithinRate`, `RefusedOnlyAfterRate` |
| `converters` | conversations of 2 messages and tool lists, 2 handlers, 2 pooled converters, one cached conversion; every stream of up to 4 events, cut anywhere, any write failing | messages: `ResultsNamed`, `PromptComplete`; tools: `ToolsUsable`, `SimpleKept`, `SameForm`; answers: protocol, content, order, arguments and finish reasons of all four converters |
| `converters_calls` | streams of up to 3 events | violated: see 6 |

Why the bounds are enough. *Pool*: two requests over two accounts already give contention, an empty channel,
redraws of a tried account, a 477 followed by a second try, and a release while another request waits; the
theorems of section 5 cover all sizes of it and of the components below. *Cache*: with capacity 3 an item can be
first, middle and last, and the fourth key overflows.
*File*: three files are one more than the two names can point to. *Lifecycle*: the
handler, the ticker and `Close` all run `flushBuffer`, so three flushes overlap with one handler; three records
fill a batch and overflow the history of two; a second handler adds no new kind of overlap and is in `shutdown`.
*Quota*: one unit of each kind is quota or none; two accounts have keys of their own or share one; one of them is
judged by its parts and one by the overall figures. A part without its amount may mark its account or not,
depending on the other part. The theorems cover every `Full`, `Losses` and plan.
*Rate*: `Minute` 2 and 6 ticks give pauses shorter than, equal to and longer than a minute, more than once.
*Messages*: a name can only leak from one conversation to another through one converter or one
cached entry, and two handlers do it in either order; two messages hold a call and its result, in either order. One
string of the instance changes when it is encoded again (`MCReencoded`), the others do not.
*Tools*: the schemas lie on both sides of every limit (3 properties, 2 preserved, one level of nesting) and have
every kind of node, names that collapse at the root and below it, and required names that are not there.
*Answers*: a mix-up needs two calls with a piece each, or a call, a piece, a text and a piece: four events. The
bounds in the specifications are `MaxSnapshot`, `MaxRecords`, `MaxRestarts`, `MaxTime`, `MaxRequests`,
`MaxEvents`, `CacheSize`, and `Full` in `QuotaVerdicts`. `MaxUpstreamRetries`, `BatchSize`, `HistorySize`,
`Capacity`, `Rate`, `MaxProps`, `MaxPreserved` and `MaxNesting` are constants of the code with smaller values.
Deadlock is checked except where the program really stops (an ended process, a stream that has ended).

## 4. Fairness

`AccountPool!Fairness` is weak fairness of each request's own step: a goroutine that can run does run. It relies
on the code's own bounds: the `select` ends after `AccountAcquireTimeout` (60 s) at the latest, which is why
`SelectFails` may fire whenever the channel is empty, and every call upstream ends by the HTTP client's timeout.
Clients, time and the statistics page are not fair. `ServerLifecycle!LifeFairness` lets a goroutine inside a
call of the metrics service run on, the ticker tick and the goroutines of the shutdown run (the steps of `Close`
among them); nothing makes a request end, so `SignalEnds` holds without their help (and `GracefulShutdown` fails). `QuotaVerdicts!Fairness`
takes the requests as given: they keep coming, the queue hands every account out in its turn, entries expire,
and an endpoint that is asked again and again answers with a full report at some time (strong fairness of that
answer alone: answers that are blank or lack amounts may come any number of times before it). `UsedAgain` names
the conditions under which a refilled account is used again: a cache key of its own, and a page that does not fill
the cache for ever. The other specifications have safety properties only.

## 5. Proofs

TLAPS checks the following for every value of the constants, under the named assumptions of the modules
(finitely many accounts and handlers, at least one account; bounds and sizes are natural numbers, those of the
code positive; values such as `NoValue` are none of the real ones; more files than names). Each safety theorem follows from an
inductive invariant, which TLC checked on the run's instance before it was proved.

* **`AccountPool_proofs`** — `PoolTypes`, `PoolSafety`, `NoAccountDropped`, `SentWhenReady`, `HolderWrites`,
  `PoolImplementsLease`. The inductive invariant adds to the checked properties two facts they do not say
  themselves: while a request is inside `AcquireAccount`, its attempts are below the bound (`AttemptsInBound`;
  without it the type of `attempts` is not inductive), and an account past `EnsureValidJWT` has a JWT
  (`JwtPresent`; without it `ReadyWhenSent` is not). Every step does one of three things to the channel — takes
  the head, gives an account back, leaves it alone (`ChannelEffect`) — so the channel's invariants are proved by
  these three cases. That the dropping branch of `ReleaseAccount` is dead (`HolderFindsRoom`) follows by
  counting: a channel without repeats that misses the held account is shorter than its capacity.
  `HeldWhileHolding`, `NothingLost` and `RoomToRelease` are proved here and are not checked by a run.
  `LeaseInvariant`: the abstract lease is exclusive and complete, and by the refinement the pool is.
* **`LRUCache_proofs`** — `CacheInvariant`, `ListAndMapAgree`, `CacheImplementsStore`. The invariant says that the
  `next` pointers step along one strict total order of the items between the sentinels and the `prev` pointers
  along its inverse (`Chain`). Taking a node out and putting one in are proved once for one direction
  (`Unlinked`, `Linked`) and used for both. That the pointers meet exactly what the order puts behind a node
  (`Following`) needs the first of the nodes that were missed, hence a finite list. The loop of `cleanupExpired`
  meets the expired items in any order (`RemoveAllChain`, by induction over its rounds). The keys may be
  infinitely many.
* **`FileStorage_proofs`** — for a single saver, `OneSaver`, `FileKeptWhole`, `FileTypes`, `FileNeverOlder`,
  `FileImplementsStore`; for any number, `FileNeverVanishes`. `FileWhole` is not inductive, as it says nothing
  of the temporary file that a rename turns into the target; the invariant adds that the saver's descriptor is
  the temporary file, that this is never the target, and that it is complete before the rename. Two savers break
  exactly this.
* **`ServerLifecycle_proofs`** — `TypesAreKept`, `NothingIsDoubled`, `NothingIsLost`, `SizesAreBounded`,
  `ListedIsCounted`, `QuietCloseLosesNothing`, for any number of handlers, batch and history sizes. The
  properties alone are not inductive: that no record is listed twice needs that a handler's record is nowhere
  until it is appended, and that what was copied and stored has no record twice, as a restart loads it
  (`Distinct`); that the history is not ahead of the counter is a count of all records that are held (`Counted`);
  and what `Close` saves needs `FlushLoop` (what the goroutine of `flushLoop` can be doing), `Closing`, which
  follows `Close` step by step, and `Settled`: with no request the count stands still and the buffer stays empty,
  and with no flush of `flushLoop` the history stays as `Close` has copied it. `QuietCloseLosesNothing` claims the
  saved records only in the second case (see 6).
* **`RateLimiter_proofs`** — `LimiterTypes`, `RateKept`, `RefusedInTurn`. The invariant splits the requests let
  through in the last `Current(ip)`, which the counter stands for, and the earlier ones, which are more than a
  minute older than any of those.
* **`QuotaVerdicts_proofs`** — `VerdictIsAlwaysOwn`, `RefusedAtMostOnce`, for any amounts and any set of amounts that
  answers may lack. A verdict on an answer that tells what is left is the account's own because
  nothing is ever left of a kind of quota that was not sold (`SoldOnly`), which is what the missing parts of a
  cached answer would say; an account is refused once because nobody sends for a marked account and a refused
  one is marked (`Marked`), although what is looked up for it may be the answer of another account with its key.
* **`Converters_proofs`** — for streams of any length, cut anywhere, with any write failing:
  `StreamIsWellFormed`, `NothingIsDropped`, `ArgumentsAreOwn` and `StopReasonIsRight` of the streamed Anthropic
  answer, `BatchCallsAreOwn` of the collected one, `OnlyCompleteIsDone`, `ConvertersAgree` and
  `ArgumentsAreComplete` of the two OpenAI converters, from one invariant per converter (`StreamInvariant`,
  `AnswerInvariant`). What has been sent is compared with the events read so far through a stream of what would
  be sent if the open call were flushed now (`Flow`): this is what makes the properties inductive, as a call is
  sent late, with all its pieces. A failing write leaves a prefix of it. For the OpenAI converters the invariant
  says what the open call holds while the stream is open, and that the answer is final after it.
* **`Requests_proofs`** — the request side, for any conversations and tools of any length and depth, any number of
  handlers, converters and cached entries:
  `PromptsAreOwn`, `ResultsAreNamed`, `PromptsAreComplete`; `ToolsAreOwn`, `ToolsAreUsable`, `SimpleIsAlwaysKept`,
  `FormIsAlwaysSame`. Each half has two parts.
  The first is an invariant that takes the handlers, converters and caches out of the question. Messages
  (`MessageInv`): a converter of the pool is in one handler's hands at a time and holds the names of its
  conversation only (`Lent`), what is converted or cached is what a new converter makes of its conversation
  (`OwnPrompt`), and so is what is sent (`Served`). Tools (`ToolInv`): key, definitions and cached entries are of
  the tools they are for, under some order of the maps (`OwnKey`, `OwnTools`, `OwnEntries`).
  The second says what these conversions return. For messages it is shown element by element and carried to
  lists: what `Told` reads from the conversion of one message is what the message says (`SaidInChat`,
  `SaidInDialog`), and both sides of `PromptComplete` are concatenations. In both, messages stand in the order of
  the conversation, the items of one message in the order of their kinds (results before texts, texts before
  calls), and arguments as re-encoded. For tools, the paths that
  are kept are followed from the root, one step at a time: a path is kept if the path before it is and its object
  is opened (`KeptStep`), no two kept paths get the same clean path (`KeptApart`), so that the names sent at a
  path are the clean names kept there (`SentNamesAre`), no more than there were (`SentCount`), and no path is
  longer than the nesting allows (`KeptLength`). A simple path has no rival, so it is kept in every order of the
  maps; without rivals at all there is one order.

  Filters and concatenations are recursive in the community modules (`FlattenSeq`), and induction theorems with an
  operator as a parameter are out of the provers' reach. The way around is to prove induction once about a *set* of
  lists (`Induction`, by counting, and `ListInduction`), and to state facts about `Each` for functions from
  elements to lists (`Expanded`).

Every safety property of the passing runs is stated by a theorem. Only model-checked: liveness (`RequestsEnd`,
`FairLease`, `BufferDrains`, `SignalEnds`, `UsedAgain`), which is out of the prover's reach.

## 6. What was noticed

Shown by a run, each with a counterexample:

* `file_torn` — storage.go:32 promises an atomic save, but two overlapping saves share `stats.json.tmp`: one
  renames what the other has truncated.
* `shutdown` — server.go:196 logs a graceful shutdown and :171 gives requests 30 seconds, but `ListenAndServe`
  returns as soon as the listeners are closed (:179), and main goes on to `Close` and exits: a request that was
  accepted is neither answered nor recorded.
* `quota_reset` — README.md:456 advises to wait for the quota to be reset. An account marked by a 477 stays
  marked while its quota cache entry lives (api.go:212), and before any request the entry can be renewed for
  ever, by the page or by a static account with the same eight characters of JWT (cache.go:283): the account has
  quota again and is never used.
* `converters_calls` — collected Anthropic answers keep only the last of several calls before a `FinishMetadata`
  (convert/jetbrains.go:87), while the streamed ones keep all.

Seen while modelling, without a run:

* Content between two argument pieces of a call flushes the call, and the later pieces are dropped
  (response_anthropic.go:218). `ArgsExact` states what the code does: the pieces up to the flush.
* An Anthropic stream that upstream cuts still ends with `message_delta` and `message_stop`
  (response_anthropic.go:279, :305).
* The streaming OpenAI converter drops the content of a `FunctionCall` event that has a name
  (response_openai.go:286-300); the collecting one keeps it. `ArgsComplete` states both.
* `AcquireAccount` can report that no account is available when one was only busy (manager.go:86).
* README.md:35 says a JWT is refreshed 12 hours before it expires; `JWTRefreshTime` is one hour.
* An Anthropic user message with text before a tool result is sent with the result first; images in Anthropic
  messages are dropped without a notice (convert/anthropic.go:33-48, :161). The OpenAI side reports neither
  images after the first.
* The count of a visitor starts over only after a pause of more than a minute, and refused requests extend it
  (middleware.go:88): a visitor far below `ratePerMinute` that never pauses is refused for good.
* metrics.go:314 says that `Close` saves final stats, and routes_test.go:180 expects the complete history. `Close`
  does not wait for `flushLoop`: a flush that has the last records in its hands between the two locks of
  `flushBuffer`, or a tick that wins the `select` after `done` was closed, keeps them out of a save that worked,
  with no request in progress. `QuietCloseSaves` is what remains true.
* api.go:161 says that an account is only marked when tariff and top-up quota are both exhausted. The errors of
  `ParseFloat` are ignored (:170, :175): an amount that is missing, or is no number, counts as 0, and may mark an
  account that has quota. `VerdictIsOwn` is what remains true.
* A debounced save that began before `Close` may write its older snapshot after the final one (metrics.go:308), and
  a request that comes on an open connection while main is in `Close` is recorded after the last save.
* An answer without parts and without amounts counts as quota (a total of 0 is taken as 1, api.go:182), while one
  with a top-up part and no amounts counts as none. The clone in the cache drops the tariff and top-up parts, so
  that it must not be processed again; the code never does.
* The arguments of an assistant's calls, and the `input` of a `tool_use` block, go through `map[string]any`
  (convert/openai.go:184, convert/anthropic.go:347): integers above 2^53 are sent as the nearest float64, and of
  repeated keys one is left. `PromptComplete` compares what survives this.
* The key of the tools cache is a hash of JSON with unsorted map keys, so that the same tools often miss the
  cache that README.md:24 lists. Unless names collapse, a hit and a miss give the same tools (`SameForm`).
* Two property names that become one: which of them is sent is a matter of chance, `required` names it twice,
  and a user's own property `data` meets the one that `simplifyComplexTool` adds. A `required` of which nothing
  is left is sent as `null`. Arrays keep only the type of their items and lose constraints such as `enum` and
  `default`; objects lose theirs, and both their descriptions; `items` of what is not an array are dropped
  (tools.go:204-280). `SimpleKept` claims none of these; that it must not was found by its proof, and the
  tools of the run have such fields since.
* convert/anthropic.go:122 says `$` fields are removed recursively; those inside `items` and `anyOf` stay.
  Anthropic tools are neither validated nor simplified.
* README.md:50 names a hot reload of the configuration, which the code does not have.

## 7. Not modelled, and the plan

Not modelled: authentication, CORS and routing (checks of one request, without state); configuration (read once;
a server that cannot start ends at once); logging; the HTTP client; the Redis storage (one `SET` and one `GET`,
atomic by the service); `ParseJWTExpiry` as a function (its outcomes are the JWT states of `AccountPool`); the
base64 check of images (`ValidImages` says which pass); the text of error messages and payloads; the QPS window,
the period statistics and the `RecordHTTP*` counters of the metrics; an Anthropic body that is one JSON object;
and `ProcessJetbrainsStream`'s splitting into lines.

Planned, in this order:

1. *Statistics persistence*: `ServerLifecycle` over `FileStorage` instead of its atomic `Save`, and over
   `AtomicStore`.
2. *Quota and pool*: `AccountPool` with the answers of `QuotaVerdicts` for what its quota checks leave open.
