# SNS Media List: a TLA+ model of the service

SNS Media List turns a link to an X or Instagram post into a list of media with
short-lived download and preview links. The backend is one asyncio process
(`src/src/sns_media_list/`); the frontend is one page of JavaScript. The hard part of
the code is not what it computes but what it holds: slots, upstream connections,
tokens, generated previews and child processes, each of which must be given back
exactly once whatever fails, times out, is cancelled or races with something else.
That is what these modules are about.

The modules are read beside the code. Every definition names the code it stands for in
`PROJECT.json` ("map"); every property has a comment that says which behaviour it is
about. Definitions called `...` "Faulty variant" in a comment are plausible bugs:
replacing the definition after them by such a variant must break the property named for
it in `PROJECT.json` ("mutants").

## 1. Inventory

| Component | Code | State it keeps | Operations | Hard behaviour |
|---|---|---|---|---|
| Slot limiter | `api/limits.py` RequestLimiter, Lease | set of clients with an extraction, count of downloads, downloads by client, `released` flag of each lease | acquire extraction / download, release | release called by several owners of one lease |
| Attempt limiter | `api/limits.py` AttemptLimiter | LRU table of clients, deques of attempt times, two MCP windows | acquire, acquire MCP POST | boundaries of a window, Retry-After, eviction of a live client, MCP reserve |
| REST boundary | `api/middleware.py` | none of its own | charge an attempt, check the body | - |
| MCP boundary and registry | `mcp/middleware.py`, `mcp/server.py`, `mcp/tools.py` | counts of active request ids | begin, finish, classify a cancellation, charge a POST | request ids used twice, cancellation of what has just finished |
| Extraction | `services/extraction_coordinator.py`, `services/extraction_service.py` | the lease held | execute, extract | every way out gives the slot back |
| Token store | `security/tokens.py` | records with expiry | reserve a batch, get, purge | expiry at the boundary, capacity, all or nothing |
| Extractor process | `extractor/gallery_dl.py` | child process, reader tasks, temporary configuration | extract, communicate, stop | deadline, output limit and cancellation against exit; full pipes |
| Media streaming | `api/routes.py` | per request: stream task, generator, responses, lease, flags | download, preview, resume, cleanup | deadline, disconnect, cancellation, resume, work left behind |
| Media client | `network/media_client.py` | connections, bytes read, deadline | fetch with redirects, iterate, close, validate a resume | ownership of a connection during a fetch |
| Generated previews | `services/thumbnail_cache.py`, `api/routes.py` | LRU cache with two counters, in-flight tasks, active count | get, put, evict; get_or_generate | owner and follower cancelled, stale results |
| FFmpeg process | `services/thumbnail.py` | child process, four tasks | generate, stop | terminate, kill, cancellation during the stop |
| Connect proxy | `network/connect_proxy.py` | client tasks, the two transports and the relay of each | handle a connection, relay, close all | an operation given up at its deadline, a cancellation at any await, the 403 after a 200 |
| Lifespan | `app.py` | proxy server, MCP manager | start, stop | partial failure, bounded shutdown |
| Frontend | `static/app.js` | groups, preview queue, batch items, generations; selection and downloads | analyse one or a batch, stop, re-analyse a group, load previews; select, download | late answers and image events for groups that were replaced |
| Pure code | `url_validation.py`, `extractor/normalizer.py`, `errors.py`, `config.py`, `logging_config.py`, `models.py` | none | parse, choose variants, map errors, format | boundaries of parsing only |

How they interact: a request passes the boundary (one attempt charged), then takes a slot
(extraction or download). An extraction holds its slot while the extractor runs, then
reserves its tokens and gives the slot back. A media request looks a token up, takes a
download slot and keeps it until its response is cleaned up; a proxied preview has a
deadline, a download has none; a generated preview asks the thumbnail coordinator, which
shares one generation among the requests for a token. REST and MCP share the extraction
slots; all MCP calls are one client.

What makes each correct: the limiter's counters must equal the leases really held; a
window must never admit too much and a refused client that waits as told must get in;
links must work until their deadline; a connection must be covered by a slot, closed once
and never left behind; the client must receive the file in order and whole or see an
abort; there must be one generation for a token and one slot for a generation; all of it
must come to an end.

## 2. Modules

| Module | What it models | State and actions in the code |
|---|---|---|
| `SlotPool` | what the slot limiter promises: a pool that knows its holders | abstract, no code |
| `RequestLimiter` | the slot limiter | variables are the three private fields and the Lease objects; `AcquireExtraction`, `AcquireDownload`, `Release` are the methods |
| `AttemptLimiter` | the rolling windows | `identities` is the key order of the OrderedDict, `attempts` its deques; `Acquire`, and `AcquireMcpPost` for `McpBoundary` |
| `McpBoundary` | POSTs to `/mcp`, over `AttemptLimiter` | `active` is `_active` of the registry, `post` where the middleware and the tool call of each POST are; `BodyRead` decides and charges in one step |
| `Extraction` | extraction and token store, over `RequestLimiter` | `records` is `_records`; `Begin` is entry into `execute`, `Extracted` and `ExtractionFails` the ways out |
| `MediaStream` | one GET of a media token, over `RequestLimiter` | `st[r].pc` is where handler and `DeadlineStreamingResponse.__call__` are, `st[r].body` where the stream task is; one action for each await that ends |
| `MediaBody` | the body of an upstream response | `body` is the iterator's framing, what is left of it, what was read and what was handed on; one action for each read that returns |
| `OwnedConnection` | what code that opens connections promises its caller | abstract, no code |
| `MediaFetch` | one fetch with its redirects, then the body | `pc` is the await `fetch` is suspended in, `conn` the connection of each hop and who holds it; actions of fetch, of what was left behind, and of the caller |
| `ThumbnailCache` | the preview cache as operators on its value | one operator per method |
| `ThumbnailCoordinator` | generated previews over the cache | `inflight`, `active` are the private fields; `req[r]` is what a request awaits and the work its generation runs |
| `OwnedProcess` | what code that runs a child process promises its caller | abstract, no code |
| `ExtractorProcess` | one run of gallery-dl | `pc` is the await `extract` is suspended in, `task` the states of the two readers and of the task of `process.wait()`, `kept` and `pipe` count bytes; actions of the child, of the tasks, and of the caller |
| `ThumbnailProcess` | one run of FFmpeg | the same of `generate` with its four tasks |
| `ConnectProxy` | the handlers of the CONNECT proxy | `pc[h]` is the await handler `h` is suspended in, `tasks` is `_client_tasks`, `client` and `upstream` its transports, `relay` the task of `_relay` |
| `Lifespan` | start and shutdown of the application, over `ConnectProxy` | `life` is where `lifespan()` is suspended; one action for each await that ends |
| `PreviewQueue` | the preview queue of the page as operators on its state | one operator per function of `static/app.js` |
| `Frontend` | the page: analyses, batches, re-analysis, previews | generations, active request and batch run are the globals of the page; one action for each event with the continuations it runs |
| `Restriction` | an ordered dictionary or a queue after some of its members were deleted, for `AttemptLimiter`, `ThumbnailCache` and `PreviewQueue` | helper: `Restricted(s, keep)` is `s` without what was deleted, in the same order |
| `MC*` | instances for TLC | constants, symmetry |
| `*_proofs` | theorems and their proofs | see section 5 |

`MediaStream` and `Extraction` EXTEND `RequestLimiter`: their actions call the limiter's
actions, and `ImplementsLimiter` says that they use it only as it allows. In the same way
`McpBoundary` is built on `AttemptLimiter`, `Lifespan` on `ConnectProxy`, `MediaFetch` on
`MediaBody`, `ThumbnailCoordinator` on `ThumbnailCache` and `Frontend` on `PreviewQueue`.
`ExtractorProcess` and `ThumbnailProcess` both implement `OwnedProcess` (`KeepsTheChild`,
`KeepsFfmpeg`), `MediaFetch` implements `OwnedConnection` (`KeepsTheConnection`) and the
limiter `SlotPool` (`ImplementsPool`). `Extraction` and `ThumbnailCoordinator` have a run
of a child as one await with an outcome, `MediaStream` a fetch; what these outcomes may be
is what `ExtractorProcess`, `ThumbnailProcess` and `MediaFetch` show.

Conventions:

- The process is one event loop, so that code between two awaits is one step. Methods
  without an await are single steps. The coordinator's lock is never held across an
  await, so that what it guards is one step as well.
- An await that fails, times out or is cancelled is an outcome of the step that ends it.
  A cancellation by the caller or by a deadline is delivered at the await the task is
  suspended in; the cancel scope of a client disconnect may reach the task a step later.
- A timer is a step that may come at any moment of the await that it bounds, so that every
  race with it is there.
- A request that is refused at once leaves no state, so that there is no action for it,
  except where the refusal itself changes or promises something (`ThumbnailCoordinator`,
  `AttemptLimiter`).
- An identifier (lease, request) whose object is finished may stand for a new object.
- `MediaStream`: a unit is what one upstream read returns. The size limit is one of the
  reasons of `ReadFails`. The close of a connection always gets to `writer.close()`, as
  the task of the close takes its first step before it can be cancelled. A generator left
  at its yield is held by the response object until after cleanup, so that its finalizer
  finds nothing to do. Building the headers cannot fail after the first chunk, because the
  response was validated before it; that branch is left out.
- `AttemptLimiter`: the clock ticks `TicksPerSecond` times a second, so that rounding to
  seconds is visible. `admitted`, `promise` and `lastUse` are history.
- `McpBoundary`: what follows the read of the body has no await. The SDK behind the
  middleware starts a call, or never does, whenever it likes. The MCP windows are stored
  apart from the clients' table, so that the run has no REST clients.
- `Extraction`: tokens are numbered; `secrets.token_urlsafe` never repeats. `granted` is
  history. What follows the extractor's await has no await, so that reservation, answer
  and release are one step. The two purposes of a token and the contents of its record
  are left out.
- `ThumbnailCoordinator`: the token store hands a record out until its expiry, that moment
  included, while the cache calls an entry expired at that moment. Requests that were
  answered keep no state but the work they started.
- `ExtractorProcess`, `ThumbnailProcess`: the child may write, exit, hang or ignore
  SIGTERM; a child that was sent SIGKILL counts as gone, and a signal reaches only a child
  that still runs. `process.wait()` may be late or never end. What the output or the
  diagnostics of gallery-dl say is one of six reports; the reading of FFmpeg's output is in
  full, the content of the JPEG is one flag. A child whose start is cancelled is disposed
  of by asyncio. The temporary directory of a run is deleted by its `with` statement and
  has no state.
- `MediaFetch`: what a destination policy accepts is the set `Allowed`, but the lookup
  behind it may also fail. A malformed head is an outcome of the await that reads it. The
  caller may stop reading, or close, at any moment.
- `ConnectProxy`: an await that its deadline ends leaves its operation behind
  (`_run_with_deadline` cancels without waiting): a connection that is made all the same
  goes through "stray" to "closed", a relay through "winding" to "over".
- `Frontend`: a handler of the page runs to its end, continuations included, so that it is
  one step. The server answers in any order; the events of an image whose source was taken
  away may still come. One generation of a group is what `isCurrentPreviewEntry` compares.

## 3. Runs

| Run | Bounds | What it shows |
|---|---|---|
| `limiter` | 3 clients, 4 leases, limits 2 / 3 / 2 | counters and leases agree; limits; refinement of `SlotPool`. Every limit is reached and every client can be refused for each of its reasons |
| `attempts` | 3 clients, table of 2, limits 2 / 1, window 1.5 s, clock to 1.5 s | `RollingWindow`, `RetryAfterHonoured` with rounding, purge, recency and eviction of the table |
| `mcp` | 3 POSTs, 2 sessions, 2 canonical ids of which one is written in two ways, registry of 1, window 2 s, clock to 3 s | what the registry counts, and that only a cancellation of a call that is active in its session opens the reserve. One entry is enough to be full, three POSTs to have a call, its double and its cancellation |
| `extraction` | 3 clients, 3 extractions, 2 slots, store of 4, batches 1 and 3, lifetime 2, clock to 4, 8 tokens in all | slots, links, justified refusals |
| `stream` | 1 stream of 4 units, 2 other leases, 2 clients, 2 download slots of which one per client, fair | slots cover connections, order and wholeness, one terminal event, resume at every offset and under the slot, limiter used as allowed, the slot comes back. Another stream matters to this one only through the limiter, and the other leases take and release in every way it allows |
| `media_fetch` | 3 URLs of which 2 allowed, 2 redirects, 2 cancellations, bodies of up to 4 in reads of 2, fair | hops, ownership of connections, whole bodies, the fetch ends. A redirect in the middle, one too many and one to a refused URL all happen |
| `thumbnails` | 3 requests, 3 tokens, 2 generations, sizes 1 and 2 in a cache of 2, 1 failure, clock to 1, fair | counters and evictions of the cache, slots, one generation for a token, no work left running, every request answered |
| `thumbnail_work` | 3 requests, 2 tokens, 1 generation | expected violation, see section 4 |
| `extractor` | output limit 3, stderr limit 1, reads of 2, pipes of 2, 4 bytes written to each, 2 cancellations, a Story, fair | no starved child, verdict on a whole output, refinement of `OwnedProcess`, the extraction ends. Both limits can be exceeded by one, and a pipe fills twice |
| `thumbnail_process` | output limit 2, pipe of 2, 3 bytes written, 2 cancellations, fair | blame and wholeness, refinement of `OwnedProcess`, the generation ends |
| `lifespan` | 2 connections, MCP enabled, fair | tunnels, answers, shutdown. One handler may be in each phase while another comes or goes |
| `frontend` | 2 user requests, batches of 2, 3 groups, 3 images, 2 attempts, fair | one preview at a time and none lost, cards that were replaced, what a batch shows, all of it settles |

Interchangeable clients, leases, POSTs or requests are declared symmetric in runs without
liveness. `MaxTime`, `MaxIssued`, `MaxWritten`, `MaxCancels`, `PipeSize`, `MaxGroups`,
`MaxEntries`, `MaxPreviews` and `MaxRequests` are bounds of the model or of its
environment, not of the code; every other bound is a parameter of the code. `lifespan` is
run with MCP enabled only: without it there are the same steps, less two.

Fairness is assumed of what the code bounds or schedules: connects, reads, writes, sends
and closes have timeouts (`connect_timeout`, `read_timeout`, `send_timeout`, one second
for a close, the thumbnail timeout, the one-second waits of `_stop_process`, the deadlines
of the proxy and of the shutdown), and the event loop resumes a coroutine whose task is
done. Nothing is assumed of clients, callers, deadlines or cancellations: they may happen
at any moment or never.

- In `ExtractorProcess` and `ThumbnailProcess` only the steps of the caller are fair
  (`Resumes`): each of its awaits has a timer. Nothing is assumed of the child, of its
  pipes or of the tasks, so that the runs end although any of them may hang. Two
  cancellations are enough to interrupt the stop of a child that was already being stopped
  for a cancellation.
- In `MediaFetch` an await of fetch ends by its timeout, and the callback of a task that
  was given up runs.
- In `Lifespan` each await of a handler ends by its deadline and each await of the shutdown
  by its own. Nothing is assumed of the extractors, nor of the MCP manager, whose stop is
  bounded by five seconds.
- In `Frontend` a request is answered (the service bounds each extraction, the browser
  reports a lost connection), an image that was given a source loads or fails, and timers
  fire. One fairness condition over all of these is enough, as each starts only so many.

The runs of one fetch, one child, one lifespan and one page stop when all is over, which
is why deadlock is not checked there.

## 4. Finding and observations

`thumbnail_work` states what the operations guide says of generated previews
(`src/OPERATIONS.md:397`, concurrency 1, and the default on line 128) and what the
docstring of `test_coordinator_cancellation_does_not_release_running_slot_early` says:
generation, including work that is being stopped, stays within the concurrency. The run
violates it. The generation's factory awaits fetch and FFmpeg through
`_await_with_deadline`, which cancels them without waiting when the thumbnail timeout
fires or the owner is cancelled; the slot is freed while FFmpeg may still have up to two
seconds to stop, and another generation may start. What does hold, and is proved, is the
coordinator's own accounting, and that work nobody waits for has been told to stop
(`GenerationsAccounted`).

Observations without a run of their own:

- A cancelled owner cancels the shared task, so that its followers are answered too, with
  the cancellation (`OwnerCancelled`).
- `lifespan()` waits for `Server.wait_closed` before it calls `close_clients`. From Python
  3.12 on that wait lasts until no connection is attached, so that with a live tunnel the
  shutdown takes its five seconds and raises the timeout after the clients were closed
  (`WaitTimesOut`). It ends all the same, with nothing left open.
- In `static/app.js` a checkbox that is toggled while `downloadSelectedMedia` runs enables
  its button again. Downloads are not modelled.

## 5. Proofs

Proved with TLAPS for all values of the constants that satisfy the named assumptions:

- `RequestLimiter_proofs`. Assumptions: the limits are natural numbers and the lease
  identifiers finite in number. The inductive invariant `LimiterInv` adds to the checked
  invariant that the set of clients has as many members as extraction leases are held
  (`ExtractionsCounted`): the guard counts clients, the limit is about leases, and the two
  agree because no client holds two. `LimiterTypeCorrect` and `LimiterAccounting` follow;
  `LimiterImplementsPool` maps each step of the counters to a step of `SlotPool` or a
  stutter, by counting the holders.
- `MediaStream_proofs`. `StreamImplementsLimiter`: every action of the stream takes at
  most one step of the limiter. `StreamKeepsLimits` then carries the limiter's invariant
  over to the streaming, without looking into it. For what a request owes, `Sound` says
  of each await of its handler what the request's flags, body, connection and lease may
  be there; `StreamInv` says it of every request, and that two requests never have the
  same lease. It gives `UpstreamCovered` (a connection is never open without the slot it was
  opened under), `WholeDelivery`, `TerminalEventUnique` and, as an action property,
  `ResumesUnderSlot`. The hard part is the cleanup, which may be entered from every await,
  by two owners, and with the stream task still running.
- `Extraction_proofs`, for the extraction and for the run of gallery-dl it awaits.
  `StoreInv` (types, finite store, links, batches) is inductive: what the store no longer
  has is expired, so that the purge leaves exactly the links that still work; that also
  gives `RefusalsAreJustified`. `RunInv` ties leases to running extractions and is combined
  with the limiter's invariant for `SlotsFollowExtractions`. `ExtractionImplementsLimiter`
  holds as in `MediaStream`; it is proved and not run, since `SlotIffRunning` asks more.
  Of the process, `ChildInv` says what is known of the child at each await: no signal
  before the stop begins, SIGKILL or death behind it, and an exception in flight that is
  the cancellation exactly if there was one. From it each step is a step of `OwnedProcess`
  or a stutter (`ExtractorKeepsTheChild`). `OutputInv` adds that what was written to stdout
  is kept or still in the pipe until the reader gives up, and that the reader never asks
  for nothing, hence `VerdictsAreFounded`. `ReadersInv` says which of the tasks are still
  there at each await, hence `ChildIsReadOn`: as long as the code waits for the child to
  exit by itself, nobody has stopped reading its pipes.
- `MediaFetch_proofs`. `FetchInv` says who holds the connection of the current hop at each
  await, and that earlier hops are closed and later ones unused. `HopsAreChecked` is part
  of it, and with it each step is a step of `OwnedConnection` or a stutter
  (`FetchKeepsTheConnection`). `BodyInv` adds to `BodyIsWhole` how far the framing has come
  in each state of the iterator: while a chunk or a declared length is being read, what
  was announced is what was taken and what is left, which is why an iteration that ends
  normally has taken everything (`BodiesAreWhole`).
- `McpBoundary_proofs`, with the attempt windows below it. `WindowsInv` says of each window
  that its deque is the end of the history of what it admitted, that what was pruned is
  older than the window, and that a promised Retry-After is late enough for the oldest
  attempt still counted to have left. Hence `WindowRolls` and, as an action property,
  `RetryAfterKept`. `IdentitiesInv` says that the table is ordered by last use, within its
  limit, and holds exactly the clients with an attempt: `DictionaryIsBounded`,
  `EvictionIsOfTheOldest`. `RegistryInv` says that each count of the registry is the number
  of calls that began under that id and have not finished, and that a call which the
  registry does not count took nothing from it: `RegistryIsTrue`, and `ReserveIsKept` for
  the attempts that only a cancellation may use. Assumption: finitely many POSTs
  (`IsFiniteSet(Posts)`), as calls are counted by `Cardinality`; a process has finitely many
  under way.
- `Thumbnail_proofs`, for the coordinator, the cache below it and the run of FFmpeg.
  `FlightInv` adds to types and accounting that an owner has a token, which is why
  releasing its entry removes the right one (`CoordinatorAccounting`). The cache's
  counters are sums over an ordered dictionary; the proof counts bytes as the members of
  a set of numbered bytes, so that the sets of disjoint entries add up, and `Counted` says
  the accounting of the set of entries, without their order. One lemma per method says
  that it keeps `Counted` (`RemoveKeeps`, `LookupKeeps`, `EvictKeeps`, `PutSuccessIs`,
  `PutFailureFair`); `CacheIsAccounted` follows. `EvictionsAreFair`, an action property,
  needs the order too: what an eviction takes are the first places of its kind, and every
  method keeps the order of what it leaves.
  Of FFmpeg, `ChildInv` is as in the extractor, with the reason for each error that may be
  cached (`Reasons`): `GeneratorKeepsFfmpeg` and `VerdictsFitTheRun`.
- `Application_proofs`, for the lifespan of the service and for its page, which share
  nothing but the module. `HandlerInv` says for each handler what its await means for its two
  connections (`Connections`) and for its answer and relay (`Answer`): a handler leaves the
  awaits in which its upstream may be open only through `_close_writers`, and the flag
  `tunnel_established` is set in the step that writes the 200. `Phase` adds that nothing is
  accepted once the server was closed, so that the handlers `close_clients` finds are all
  there will be. `TunnelsAccounted`, `AnsweredOnce` and `ShutdownReached` follow.
  Of the page, `RunInv` adds to `BatchTellsTheTruth` that the generation of an active run
  is the current one: nothing else starts while a run is active, so that its answers are
  never taken for outdated ones and every item gets its verdict (`BatchesTellTheTruth`).
  `QueueInv` says of the preview queue that being active, queued and to be retried exclude
  each other; that a card on the page is never outdated by a generation; that an image
  whose source was taken away has no card on the page; and that an image still to be loaded
  waits in one of the three places. None of these can be left out: the second is why
  `pumpPreviewQueue` drops nothing that is still wanted, the third why a late event cannot
  complete the wrong attempt. One lemma per operator says that it keeps `QueueInv`
  (`OneIsLoadedAtATime`) and is `Quiet` to the cards that are gone; as `Quiet` composes,
  `SupersededIsQuiet`, an action property, follows for every handler. Assumptions:
  `PreviewAssumption` (an entry is tried once at least; `NoEntry` is no entry) and
  `PageAssumption` (sizes are natural numbers). The bounds `MaxGroups`, `MaxEntries` and
  `MaxRequests` are arbitrary.
- `Restriction_proofs`: what an ordered dictionary, or a queue, is after a deletion (its keys, its
  length, the place each key moves to). `Restricted` picks positions, and is not
  `SelectSeq`, because the library defines that one by recursion, of which the prover
  knows nothing.

Types are a conjunct of each inductive invariant. They are proved rather than run; a run
with a property of its own to spend is better spent on a hazard. TLC
has checked each inductive invariant on the instance of the run it belongs to.

Definitions that a proof expands use IF rather than CASE: the prover's SMT translation
does not support CASE and confuses an expression with its primed form.

Every safety invariant and action property of a passing run is stated by a theorem. Only
model-checked is liveness (`SlotsComeBack`, `EveryRequestAnswered`, `ExtractionEnds`,
`GenerationEnds`, `FetchSettles`, `ShutdownEnds`, `PreviewsSettle`), which is out of the
prover's reach: it needs ENABLED and an induction over what is left to do.

## 6. Plan

Done: the modules above. What is left to model, in this order:

1. `_generate_preview` around the coordinator (`api/routes.py` 1007-1035): the download
   slot it holds and the response it closes. To the other downloads it is an
   `OtherRequest` of `MediaStream` already.
2. Downloads of the page (`downloadMedia`, `downloadSelectedMedia`).
3. Pure operators against reference definitions: Content-Range and resume validation,
   choice of variants, client identity, and the classification of platform errors
   (`_classify_extractor_error`).

Theorems to add: those of the parts above, as they are modelled. The first would say that a
generated preview, with `_generate_preview` around it, implements the limiter as a stream
does.

## 7. Not modelled, and why

- URL validation, the normalizer, client identity, error texts, logging and settings are
  functions of their input without state to interleave; the body checks of the REST
  boundary likewise, apart from the attempt it charges.
- The scripts (`scripts/`) are checks run by operators around the service, each from its
  start to its end, with no part in it.
- The destination policy and DNS answers are inputs of a fetch and of the proxy.
- `TokenStore.delete` has no caller; `preflight_download` only reads the store.
- Uvicorn, Starlette, the MCP SDK, gallery-dl, FFmpeg and the browser are outside the
  repository and appear only through what the code awaits from them.
- Components that the plan still has are marked in `PROJECT.json`.
