# claim-api-go in TLA+

claim-api-go is a small Go service in front of an airdrop: a file with one TON
`Hashmap` from accounts to what they may claim. It answers two questions over
HTTP, "what does this account get, and with which proof" (`GET /wallet/{address}`)
and "who gets something" (`GET /wallets`, page by page). This directory holds
TLA+ modules of the service, the TLC configurations that check them on small
instances, and TLAPS proofs of the theorems that hold for all instances.

Paths below are relative to `src/`.

## 1. Inventory

| Component | Code | State it keeps | Operations |
|---|---|---|---|
| Elastic queue | `pkg/utils/queue.go` | two channels, the slice `msgs`, the select it waits at, the `queue_length` gauge | `Input`, `Output`, `Run` |
| Prover | `pkg/prover/prover.go` | the tree of cells with a read cursor in every cell | `Run`, `prove`, `enumerateAccounts` |
| Walk | `pkg/prover/enumerate.go` | the cursors of the cells it reads | `walk`, `readCommonPrefix`, `compareBitStrings`, ... |
| Handlers | `pkg/api/handler.go` 139-238 | one goroutine and one response channel per request | `GetWalletInfo`, `GetWallets` |
| Caches | `pkg/utils/cache.go`, `handler.go` 88-89 | `proofsCache` (LRU, 7 minutes), `keyNotFoundCache` (LRU) | `Get`, `Set`, eviction |
| Wallet resolver | `handler.go` 106-137, 240-398 | `jettonMasterStateCache` behind an RWMutex | `convertToWalletInfo`, `getStateInit`, `getJettonWallet`, `executor` |
| Generated API layer | `pkg/api/oas/*` | a request and an error counter | `ServeHTTP`, decoding, encoding |
| HTTP server, middlewares | `pkg/api/server.go`, `middleware.go` | - | mux, healthz, logging, metrics |
| Process | `cmd/api/main.go`, `config.go`, `NewHandler`, `NewProver` | the step `main` is at, the prover goroutine | the steps of `main`, each of which may end the process |
| Generated client | `pkg/api/oas/oas_client_gen.go`, `oas_response_decoders_gen.go` | per call: the request, the connection, the result | `GetApiInfo`, `GetWalletInfo`, `GetWallets` |
| Schemas and JSON | `oas_schemas_gen.go`, `oas_json_gen.go`, `oas_validators_gen.go` | - | `Encode`, `Decode` of every schema |

How they interact:

    oas.Client --HTTP--> oas.Server --> Handler goroutine --channel--> queue goroutine
                                          |   ^                            |  channel
                                          |   +-- response channel (1) -- prover goroutine
                                          |                                 cells + cursors
                                          +--> convertToWalletInfo --> lite server

What is hard about it, and what makes each part correct:

* **Queue.** One goroutine alternates between two selects and switches the input
  channel off at the limit. The second select evaluates `msgs[0]` on entry
  (queue.go:106); a message may be in the channel or in the slice. It must be a
  bounded FIFO that loses nothing, never panics and delivers everything whichever
  ready case Go chooses.
* **Request path.** Handlers send to the queue outside any select
  (handler.go:157), wait for the response or the end of their context
  (handler.go:161), and may be gone when the only prover goroutine answers
  (prover.go:133). Requests for one account race through two caches. No request may
  be lost or answered twice, the prover must never block, and caches and replies
  must tell the truth about the file.
* **Prover and walk.** The cells' cursors are shared by all requests and left
  wherever a read stopped; each request must reset them. Pages are cut with the help
  of one extra account (prover.go:144-155) and of a zero account that means "the end"
  (handler.go:233). The pages together must be the airdrop, in order, each wallet once.
* **Wallet resolver.** `executor` checks the map, fetches without a lock and stores:
  racing requests can store different states and one reply can mix two of them.
  Nothing refreshes the entry. Failures are retried, without regard for the
  request's context. The claim window is tested before the slow calls.
* **HTTP layer.** A status is sent before the body is written, errors are mapped to
  statuses twice (errors.go, generated code), deferred calls count in reverse order.
* **Process.** `handler.Run` must precede `server.Run`, which does not return
  (main.go:49, 65). `logger.Fatal` in the goroutine of the metrics server (main.go:60)
  ends the process at any moment, with requests in flight; everything is in memory.
* **Client.** Concurrent calls share one URL and must clone it (oas_client_gen.go:205).
  Connections break, are refused or lead elsewhere; `net/http` sends a GET again; a body
  is cut short or goes on behind the object; required fields are one bit each in a
  literal (oas_json_gen.go:297). A caller must never get another's answer or be told
  anything about the airdrop that is not so.

`PROJECT.json` lists every hazard with its line and the properties that cover it.

## 2. Modules

| Module | What it is | Code |
|---|---|---|
| `BoundedFifo` | abstract: what the queue promises | queue.go |
| `ElasticQueue` | the queue as written; implements `BoundedFifo` | queue.go 28-113 |
| `ElasticQueueMetrics` | the queue with its gauge | queue.go 20-26, 111 |
| `ClaimApi` | abstract: one true reply per call | handler.go 139-238 |
| `ClaimService` | handlers, an `ElasticQueue`, prover loop, response channels, caches; implements `ClaimApi` | handler.go, prover.go, cache.go |
| `WalletListing` | abstract: pages that add up | prover.go 138-167 |
| `HashmapWalk` | tree, cursors, and the functions of enumerate.go | enumerate.go |
| `Enumerate` | a client, `GetWallets`, pages computed by `walk` on shared cells; implements `WalletListing` | prover.go, handler.go 199-238 |
| `WalletResolver` | `convertToWalletInfo` by many requests at once | handler.go 106-137, 240-398 |
| `ApiServer` | routing, parameters, encoding, counters, around a `ClaimApi` | pkg/api/oas, server.go, middleware.go |
| `ApiProcess` | the steps of `main`, the prover goroutine and the end of the process, around `ApiServer` | main.go, server.go, handler.go 63-104 |
| `WireFormat` | the schemas, what they are encoded as, which JSON is accepted and what it is decoded to | oas_json_gen.go, oas_schemas_gen.go |
| `RemoteApi` | callers of the generated client, the network, `ApiProcess`; implements `ClaimApi` | oas_client_gen.go, oas_response_decoders_gen.go |
| `HashmapWalkProofs` | what the functions of enumerate.go return, for all arguments | - |
| `EnumerateProofs` | the theorems of `Enumerate`; extends `HashmapWalkProofs` | - |
| other `*Proofs` | the theorems of the module they extend (`RemoteApiProofs`: `WireFormat`'s, too) | - |
| `MC*` | constants for TLC | - |

Composition: `ClaimService` contains the queue (`INSTANCE ElasticQueue`) as
the prover makes it, unbuffered and bounded, with requests as messages.
`ApiServer` contains the handlers as `ClaimApi`, which `ClaimService` is proved to
implement. `RemoteApi` puts `ApiProcess` (which is `ApiServer` in a process that starts and
ends) at one end of a network and callers of the client at the other; its responses are
what `WireFormat` encodes, its results what `WireFormat` decodes. With that `ClaimApi` holds at
three places: for the handlers (proved), inside the server (by construction, from the first)
and for the callers of the client (proved). `ClaimService` leaves the contents of pages to `Enumerate` and the two
outcomes of `convertToWalletInfo` (an info or an error) to `WalletResolver`.

### How the state corresponds to the code

* `ElasticQueue.input` is the channel: first what is buffered, then the senders
  parked behind it. Receiving from an unbuffered channel and releasing its first
  sender is one step of Go's runtime, so one action. `sel` is the select `Run`
  waits at; a turn of the loop up to the next select is one action. When `Run` returns
  its slice is gone with it (`Stop`), the channel and the senders parked at it stay, and
  nothing sets the gauge again; `BoundedFifo` then drops the messages it has to drop
  (`Close`).
* `ClaimService.pc` is the statement at which a handler can wait or be overtaken:
  each cache lookup, the send, the select, and `convertToWalletInfo`. Lookups and
  `Set` are atomic (the cache has a lock). `gone` is `ctx.Done()`. `Timeout` and
  `Receive...` are the two cases of one select: both can be ready and either may
  be taken. `Evict` is an expiry or an LRU eviction at any moment, which covers
  every capacity. `prover` is the request between `Output()` and the
  send of its response; `counters` says whether the cells' cursors were reset.
* `HashmapWalk` keeps cells and cursors as functions of the position in the tree and
  passes the cursors through `walk`, so that what is read depends on what was read
  before, as in the code. The three label encodings are decoded bit by bit, with
  their errors. `walk` is a recursive function of its arguments (`Visits`: prefix, cell,
  count, cursors) for a tree and a start key; `WalkCell` is its body. An integer that the
  file stores in bits (`Value`, `UintBits`, `Width`) is defined by what its bits are.
* `WalletResolver.pc` follows `executor`: the look-up under the read lock, the fetch
  with no lock, the store under the write lock, the emulation, and behind a successful attempt the encoding of
  the state init (`Encode`), whose failure (handler.go:264) is reported without a retry. The
  functions that decode get-method results only succeed or fail.
* `ApiServer.sent` is every `WriteHeader` of a call; `net/http` heeds the first. A 5xx
  counts as a failure in either place.
* `ApiProcess.at` is the step of `main`; loading the configuration, the logger, the
  airdrop file and the lite client is one step, for nothing is observable between them.
  `prover` is the goroutine that `handler.Run` starts: until it runs, no handler answers.
  `Exit` forgets everything, at any step.
* `WireFormat` keeps a JSON object as the sequence of its fields, because the decoders see
  them in order: unknown fields are skipped, repeated ones overwrite. Strings are opaque.
  `Accepts...` is "`Decode` returns no error", `Decode...` is the struct it leaves.
* `RemoteApi.cstage` is where a caller is in `Client.send...`: at `Do`, with a response
  to come, with a connection that broke, or with a result. `conn` is the goroutine of
  the server (a slot of `ApiServer`) at the other end of the connection. When a connection
  breaks the slot goes on, unless the server notices (`Leave`). A response has a status, a
  content type, the JSON values in its body, and a flag for whether all of it arrives:
  a body whose writing failed is followed by a second `WriteHeader` and is `Cut`.
  Other servers may answer in place of ours (`Intercept`), with any of the bodies in
  `Foreign`. Among them are the look-alikes (`LookAlikes`): whole bodies that our server
  could have sent to the same operation, such as the 404 with `{"error": ...}` of a gateway or
  the wallet of another service. The client cannot tell them from ours;
  `believed` is the history of who was given one.

## 3. Runs

All runs take from a second to three minutes with two workers.

| Run | Instance | Shows |
|---|---|---|
| `MCElasticQueue` | 4 messages, limit 2, no buffer | selects match the backlog, the bound, gauge off by at most one while `Run` goes on, FIFO, everything delivered |
| `MCElasticQueueBuffered` | 4 messages, limit 1, buffer 1 | FIFO with capacity limit + buffer |
| `MCElasticQueueGauge` | as the first | **violated**: the gauge is not the length of the queue |
| `MCClaimService` | 3 requests, 2 accounts, limit 2 | truth of caches and replies, prover never blocks, each request in one place until the queue stops |
| `MCClaimServiceLive` | 2 requests, limit 1 | implements `ClaimApi`, every handler returns, no work is stuck |
| `MCClaimServiceShutdown` | 2 requests, limit 1, context may end | an abandoned handler returns unless parked at a stopped queue; of the others, none but those whose request was dropped with the backlog waits on |
| `MCEnumerate` | all 255 airdrops over 3 bits, 3 encodings, all starts, pages of 1 and 2 | no failure, wallets in order, each once; implements `WalletListing` |
| `MCWalletListing` | all airdrops of 6 accounts, pages of 1 to 3 | nothing skipped, complete, ends |
| `MCWalletResolver` | 2 requests, 2 master states, 3 attempts | the entry settles, settled replies agree, payload in time, the question that is not retried never fetches, conversions end |
| `MCWalletResolverTest` | a handler without the map | **violated**: storing the state panics |
| `MCApiServer` | 2 calls over all routes, methods and parameters | status tells the truth, counters add up, every call answered |
| `MCRemoteApi` | 2 callers, 2 slots, 2 attempts, a process that ends and restarts | no answer reaches another caller, results are true unless a look-alike was believed, the client implements `ClaimApi`, every invocation returns |

### Why the bounds are enough

* Queue: below, at and beyond the limit all occur with a limit of 2 and four
  messages: two in the slice and two parked senders to overtake each other. The
  theorems remove the bound.
* Request path: three requests are needed for one with the prover, one queued and one
  parked or racing on the same account; an owner and a stranger are all the kinds of
  account. A limit of 1 or 2 makes the queue full; the real one is 1000.
  A slot of a request is used again, so behaviours are endless. The theorems
  remove these bounds too.
* Listing: three bits give trees of depth up to three, with labels of every length
  from none to the whole key (five bits with the constant start), all label
  encodings and all positions of the start. Real ids have 264 bits after the constant
  bits of `addr_std`; nothing in `walk` depends on the number. The API's least page
  length, 5, is scaled to 1: it appears in the code only as `count` and `count + 1`.
  The theorems of `EnumerateProofs` remove all these bounds.
* Resolver: two requests suffice to race for the entry, with a deployed and an
  undeployed master to disagree about; the clock has the three values
  `convertToWalletInfo` can tell apart.
* HTTP layer: counts 4, 5, 10000 and 10001 are both sides of both limits. `MaxCalls`
  bounds the calls of a behaviour so that the counters stay finite.
* Client: two callers are needed for one to get the other's answer, two attempts in
  all for either two calls at once or one that is sent again while its first request
  is still served. The counts 4 and 5 are both sides of the least page length; the
  owner, a stranger and the empty address are all the kinds of address a status can be
  about. `GetApiInfo` is not asked here, for no property tells its answers apart; `MCApiServer`
  serves it and the theorems hold with it. `MaxCalls` bounds the attempts. The theorems remove these bounds.

The runs with `CHECK_DEADLOCK FALSE` really may stop: callers whose attempts are used up, a queue whose
context has ended and whose clients have all sent, a listing that is finished, a
server that has had its `MaxCalls`, a service that was shut down.

### Fairness

Only that goroutines that can run do run (weak fairness), and never which case a
select prefers. In particular: `Run` of the queue as a whole, not its cases; each
handler as a whole; the prover while it works on a request (proofs and pages are
finite computations over a finite tree). The receiver of the queue is the prover, whose
loop always comes back to the select, so in `ElasticQueue` delivery is part of `Run`'s
fairness and in `ClaimService` it is derived from the prover's. Calls to the lite server
end: they carry timeouts (handler.go:244, 311). The hand-over to the handler in
`ApiServer` relies on what `MCClaimServiceLive` and `MCWalletResolver` show. Clients owe
nothing except in `WalletListing`, where the one that lists goes on asking.

In `RemoteApi` what is fair is the code of both ends and a network that delivers what it
does not lose: `Progress` of a caller (connect or be refused, read the response, report a
broken connection), `Serving` of a slot up to its release, and the scheduler coming to the
prover goroutine. Nobody has to start the process again, send a request again, give up or
notice that a connection broke, and `main` may stay at any step (`Load` waits for a lite
server without a bound of its own). `EveryInvocationReturns` therefore needs no timeout,
which is as well: the client has none.

## 4. What is proved

For every value of the constants (any number of requests, accounts, messages,
states and attempts, any airdrop, account ids of any length above 0), from the
assumptions named in the modules. Every invariant of a passing run, every refinement and
the one action property are proved:

| Theorem | Says | Argument |
|---|---|---|
| `ElasticQueueProofs!TypeCorrect`, `SelectsMatch`, `Bounded` | types; `msgs[0]` exists; the limit holds | `QueueInv`, the three together: the first select appends without a test, so the bound needs "first select means empty slice" |
| `ElasticQueueProofs!FifoImplemented` | `Spec => BoundedFifo` | `pipe` is `msgs \o input`; receiving moves the border, which is admission, delivering is taking, and a stop drops what was admitted and not delivered |
| `ClaimServiceProofs!OneRequestOnePlace`, `ProverSendsAtOnce`, `TypeCorrect` | nothing lost while the queue runs, nothing answered twice; the prover never blocks | `PlacesInv`: every request at most once in queue and prover, its channel empty until answered, and a slot not used again before |
| `ClaimServiceProofs!CachesAreTruthful`, `RepliesAreTruthful` | caches and replies agree with the file | `TruthInv`: what is in a response channel, in hand, in a cache or in a reply is about the account the request asked for |
| `ClaimServiceProofs!ApiImplemented` | `Spec => ClaimApi` | every step is a stutter or the step of `ClaimApi` its `pc` change says, by the invariants |
| `WalletListingProofs!TypeCorrect`, `NeverSkips`, `ListingComplete` | pages add up to the airdrop from the start on | `ListingInv`: `listed` is exactly what lies between `from` and `next` |
| `HashmapWalkProofs!LabelIsRead` | a label is read back from each of its encodings | one lemma per encoding; `readUnary` and the limited integer by the values of their bits |
| `HashmapWalkProofs!WalkUnfolds` | `walk` has its defining equation | see below |
| `HashmapWalkProofs!WalkAnswers` | `walk` returns the first `count` accounts from the start on, in order, on cells not yet read | see below |
| `EnumerateProofs!Typed`, `NeverFailing`, `InOrder` | types, and no cursor beyond its cell; no page fails; every wallet from the start on once and in order | `IInv`, see below |
| `EnumerateProofs!Implements` | `Spec => WalletListing` with accounts as numbers | an account's number is in the order of its key and determines it; a page is `Page` or `LastPage`, all else a stutter |
| `WalletResolverProofs!EntryNeverReplaced` | a settled entry stays, and stays settled | a lookup finds the entry, so nobody can get to the store again |
| `WalletResolverProofs!SettledAgreement`, `PayloadWhenOpen`, `SecondQuestionFromMap`, `TypeCorrect` | as their properties | `ResolverInv`: what a request carries at each place, per request |
| `ElasticQueueProofs!GaugeNearLength` | while `Run` goes on the gauge misses at most one message | the gauge is exact at every turn of the second select, and the first select has an empty slice |
| `ApiServerProofs!CountersAddUp`, `TypeCorrect` | counters, a 5xx behind a 200 included; types | `CountInv`: the calls at each stage, counted, against the counters, with the finiteness of `Requests` |
| `RemoteApiProofs!WalletInfoRoundTrip`, `WalletListRoundTrip` | what is encoded is accepted and decoded to itself, for every value of the schemas and any length of list | fields by position; the keys of an object differ, so the last place of a key is its place |
| `RemoteApiProofs!WalletInfoAccepted`, `WalletListAccepted` | what is accepted, whoever wrote it, is decoded to a value of the schema: no required field is an empty default | a key that is seen has a last place (`WFMin` again), and what stands there was checked like every repetition |
| `RemoteApiProofs!AnswersReachTheirCallers` | no answer reaches another caller | `RemoteInv`: per slot, the server's invariant and what was sent; per caller, its slot, which is its own, still has its request, and is not taken for gone |
| `RemoteApiProofs!CallersAreToldTheTruth` | what our process answers is told truthfully; what others answer is refused, look-alikes excepted | every response of a slot is one its status and reply allow; an object of one schema is none of another (`SchemasDiffer`), so of the foreign bodies only look-alikes are accepted (`ForeignFails`) |
| `RemoteApiProofs!ClientIsHandler` | `RemoteSpec => ClaimApi` with the callers as its requests | a call, a reply and a return are the steps of `ClaimApi`; all else changes nothing it sees; a look-alike is no reply of the API and counts as a failed call |
| `RemoteApiProofs!RemoteTypeCorrect` | types; no more requests reach the server than were sent | `RemoteInv`, and `SendInv` for the count |
| `ApiServerProofs!StatusTells` | the status tells the truth about call and airdrop | `ServerInv`: the request's parameters, the handler's call and its reply belong together at each stage |

Theorems that state a property of a run are marked with it in `PROJECT.json`.

### The walk

A recursive function is in TLA+ a `CHOOSE` among the functions with its equation, and one
that has no such function is any value at all. So the first thing to show is that `walk`
exists. `walk` descends from a cell to cells with longer names, whatever the cursors
say (`TypedTree`), and names are no longer than a key. `WalkExists` therefore builds
the function from the cells with the longest names upwards, one length at a time, and
`WalkUnfolds` is the equation.

The tree is the writer's (`TreeOf`: each fork at the longest common prefix of the keys below,
each label in any encoding). The lemmas on it say that the label of a cell read
behind its prefix is its name, that a leaf holds the one key below it and that the two
references of a fork lead to the keys with a 0 and with a 1. `LabelIsRead` joins this tree
of names to the bits that `readCommonPrefix` sees.

`HalfAnswers` of a cell is what `walk` has to return there: the first `count` of the keys below
that are not before the start, in order, with every cursor outside untouched and those
below within their cells, provided nobody has read at the cell or below it since the reset.
`WalkAnswers` takes a cell with the longest name at which that fails (there is one, by `WFMin`) and shows that it holds there: at a leaf by `compareBitStrings`; at a
fork from both halves, which have longer names. There the skipped left half is one where all keys
are before the start, and the skipped right half is one from which nothing is wanted
anymore. This is induction over the tree without a theorem that takes an operator as
parameter.

### The listing

`ListedInOrder` is not inductive: it says that `listed` is a beginning of the airdrop in
order, but not where the next page begins. `IInv` is

* `FileOK`: the cells are those of an airdrop, in some encoding;
* `CursorsOK`: every cursor is within its cell, and nothing more, for any request may
  leave it anywhere;
* `ClientOK`: types, and the client has not failed;
* `ListedOK`: `listed` has exactly the accounts before `next` among those from the start
  on, in order, and `next` is the start or one of the accounts.

A page resets the cursors, so `WalkAnswers` applies at the root with `count + 1`. Then either
the extra account is there, becomes `next` and is the first that was not sent, or all was sent. It
cannot be `ZeroAccount`, the end mark, because it comes behind another account and no key
is before that of `ZeroAccount`. Late requests and proofs move cursors only.

### Assumptions

`WalkAssumption`: account ids have at least one bit. `EnumerateAssumption`: pages have at least one
wallet (the API demands five), other clients ask for accounts. Those of the other modules: sizes are
natural numbers, the marks for "nothing" are none of the things they stand in for.

### Only model-checked

The liveness properties (fairness and `ENABLED` are out of the prover's reach): delivery, return
of handlers, conversions and invocations, the end of a listing, and
`AbandonedRequestReturns` and `OthersReturn` after a shutdown. The invariants hold with
`Cancellable` either way.

`Foreign` is a sample of what other servers can send: each content type, status class and
kind of body that the decoders tell apart, whole and cut, look-alikes included. Of all other
JSON only the kind of what is decoded is proved (`WalletInfoAccepted`, `WalletListAccepted`),
not that it is true of the airdrop, which it need not be. Nothing is claimed of a look-alike.

## 5. Findings

* `MCElasticQueueGauge`: the help text of `queue_length` (queue.go:23) says it is the
  queue's length. It is set after the second select only (queue.go:111): a message that
  enters an empty queue is not counted while it waits. `GaugeErrorBounded` shows that
  this one message is all the gauge can miss while `Run` goes on; after that it keeps the
  last value, though the backlog is gone.
* `MCWalletResolverTest`: `TestHandler_getStateInit` (handler_test.go:31-37) requires no
  error of a `Handler` it builds without `jettonMasterStateCache`; `setJettonMasterState`
  (handler.go:390) writes to that nil map and panics. The program itself always
  makes the map.

What the models made plain, without contradicting any text of the repository:

* A client that stays is never told "timeout" (`ImplementsApi`, `StatusTruthful`): the
  only contexts that end are those of clients that have left.
* A master that is not deployed when it is first fetched stays in the map until a restart;
  requests then fail after three attempts each (`EntrySettles`, `ConversionEnds`).
* Before the entry has settled one reply can combine a state init and a wallet address
  computed from two states of the master; this is why `SettledRepliesAgree` is restricted.
* The body that `ogenerrors.DefaultErrorHandler` writes, `{"error_message": ...}`, is no
  `Error`. A caller whose parameters do not decode gets a plain error from the client, and
  an `*ErrorStatusCode` with 400 only for an address that the handler itself refused.
* An answer of another server is believed if it is whole and has all required
  fields, and any `{"error": ...}` of a gateway becomes an `*ErrorStatusCode` with its
  status, a 404 included: nothing in a response names the service (`believed`).
* An empty address disappears from the path of `GetWalletInfo`; the router still finds the
  operation and the decoder of its parameters answers 400. `GetWallets` sends it as an
  empty `next_from`, which the handler refuses.
* `createLogger` returns no logger with its error, so `logger.Fatal` (main.go:32) panics
  rather than logs; the process ends either way.
* If `Handler.Run` were given a context that ends, handlers parked in the send would
  stay for ever (`ParkedForGood`), and handlers whose request was in the backlog wait for as
  long as their clients do (`DroppedWithBacklog`). The program passes `context.TODO()`.
* `getJettonWallet` fetches through `executor` outside of `retry.Do`, but never has to: the
  attempts before it have left the master in the map (`UnretriedNeverFetches`).

## 6. Not modelled, and why

* What the settings and the airdrop file contain: `Load` of `ApiProcess` succeeds or ends the
  process; what it leaves behind is the `Init` of the modules.
* `WithServerURL`, options, setters and getters of the generated code: they set or
  return a field. `Or`, `Reset` and the compact layout of JSON are not seen by any property.
* Logging, tracing, latency histograms, the client's telemetry, cache hit counters:
  written, never read.
* `createCustomPayload`, decoding of get-method results, formatting of amounts: conversions
  whose success or failure is modelled, their contents are not.
* tongo, go-generics-cache, retry-go, jx and net/http: as far as the code relies on them,
  marked external in the map (cells and cursors, hashmap encoding, eviction, retries,
  JSON values, connections and resending).
* The dereference of a nil account (enumerate.go:146-158) when a key of the file is
  `addr_none`: `HashmapWalk` makes it an error of `walk`. A file whose keys are `addr_std`, as the
  writer's are, cannot reach it.
* CORS preflight requests, and `Del`, `Keys`, `FindPath`, which have no caller.

## 7. Plan

Done: the queue; the request path; the listing; the wallet resolver; the HTTP layer; the
process; the client with the wire format; each with an abstract specification where it
promises one. Proved: everything checked as an invariant, and the refinements of
`BoundedFifo` by the queue, of `ClaimApi` by service and client, and of `WalletListing` by the
listing over the tree, down to the bits of the labels.

What would come next:

1. Compose `ClaimService` with `WalletResolver`: the conversion inside the handler, so
   that retries, the master's map and the client's leaving are seen together, with the
   refinement of `ClaimApi` re-established.
2. The caches as components: capacity, LRU order and the seven-minute expiry, with the
   abstract "any entry may vanish" of `ClaimService` as what they implement.
3. The prover's loop with `Enumerate`'s cells: `prove` as the walk along one key
   (external code, as far as cursors go), in place of the two values of `counters`.
4. Safety halves of the liveness properties as theorems: an invariant that says which step a
   waiting handler, caller or listing waits for, so that only the scheduler's part of
   each stays with TLC.

## 8. Running it

    tlc -workers 2 -config MCClaimService.cfg MCClaimService
    tlapm ClaimServiceProofs.tla

Each run in `PROJECT.json` names its module and configuration; each property of a
passing run has a mutant there, a plausible bug of the code that the run finds.
