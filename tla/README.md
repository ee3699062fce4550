# Verification of zeromaps-rpc

TLA+ models of the concurrent core of `vistone/zeromaps-rpc`, checked with TLC.
Every safety property that a passing run checks is also proved with TLAPS, for
any size of the instance; liveness is checked only.
`PROJECT.json` lists the runs, the lines every definition models,
the mutations that show each property can fail, the findings and the hazards.

## 1. The system

A node answers requests for map data.  A client sends a URI over TCP; the node
picks one of its IPv6 addresses, and a local proxy fetches the URI from that
address with the TLS fingerprint and the cookies of a browser.

```
client/rpc-client.ts --TCP frames--> server/rpc-server.ts
                                        | fetch(uri)
browser --HTTP/WS--> monitor-server.ts -+-> server/utls-fetcher.ts --> server/ipv6-pool.ts
client/ws-client.ts --WS--^             |         (queue of fastq)
                                        | HTTP /proxy?url=&ipv6=
                                        v
                              utls-proxy/main.go  --TLS--> kh.google.com
GitHub --push--> webhook-server.ts --spawn--> auto-update.sh <-- systemd timer
                    |    ^                        |
                    +----+ forwarded, node to node +--pm2 restart--> the node
```

### Components

| Component | State | Operations | What is hard | What makes it correct |
|---|---|---|---|---|
| Address pool, `ipv6-pool.ts` | index, uses and results per address | `getHealthyNext`, `getNext`, `recordRequest` | uses and results are counted by different requests at different times; health over a whole life, at boundaries | every use becomes one result; healthy addresses share the load |
| Fetcher, `utls-fetcher.ts` | fastq queue, counters | `fetch`, `worker`, `httpRequest` | answers, errors, timeouts and lost bodies in any order | first come first served; exact counter; every request answered |
| Circuit breaker, `main.go` 776-849 | map of health objects, two counters, flag, opening time | `getOrCreateIPv6Health`, `isCircuitOpen`, `recordRequestResult` | separate atomics, no lock around them | a trip holds for the recovery time; an open breaker closes; counters stay together |
| Cookie sessions, `main.go` 728-1075, 1766-1834 | map of session objects, refresh flag, semaphore | `refreshSession`, `getOrCreateSession`, cleaner, adjuster | one refresh per session among many requests; objects replaced or deleted in use | exclusive refresh, slots given back, no request waits for ever, requests use the cookies they obtained |
| Fingerprints and clients, `main.go` 541-698, 1804-1871 | two maps, a shared `rand.Rand` | `getBrowserProfileForIPv6`, `getOrCreateIPv6Client`, cleaner | load then store, cleaning at different times, a data race | headers and TLS hello of one browser; nothing of an idle address stays |
| Request handler, `main.go` 1143-1522, 1677-1763 | statistics, active requests, shutdown flag | `proxyHandler`, shutdown | retries, deadlines, panics, shutdown test before counting | bounded tries, each request recorded once, no request cut off by shutdown |
| Log rotation, `main.go` 378-511 | open file, size | `rotateLogIfNeeded` | failure between rename and open | logging survives a rotation |
| RPC client, `rpc-client.ts` | socket, pending requests by URI, buffer | `connect`, `fetchData`, `disconnect` | late timers, overlapping connects, one buffer for all sockets, torn frames | every call settles; an answer settles its request |
| RPC server, `rpc-server.ts` | session table, connections, two request logs | handshake, data request, request logs, health check, `stop` | one unawaited handler per frame | one answer per request; sessions of live sockets only; logs that agree |
| Wire format, `proto/` | - | generated encoding | - | - |
| Monitor server, `monitor-server.ts` | WebSocket clients and their log listeners | REST, `fetch`, `serveConfig` | several keys changed one by one; connections that end in any way | the configuration in force and the saved one agree; no listener of a closed connection |
| WebSocket client, `ws-client.ts` | socket, pending requests by number | `connect`, `fetchData`, `disconnect` | handlers of earlier sockets, timers that look at the wrong socket | an answer settles its request; every call settles |
| Configuration, `config-manager.ts` | layers, merged configuration | load, `set`, hot reload, save | mutation before validation | the configuration in force is valid |
| Webhook, `webhook-server.ts` | `updating` | push handler, forwarding, the script's end | a push while an update runs, lost webhooks, a node that forwards to itself | one delivery and one script at a time; every node runs the last push |
| Update, `auto-update.sh` | checkout, backup, binary, processes | backup, pull, build, restart, rollback | failure between two steps, masked exit codes, two callers | an update, failed or not, leaves one version |
| Start-up, exporter, host monitor, logger, page, installation | - | - | - | - |

### Interactions

* `fetch` calls the pool before it queues a request; the worker calls it again
  when the answer is in.  Everything between is the fetcher's state: pool and
  fetcher are composed in `UTLSFetcher`.
* The fetcher and the proxy share no memory.  To the fetcher the proxy is a
  server that answers with a status header, without one, or not at all.
* In the proxy, every request is a goroutine.  They share the maps, the session
  objects, the health objects and the semaphore with two timers.
* Client and RPC server share only a TCP connection, browser and monitor server
  only a WebSocket.  The monitor server subscribes each connection to the RPC
  server's request logs.
* Nodes share nothing but webhooks: the one GitHub tells of a push forwards it to
  the others.  A node's script is a child of the service it restarts; a systemd
  timer starts the same script, with no lock between the two.

## 2. The modules

| Module | Models | Kind |
|---|---|---|
| `IPv6Pool` | the address pool | component |
| `FetchService` | what a fetch promises | abstract specification |
| `UTLSFetcher` | the fetcher, with `IPv6Pool` | component, implements `FetchService` |
| `FetcherHistory` | `UTLSFetcher` and a history variable | composition |
| `UTLSFetcher_proof` | | proofs about `UTLSFetcher` and `FetcherHistory` |
| `CircuitBreaker` | the breaker of one address | component |
| `BreakerHistory` | `CircuitBreaker` and history variables | composition |
| `BreakerHistory_proof` | | proofs about `BreakerHistory`, and about `IdentityHistory` |
| `ProxySession` | cookie sessions of the proxy | component |
| `ProxySession_proof` | | proofs about `ProxySession` |
| `ProxyHandler` | the proxy's request handler and its shutdown | component |
| `ProxyHandler_proof` | | proofs about `ProxyHandler` |
| `ProxyIdentity` | fingerprint and client of one address, their cleaning | component |
| `IdentityHistory` | `ProxyIdentity` and a history variable | composition |
| `RpcChannel` | RPC client, TCP, RPC server | composition |
| `RpcHistory` | `RpcChannel` and a history variable | composition |
| `RpcChannel_proof` | | proofs about `RpcChannel` and `RpcHistory` |
| `WsChannel` | WebSocket client, WebSocket, monitor server, request logs | composition |
| `WsChannel_proof` | | proofs about `WsChannel` |
| `ConfigManager` | the configuration, the API that updates it, its files | component |
| `ConfigHistory` | `ConfigManager` and history variables | composition |
| `ConfigHistory_proof` | | proofs about `ConfigHistory` |
| `Webhook` | the webhook servers of all nodes, the webhooks under way | composition |
| `WebhookHistory` | `Webhook` and history variables | composition |
| `WebhookHistory_proof` | | proofs about `WebhookHistory`, and about `AutoUpdateHistory` |
| `AutoUpdate` | the update script and its two callers, on one node | component |
| `AutoUpdateHistory` | `AutoUpdate` and a history variable | composition |
| `MC*` | the instances TLC checks | model checking |

### IPv6Pool and UTLSFetcher

A step is a callback of Node's event loop, which nothing interrupts.  `Fetch`
is a call of `fetch`: it takes an address (`GetHealthyNext`), counts the use
and starts a worker or appends to the queue.  `Headers`, `End`, `Fail` and
`LoseBody` are what the HTTP client may report; `End` and `Fail` resume the
worker, which records the result, steps the counter down and returns, and
fastq starts the next request in the same step (`Complete`).  `phase` says
where a request is; in the code it is the position of a promise.  `LoseBody`
is the one outcome nothing in `httpRequest` reacts to: 'aborted' and 'error' go
to the answer object, which has no listener, and the request object's 'error'
is not emitted once an answer has begun.

Abstracted: a caller may name the address itself (`options.ipv6`, line 68), but
none in the repository does, so `Fetch` always asks the pool.  Times are the two
values of `Durations`; the average response time
and the failure rate are compared by cross multiplication.  `lastUsedAt`,
minimum and maximum times, the log and the body are left out.

### CircuitBreaker

A step is one atomic operation or one section under `mu`.  Each goroutine runs
request after request: `Find`/`Create`, `CheckOpen`, and then `Refuse`, or
`Recover` with its three stores, or straight to the request; after it `Lookup`
and the counting steps up to `Stamp`, or nothing (`EndUnrecorded`), for a request
that was not tried or whose handler panicked.  A goroutine creates at most one health
object in its life (the map's entry is never deleted), so objects bear the
goroutines' names.  Time is an age per object, counted to the first value past
the recovery time.  `BreakerHistory` adds when an object was last tripped
(`tripAge`) and which goroutines are about to close one by the opening time of
an earlier trip (`misled`).

### ProxySession

A step is one access to the `sync.Map`, an atomic, a channel operation or a
section under `session.mu`.  `pc` follows `proxyHandler` through
`refreshSession` (`lookup` .. `unflag`), the session it attaches (`attach` ..
`touch`), and `send`, where a 403 leads through a forced refresh once.  Objects
come from a pool of numbers and are reused when nothing refers to them, which
is garbage collection.  `Scan` and `Delete` are the cleaner, `Adjust` the
adjuster.  A refresh ends in `RefreshSucceeds` or `RefreshFails`, whichever of
its seven returns it takes or whether it panics, and then in the two deferred
calls in their order; `Panic` is a panic of the handler outside of a refresh.

Abstracted: cookies are "none", "fresh", "due" or "expired".  `Range` of the
map is one step.  The poll of the semaphore reads its length and the limit in
one step.  `GoIdle` takes only objects no request holds, because a request ends
long before `sessionInactiveTime` (30 minutes).

### ProxyIdentity

One address; the entries of different addresses do not touch.  A step is one
access to a map.  A client in the cache is the fingerprint it was built with,
since `DialTLS` closes over it.  `LoadProfile`, `StoreProfile` and `Returns` are
`getBrowserProfileForIPv6`, for the three places that call it; `LoadClient` and
`StoreClient` are `getOrCreateIPv6Client`.  `errand` says what is prepared: the
request, the visit that refreshes the session before it, the visit that answers
a 403, or a request to a host that needs no session.  The cleaner lists and
deletes in its order: session, client, fingerprint.  `Panic` is the race on
`rng`, which the handlers of all addresses use without a lock.
`IdentityHistory` notes when the fingerprint is taken from under a user.

Abstracted: the choice of the index and its store are one step, because `rng` is
in no property; a session is "none", "used" or "idle", and becomes idle only when
no request is under way, requests being short beside `sessionInactiveTime`.

### ProxyHandler

A step is one access to the shutdown flag or to a counter, one try of the
request, or a step of the main goroutine.  `pc` follows `proxyHandler`: the
test of the flag (`CheckShutdown`), the two increments (`Enter`, `Count`), the
checks (`MissingURL`, `Reject`, `Accept`), the loop of tries with its delays
and its one answer to a 403 (`TryAgain` .. `BodyFails`), and the counting on the
way out (`CountFailure` .. `Leave`).  `Leave` is the deferred decrement, which
every return after `Enter` runs, and also a `Panic` of `rng` where a fingerprint is
chosen or headers are set, which skips the counting.  The main goroutine waits for the counter to be
zero (`Drained`) or for 30 s (`DrainTimeout`), and then for the handlers for 5 s
more (`Exit`); when it returns, everything stops.

Abstracted: a try has a free outcome, so the deadline of a try and the length
of a delay are left out; what is left of them is that both end.  The session of
a request is in `ProxySession` and the decision of the breaker in
`CircuitBreaker`.  The counters for each kind of error are only displayed.

### RpcChannel

A step is a callback of one of the two event loops, a call of the client, or an
event of the network.  `connect` and `disconnect` may be called at any time, also
while an earlier `connect()` is pending: the new socket takes the place of the old
one, whose listeners stay, and when the old connection is made after all the client
shakes hands for it on the new socket (`Establish`).  A socket that is ended while
it opens is "leaving".  The server handles the frames of a connection in order but
awaits no fetch, so `fetching` is a set.  `clients` is its session table, with a
number and a socket for each session; `ServerClosed` removes the first session of a
socket only.  All sockets of the client share one receive buffer, which is never
cleared: `buffer` holds a frame that a broken connection left unfinished, and becomes
`Garbage` for ever once another connection's bytes were put behind it, or between two
parts of a frame (`ClientMixes`).  `RpcHistory` notes the sockets that were begun
while an earlier one was opening (`hasty`).

Abstracted: the fields of frames.  An answer carries the number of its request;
the client looks only at the URI of that request, as the code does.

### WsChannel

A step is a callback of the browser's or of the server's event loop, a call of
the client, or an event of the network.  The client has one current socket
(`ws`), but `onopen` and `onclose` of earlier ones stay and change `connected`
(`Open`, `ClientClosed`).  A request has its number; `pendingRequests`, `timers`
and `outcome` are the entry, the timer and the promise, which part when `send`
throws on a socket that is still opening (`FetchData`) and when an answer or a
timer comes.  `Accept` and `ServerClosed` add and remove the two listeners of a
connection; `Record` fills the two bounded logs at the end of a fetch.

Abstracted: ping, the statistics pushed each second and the logs pushed to
listeners change no state at the client; a timer whose promise is settled does
nothing and is left out.

### Webhook

Every node has the same handler.  `HandleWebhook` is the whole of it: signature,
branch of the update in progress (`TriggerUpdate`), and the webhooks to the other
nodes.  A webhook under way is delivered or lost once; nothing is retried.  A
script is what its parent sees: it looks at `origin/master` (`Look`), cannot be
started (`SpawnError`, with the 'close' that still follows), ends (`Close`), or
restarts the node with a new build (`Deploy`).  A restart ends the script too,
because pm2 kills the process tree, and a script is assumed to die with its node.
Events that are ignored have no message.

### AutoUpdate

A step is a command of the script: `pc` goes from `fetch` through backup, pull,
install, compile and emit (tsc's reading and writing), Go build and restart to
the removal of the backup, or through the rollback.  A command piped into `tee`
may fail without notice; only `npm install` (no compiler left) and the build lead
to the rollback, whose own commands may fail too: `git reset` without notice
(`Reset`), and `rm` or `cp` with a torn `dist` left behind (`Restore`).  `set -e` is
on only after the build (`strict`): there such a failure ends the script, after a
failed `npm install` it does not.  `Interrupt` is a restart of the service or of the
node at any moment, which may leave `dist` torn.  `service` is the build that runs.
`AutoUpdateHistory` collects what has gone wrong and is not put right (`mishaps`): a
backup that could not be made ("copy"), a rollback that failed ("rollback"), an
interruption while HEAD is ahead of `dist`, two scripts at a time; and, until it is
put right, a failed Go build ("go") or restart ("restart").

Abstracted: `node_modules` goes with `dist`; Caddy, the cleaning of pm2's logs, a
rewritten master branch and the tsx mode of pm2 are left out.

### ConfigManager

A step is the part of a callback between two accesses to the files.  A POST is
served without interruption, because its awaits wait for settled promises only;
`todo` is what is left of its updates, and while it is not empty no event is
handled.  Each update is `Set` (in memory, then validated) and then `Save`,
`SaveNothing` (no difference: the node file is deleted) or `SaveFails`.  The
process may be killed at any point, also in a write (`Kill`), and starts again
if there is a valid configuration to load (`Start`).  Operators and a git pull
edit the files at any time, whether the process runs or not.  `watching` holds
the files whose watch is still on the file itself: a watch is set at the start
on the files that exist then, and stays with a file that is replaced or
removed.  `changed` holds the events not handled yet.  `ConfigHistory` follows what
was saved (`kept`) through everything but a node file that somebody replaces or
removes by hand: `uncovered` are the saved settings that the files do not say any
more, because a write tore the node file or because the setting was that of the
default file and has got another value there; `forgotten` those that were loaded
like that.  A save writes all that is in memory, and so clears `uncovered`.

Abstracted: a configuration is a function from paths to values, and validation
a set of accepted values per path, since `validateConfig` is a conjunction of
checks of single settings.  A path that no file has is left out.  The listener
of 'config-changed' only logs.  `Unreadable` stands for no JSON, and for a
default file that is missing.

## 3. The runs

| Run | Question | Bounds |
|---|---|---|
| `fetcher` | Does every use end in one result, is the counter exact, is load shared, is the service first come first served, and is every request answered unless a body is lost? | 3 addresses, 2 workers, 5 requests, answers without a status, errors, durations {1, 5} |
| `breaker` | How far do the counters drift; which requests close a breaker before the recovery time; does an open breaker close? | 2 goroutines, window 2, new requests up to 2 results |
| `session` | Is a refresh exclusive, are slots returned, does every request end? | 2 requests, 2 addresses, 5 objects, limit 1 to 2 |
| `session_replaced` | Is a request sent with the session it refreshed? No. | the same |
| `identity` | Do headers and TLS hello belong to one browser; is an idle address forgotten? | 2 goroutines, 2 fingerprints |
| `handler` | Is the active count exact, do the statistics add up, is each tried request recorded once, does a drained shutdown miss only newcomers, does every request end? | 2 requests, 3 tries |
| `rpc` | Is what waits open; are sessions those of open sockets; is a request under way once; does every call settle? | 2 connections, 2 requests, 1 URI |
| `rpc_answer_lost` | Does an answer settle the only request that waits for it? No. | 1 connection, 2 requests, 1 URI |
| `config` | Is what is in force valid, do saved settings survive, are the files in force? | 3 settings, 1 of them in the environment, 3 values, POSTs of one or two updates |
| `websocket` | Does an answer settle its request; do both ends know their connections; do the logs agree; does every call settle? | 2 sockets, 2 requests, logs of 2 and 1 |
| `webhook` | Is a push delivered once, does one script run at a time, does a push reach every node? | 3 nodes, 2 pushes, 3 scripts of a node |
| `update` | Is what an update leaves of one commit; is every push run? | 2 pushes, 2 failures or interruptions |

Why the bounds are enough for the hard cases:

* *fetcher*: two workers and five requests fill both workers and leave three
  waiting, so that order in the queue matters; with `Trial` = 1, `FailPct` = 60
  and `MaxAvgRT` = 4 an address turns sick after one failure or slow answer and
  recovers after a quick success.  With three addresses two stay healthy while the
  third turns sick and gives its turn away, or recovers before the last request; and
  all three may be sick, so that `getNext` decides.  A status other than 2xx counts as
  a failure, like an error, so the statuses are left to the errors.
* *breaker*: two goroutines reach every pair of accesses.  `MaxTotal` stops new
  requests at two results but never stops a request to an open breaker, so that
  `BreakerCloses` is not cut off by the bound.  Window and recovery are as small
  as lets a breaker trip, wait and recover, more than once.
* *session*: a request may hold one object and refresh another, and the map
  hold a third and a fourth, so five objects never run out with two requests
  (running out would stop `Create`, and `RequestsEnd` would fail).
  `SessionsPerSlot` = 1 makes the limit move between 1 and 2 with the map.
* *identity*: two goroutines reach every pair of places in the handler and the
  visit, with the cleaner between any two accesses; two fingerprints are enough to
  disagree.  Nothing is counted: requests, visits and cleanings go on for ever.
* *handler*: two requests reach every pair of places in the handler, with a
  signal between any two steps; three tries leave room for a retry, a refresh
  after a 403 and a second 403.
* *rpc*: two connections give a stale and a current one, one after the other or at the
  same time; two requests for one URI, which is where they can meet.  The proofs of the
  safety properties hold for any number of each.
* *websocket*: two sockets give an earlier and a current one, which may open and
  close in either order; two requests wait on one socket or on two; the logs are
  shorter than the requests together with the failures logged twice.
* *webhook*: a main node that does not know its own domain, a node that accepts
  what it forwards, and one with another secret; the second push meets the first
  in every stage.  `MaxScripts` = 3 is above what the double report of a script
  that could not be started makes possible here.
* *update*: two pushes, so that one comes while the other is deployed; two
  failures or interruptions, so that an update fails and so does its rollback, its
  backup or the next update.  Both callers run the script again and again.

* *config*: three settings, so that one may be refused while another is kept
  and a third comes from the environment; two accepted values and one that is
  not.  The default file may change under a saved setting, the node file may be
  made, replaced, removed or torn.  Nothing is counted, so no history is cut off.

Deadlock is switched off where the system comes to rest: all requests of the
bound made and settled.

### Properties

*Fetch path.*  `Accounting`: uses of an address = its results + its requests in
flight.  `CounterIsExact`: `concurrentRequests` is the number of workers held,
at most the configured concurrency.  `LoadIsBalanced`: addresses that were
always healthy differ in use by at most one, whatever happens to the others.
`ServiceKept`: refinement of `FetchService`.  `AnsweredUnlessLost`: liveness,
with the exception the code has.

*Breaker.*  `DriftIsBounded`: results that straddle a reset may be counted in
one counter only, but the error stays below the number of goroutines.
`TripHolds`: a breaker is closed before the recovery time is over only by a
goroutine that read the opening time between the two stores of the trip, or that
had decided to close before the trip.  `BreakerCloses`: liveness.

*Sessions.*  `RefreshExclusive`, `SlotsBalanced`, `RequestsEnd`.

*Identity.*  `OneBrowser`: a request, and each visit it makes, has the headers of
the browser whose hello it says, unless two first requests stored a fingerprint
each or the cleaner forgot it in use; once the address was forgotten altogether
it is one browser again.  `NothingLeft`: liveness; the maps keep nothing of an
address without a session.

*Handler.*  `ActiveIsExact`: `activeRequests` is the number of requests between
its increment and its decrement.  `StatsAddUp`: the total is the successes, the
failures, and the requests that are under way, had no URL or ended in a panic.
`RecordedOnce`: the breaker hears once of each request that was tried and did not
panic, and of no other.
`DrainMissesOnlyNewcomers`: what the main goroutine may miss is a request that
tested the flag and is not counted yet.  `RequestsSettle`: liveness.

*Channel.*  `PendingIsOpen`: no entry of a settled request.  `SessionsAreLive`:
no session of a closed socket and no socket with two, but for the sockets of a
`connect()` that came while an earlier one was opening; no number twice.
`UnderWayOnce`: no answer twice.
`EveryFetchSettles`: liveness.

*WebSocket.*  `AnswersMatch`: an answer that arrives settles the request it
answers and no other, and nothing else counts as an answer.  `PendingHasTimer`:
what waits under a number is the request of that number, with its timer.
`EndsAgree`: a client that calls itself connected has an open socket, and the
server listens to its logs for exactly its open connections; the converse of the
first half is not true of the code.  `LogsAgree`: the
two logs tell one story, the k-th failure in the request log being the k-th entry
of the error log, as far as both reach.  `EveryCallSettles`: liveness, of `fetchData` and of
`connect`.

*Webhooks.*  `DeliveredOnce`: forwarding does not go in circles.  `RunsAlone`: one
script at a time, but for a script that could not be started and clears the flag
twice.  `PushesSpread`: liveness; each node runs each push or a later one, with
the exceptions named in it.

*Update.*  `OneVersion`: sources, `dist`, service and proxy are of one commit when
no script runs, but for the mishaps named in it.  `PushesRun`: liveness.

*Configuration.*  `InForceWasChecked`: a value validation refuses is in force only
after a refused update.  `SavedSettingsSurvive`: what was saved is what the next
start loads, but for a torn write and a default file that gets another value (see
below).  `FilesInForce`: once the events are handled, memory and files
agree, with the exceptions the code has.

### Disagreements found

1. `main.go:769`, `:1829`: a session object is replaced or deleted while a
   request refreshes it, and the request goes out without its cookies
   (`session_replaced`).
2. `rpc-client.ts:181`: the timer of an old request takes the entry of the new
   one for the same URI (`rpc_answer_lost`).

Named as exceptions in properties that hold otherwise:

* `utls-fetcher.ts:206`: a body lost half-way leaves the request and its worker
  waiting for ever, although the protocol answers a network error with status 0
  (`AnsweredUnlessLost`).
* `main.go:841`: the flag of a trip is visible before its opening time, and a
  request in between closes the breaker at once (`TripHolds`).
* `main.go:548`, `:1856`: two first requests of an address may store a
  fingerprint each, and the cleaner may forget a fingerprint whose client is in
  use: headers of one browser, hello of another, until the address is forgotten
  (`OneBrowser`).
* `main.go:553`, `:1111`: a panic of `rng`, which has no lock, ends a request in the
  total only, and the breaker does not hear of it, not even of the tries that failed
  (`StatsAddUp`, `RecordedOnce`).
* `rpc-client.ts:40`, `:68`: two overlapping `connect()` calls shake hands twice on
  one socket, and the server, which removes the first session it finds when a socket
  closes (`rpc-server.ts:172`), keeps the other for ever, although its comment says
  that it cleans up the client's session (`SessionsAreLive`).
* `config-manager.ts:403`: the node file is written in place, so that a kill or a full
  disk in the write loses all settings of the node; the next save writes them again
  if the process has not loaded the files since (`SavedSettingsSurvive`).
* `config-manager.ts:384`: a saved setting that equals the default file is not in the
  node file, and follows the default file when that gets another value
  (`SavedSettingsSurvive`).
* `config-manager.ts:276`: a node file that is made, or replaced, while the
  process runs is not watched (`FilesInForce`).
* `webhook-server.ts:317`, `:261`: a push that comes while a script runs that has
  looked already, and a webhook that is lost or refused, leave a node without
  the push, although the README says one push updates all nodes
  (`PushesSpread`).
* `auto-update.sh:67`: after an interruption between pull and build, or when two
  scripts overlapped, HEAD is ahead of `dist`, and the next run finds nothing to
  do (`OneVersion`, `PushesRun`).
* `auto-update.sh:23`: when the rollback's `git reset` fails nobody notices, the old
  `dist` runs under the new HEAD, and the next run finds nothing to do; its `rm` and
  `cp` (26-33) may leave a torn `dist` (`OneVersion`, `PushesRun`).
* `auto-update.sh:192`: a backup that could not be made is what a rollback restores
  from, or does nothing without (`OneVersion`, `PushesRun`).
* `auto-update.sh:280`: a failed Go build keeps the old binary, and is not tried
  again before the next push or twenty restarts (`OneVersion`).

Seen while modelling, and stated by no property: the proxy's own errors become
200 (`utls-fetcher.ts:123`); a goroutine that waited for another's refresh returns
success although it failed (`main.go:928`); the adjusted refresh limit may be
exceeded, up to the capacity, because several goroutines pass the poll together
(`main.go:940`); a request without an address has the headers of the "default"
fingerprint and a pooled client with another (`main.go:1191`, `:1208`); a late
'close' of an old socket marks the new connection as not connected
(`rpc-client.ts:57`, `ws-client.ts:53`); `send` on a WebSocket that is still
opening throws after entry and timer were made (`ws-client.ts:92-108`); an update
that comes after the default file was changed, and before that was loaded, writes the
old defaults into the node file, where they stay (`config-manager.ts:384`); the first
results of an address may go to a health object that is replaced at once
(`main.go:786`); "all requests done" is logged while a request that tested
the shutdown flag before the signal is about to be counted (`main.go:1145-1150`),
and it is cut off if it takes longer than the 5 s that remain; a setting of the
environment, which the README ranks first, is overridden by a POST until the next
load, and every save writes the environment's values that differ from the default
file into the node file (`config-manager.ts:384`); an update whose save failed is
answered with 500, stays in force, and is saved by the next one that succeeds; a
timeout that is not a number passes validation (`config-manager.ts:239`); the
webhook server gives its script no time limit, so a command that hangs stops
updates by webhook (`webhook-server.ts:328`); in the tsx mode of pm2, `pm2 delete
all` kills the webhook server's script before it starts the services again
(`auto-update.sh:375-407`).

## 4. Fairness

* *fetcher*: weak fairness of `End or Fail` for each request.  The HTTP client
  has a timeout on an idle connection, so a request whose connection it still
  watches ends one way or the other.  Nothing is assumed of a lost body.
* *breaker*: time passes, goroutines are scheduled, requests have a timeout,
  and requests for the address keep arriving.  The last is an assumption on the
  traffic: the address pool may turn away from a sick address, and then its
  breaker stays open, unasked.
* *session*: weak fairness of each goroutine's own steps.  Go's scheduler runs
  every goroutine, visits and requests have timeouts, and senders blocked on a
  channel are served in turn.  With requests that arrive for ever a goroutine
  that polls for a slot could be overtaken again and again; the run has each
  goroutine serve one request.
* *identity*: weak fairness of the cleaner, whose ticker runs for ever.  Nothing is
  assumed of the requests: one that hangs between two maps does not keep the
  cleaner from its work.
* *handler*: weak fairness of each goroutine from its first access to a counter
  on, and of the main goroutine after the signal.  A try has a deadline, a delay
  a length, and the scheduler runs every goroutine.  Nothing is assumed of the
  arrival of requests or of the signal.
* *config*: only safety is checked; no fairness is assumed.
* *rpc*: the timers of requests fire.  Nothing is assumed of the network, the
  server or the user.
* *websocket*: timers fire, and the browser reports how an attempt to connect
  ended.  Nothing is assumed of answers.
* *webhook*: a webhook is delivered or given up, as its 10 s timeout has it, and
  every script ends.  The second is an assumption about git, npm and the builds.
* *update*: the timer fires again and again, and every command ends.

## 5. Proofs

`tlapm` checks these for all values of the constants that satisfy the named
assumptions (`PoolAssumption`, `FetcherAssumption`, `BreakerAssumption`,
`SessionAssumption`, `HandlerAssumption`, `ChannelAssumption`,
`ConfigAssumption`, `WebhookAssumption`, `WsAssumption`, `UpdateAssumption`,
`IdentityAssumption`).  The types of the sessions, of the RPC channel and of the
webhooks are proved and not listed in their runs; the other properties proved are
also checked by a run.  Each inductive invariant below was checked with TLC, as
an invariant of the run's instance, before it was proved.

Two proof modules hold two subjects each, which share no variable: what the proxy
keeps of one address (its breaker, its fingerprint), and updates (of all nodes,
of one).

**Fetch path** (`UTLSFetcher_proof`).  `TypeOK` and `CounterIsExact` are not
inductive with a queue about which nothing is known: the head of the queue
might be a request that was already served.  `IInv` adds `QueueInOrder` (the
queue is the last requests made, in order, and exactly they are in phase
"queued") and `WorkConserving` (no worker is free while a request waits).  With
it `FetcherInvariant` is proved action by action; `TypeCorrect` and
`CounterCorrect` follow.  `Accounting` is inductive relative to `IInv`
(`AccountingCorrect`).  `ServiceImplemented` shows that `Fetch` is the abstract
`Arrive`, `End` and `Fail` are `Answer`, and the others stutter: by
`QueueInOrder` and `WorkConserving` the requests that have reached a worker are
the first `|answered| + Concurrency` ones, which is `Started`.

**Load** (`UTLSFetcher_proof`).  `LoadBalanceCorrect`: the pool hands out
the least used healthy address, so an address that was always healthy gets a
use only when it has no more than any other such one.

**Circuit breaker** (`BreakerHistory_proof`).  `DriftIsBounded` compares two
counters that several goroutines change one after the other, so it is not
inductive: a goroutine may have counted a failure in the total and still owe it to
the failures.  `Drift` says that the error together with what is owed is below
the number of goroutines, except while a reset is between its two stores, whose
end leaves at most the others owing.  `TripHolds` needs `Stamped` (the opening time
of an object is no older than its last trip, unless a goroutine is between the
two stores of one) and `Entitled` (who is about to close a breaker has seen the
recovery time of its last trip over, or is `misled`).
`BreakerInvariant` has all of it, action by action; `BreakerTypeCorrect`,
`DriftIsBoundedCorrect` and `TripHoldsCorrect` follow.

**Cookie sessions** (`ProxySession_proof`).  `TypeOK` alone is not inductive: the
slot that is returned must be one in use, and a goroutine that looks at the map
must have an address.  `IInv` is `TypeOK`, `Addressed`, `RefreshExclusive` and
`SlotsBalanced`.  A goroutine *claims* an object from its successful
CompareAndSwap to the reset of the flag, and *holds* a slot between the two
operations on the semaphore.  `OthersClaimNothing` shows that only `Claim` and
`Unflag` change who claims what, `OthersHoldNothing` that only `Push` and `Pop`
change who holds a slot, whatever the cleaner, the adjuster and other requests
do to the map; four lemmas treat these four steps.  `SessionTypeCorrect`,
`RefreshIsExclusive` and `SlotsAreBalanced` follow from `SessionInvariant`.

**Request handler** (`ProxyHandler_proof`).  That a counter decremented on the way
out was incremented on the way in is `ActiveIsExact`; that a request which
counts its failure was not counted before, and tells the breaker only if it was
tried, needs `LoopEntered`: which places have a number of tries, and that a
request without a URL, or one that panicked, is on its way out.  `IInv` is `TypeOK` with the three
safety properties and `LoopEntered`.  `LocalStep` shows action by action that a
goroutine's own part of it stays and that it touches no other's; `CountsMove`
that each action moves the goroutine into or out of the two sets that are
counted exactly when it changes a counter; `ActiveStep` and `StatsStep` turn
this into cardinalities.  `ActiveCorrect`, `StatsCorrect`, `RecordedCorrect` and
`HandlerTypeCorrect` follow from `HandlerInvariant`, and so does `DrainCorrect`:
a count of zero means no counted request.

**RPC channel** (`RpcChannel_proof`).  `UnderWayOnce` counts places across two
queues of every connection and the set of fetches; it follows from `InOrder` (no
frame twice in a queue) and `OnePlace` (a request is in one kind of place, on one
connection).  `Known` says that nothing travels that was not asked for, which
makes a new request's number fresh.  `PendingIsOpen` is inductive beside them.
`SessionsAreLive` needs that a socket which was not begun hastily shakes hands once
(`ShakesOnce`): it has no handshake under way before it is made, at most one after,
and none once it is in the table.  Handshakes go to the client's current socket, so
this needs `Overtaken`: while one connection opens, the client's socket is that one
or a hasty one.  `Numbered` says that the next number is above all in the table.
`SessionInvariant` joins them with the invariant of the channel.

**Configuration** (`ConfigHistory_proof`).  `SaveThenLoad` is the pure fact: the
difference that is saved, merged into the default file, is the configuration
that was saved.  The three properties are not inductive: a saved setting must
be in force when the next update saves everything again (`KeptIsInForce`), it
must be in the node file or equal the default file, also while that cannot be
read (`KeptIsStored`), and what is about to be saved must have been validated
(`SavingIsChecked`); `KeptIsStored` leaves out what is `uncovered`, and
`KeptIsInForce` what is `forgotten`, which is why the next save repairs a torn write
only if no load came first.  `FilesAreInForce` is `FilesInForce` without the condition
that no POST is served.  `IInv` joins them, and one lemma for each action of
`HistoryNext` shows it inductive.

**Webhooks** (`WebhookHistory_proof`).  `DeliveredOnce` is a matter of counting: of
each push a node has accepted or has under way at most one webhook, or two for a
main node that does not know its domain (`Room`), and of a push that GitHub has
yet to tell the main node of nobody knows anything (`Unknown`), so what is forwarded
is the first.  `RunsAlone` is inductive
with the flag: a node whose flag is clear runs no script, unless the flag was
cleared under it (`Solo`).  `WebhookInvariant` joins them with the types.

**WebSocket channel** (`WsChannel_proof`).  `PendingHasTimer` and `AnswersMatch`
speak of the number that an answer carries, so `IInv` follows it all the way: a
request is its number (`Numbered`), what waits has a timer and the other way
round (`Waits`), and a message under way, in either queue or in a fetch, carries
the number of a request that was made (`Carried`).  `EndsAgree` needs `Links`:
nothing is on its way on a connection that is not open yet or is broken, and an
open one is broken when the server no longer has it.  `LogsAgree` compares logs of
different limits from which the oldest fall out: a new log is put first in both or
in one, and the lemmas on `Failures` show that the rank of every earlier failure
goes up by one exactly when a failure was added.  `AnswersMatch` is an
action property and is proved from `IInv` action by action.

**Fingerprints** (`BreakerHistory_proof`).  `OneBrowser` speaks of a goroutine
that sends; it holds because of what the goroutine found three accesses before.
`Sound` says for each place in the handler what the goroutine holds of
the fingerprint in the map, for its errand and for the request behind a visit, and
that a goroutine that is about to choose one found none.  `Last` is the order of
the cleaner: the client goes before the fingerprint it was built with, so none is
left when the fingerprint goes.  Both hold until the fingerprint is disturbed
(`Undisturbed`), and again once the address was forgotten and nobody is
under way (`Anew`).  `StoreSound`, `CacheSound` and `DeleteSound` treat the steps
that can disturb it.

**Update script** (`WebhookHistory_proof`).  `OneVersion` speaks of a node at
rest.  `Progress` says for each command of a script what backup, sources, `dist`,
proxy and service are when the script stands there, whether the fetch, the pull,
the installation, a build or a restart before it failed or not: settled up to the pull, the backup complete and of the commit the script
started from while the sources are ahead of `dist`, and so on to the end or
through the rollback.  It holds of the one script that works (`Alone`), as long as
none of the four mishaps has happened that the script does not put right: no failure
of the backup or of the rollback, no interruption in between, no overlap (`OnTrack`,
`UpdateInv`).  One lemma
treats each kind of step: `InterruptStep`, for instance, shows that a kill outside
the commands in which the sources are ahead leaves a settled node, and `RestartStep`
that services are only restarted from a `dist` that nobody is writing.

**Only model-checked**: the liveness properties `AnsweredUnlessLost`,
`BreakerCloses`, `RequestsEnd`, `NothingLeft`, `RequestsSettle`,
`EveryFetchSettles`, `EveryCallSettles`, `PushesSpread` and `PushesRun`, since
fairness and ENABLED are beyond the prover.

## 6. Not modelled

Every component of the table is listed in `PROJECT.json` with its status.  Left
out for good: the encoding of frames (generated code), display and export of
statistics, start-up, logging, installation scripts, the page: they keep no state
that others depend on.  Of modelled components: the health check and `stop` of
the RPC server (the check only writes what the monitor displays), the HTTP
endpoints of the monitor server that only read, requests to the proxy without an
address, the parts of the update script named above.  Not modelled yet: the log
rotation of the proxy.

## 7. Plan

In order, the most important behaviour first.  Done: 1 to 9.

1. `IPv6Pool`, `FetchService`, `UTLSFetcher`, `FetcherHistory`; proofs.
2. `CircuitBreaker`, `BreakerHistory`; proofs of the drift and of trips.
3. `ProxySession`; proofs of exclusive refresh and balanced slots.
4. `RpcChannel`, `RpcHistory`; proofs of their safety properties.
5. `ProxyHandler`: the retry loop, statistics and shutdown; proofs.
6. `ConfigManager` with `serveConfig`, `ConfigHistory`; proofs.
7. `WsChannel`: the WebSocket channel and the request logs; proofs.
8. `Webhook` and `AutoUpdate`: updates of all nodes and of one; proofs.
9. `ProxyIdentity`: fingerprint and client of an address; proofs.
10. Log rotation of the proxy (`main.go` 378-511): a rename whose open fails.
11. The overlapping health checks of the RPC server.
