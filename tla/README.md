# TLA+ verification of zaphyl

zaphyl is a reverse proxy: HTTP/1, HTTP/2 and HTTP/3 listeners in front of
upstream servers, with a shared response cache, load balancing, rate limits,
automatic certificates, static sites and WASM plugins.  This directory holds TLA+
models of the parts where concurrency, failure and time decide whether the
program is right, the TLC runs that check them on small instances, and TLAPS
proofs, for instances of any size, of nearly every safety property the runs check.

## 1. The system

| Part | Source (`src/crates/`) | State | Operations | Module |
|---|---|---|---|---|
| Response cache | `zaphyl-core/src/cache.rs` | map behind a mutex; directory of entry files | `lookup`, `put` | `ResponseCache`, `CacheContract` |
| HTTP/1 and HTTP/2 proxy | `zaphyl/src/main.rs` | `RequestCtx` per request | the `ProxyHttp` callbacks | `CachingProxy`, `RequestBody`, `PluginChain` |
| HTTP/3 proxy | `zaphyl/src/http3.rs` | locals of `proxy_request`; flag per connection | `handle_connection`, `proxy_request` | the same three |
| Upstream clients | `zaphyl/src/upstream.rs` | none | `revalidate`, `fetch` | `CachingProxy`, `PluginChain` |
| Rate limiter | `zaphyl-core/src/ratelimit.rs` | window per client | `check` | `RateLimiter` |
| ACME runner | `zaphyl/src/acme.rs` | `cert.pem`, `key.pem` | `start`, `renewal_loop` | `CertRenewal` |
| Challenge store | `zaphyl-core/src/acme.rs` | tokens | `insert`, `response_for` | `CertRenewal` |
| Certificate reload | `zaphyl/src/tls.rs`, `http3.rs` | `ReloadCache` per listener | `get` in each handshake | `CertRenewal` |
| Plain-HTTP front | `zaphyl/src/http_front.rs` | none | accept loop, `respond` | `CertRenewal` |
| Load balancing | `zaphyl-core/src/router.rs` | counter, health flags | `next_target` | `LoadBalancer` |
| Health prober | `zaphyl/src/main.rs` | none | probe, store | `LoadBalancer` |
| Plugins | `zaphyl-plugin`, `zaphyl/src/plugins.rs` | compiled chains; epoch | `build`, `run` | `PluginChain` |
| Route matching | `zaphyl-core/src/router.rs` | none | `match_route`, `rewrite_path` | `Routing` |
| Configuration, sites | `zaphyl-config` | TOML files | `load`, `validate` | `Routing`, `Sites` |
| Command line | `zaphyl/src/cli.rs` | site files | `site add`, `enable`, `disable`, `remove` | `Sites` |
| Access control | `zaphyl-core/src/access.rs` | none | `allows` | a flag in `CachingProxy` |
| Static files | `zaphyl-core/src/static_files.rs` | none | `resolve` | a step of `CachingProxy` |
| Metrics | `zaphyl/src/metrics.rs` | counters | `record` | none |

How they interact.  The two proxies share one `Router`, and so one counter and
one set of health flags per route, and one `ResponseCache`.  A request is
admitted, then answered from a directory, by a plugin chain, from the cache, or
by an upstream; a stale cache entry is revalidated with a conditional request
that the proxy makes itself.  The ACME runner writes files that handshakes read,
and tokens that the plain-HTTP front serves to the CA.  The prober writes flags
that every request reads.  The commands of one process write the site files that
another process, the server, reads when it starts.  Little is passed in messages
(the body pump of HTTP/3 has a channel, plugins run on a pool): the parts meet in
shared memory, in files and at the origin.

What is hard, and what makes each part correct:

- **Cache.**  Threads meet in the map and, with no lock at all, in the
  directory; the process may die between two system calls.  Correct means: it
  stays within its limits, no key gets another key's response, and nothing is
  called fresh beyond the lifetime its `put` asked for.
- **Proxies.**  Every await is a point where the cache, the origin and the clock
  move on.  Correct means: only whole bodies are stored, what is served from the
  cache was justified by the origin, private responses are not shared, rejected
  requests go nowhere, and with a timeout only the awaits without one may hang.
- **Request bodies.**  A task of its own reads the client, a bounded channel is
  between it and the upstream client, and both ends may vanish.  Correct means:
  the origin gets a prefix within the limit and does not take it for more than it
  is, early data that is unsafe is not forwarded, nobody waits for ever.
- **Rate limiter.**  The clock is read before the mutex is taken.  Correct means:
  late readings admit no more than a window's worth per window, and refuse nobody
  who keeps to the limit.
- **Plugins.**  Foreign code on a bounded pool.  Correct means: hooks nest, see
  whole bodies, and one that never returns is cut off.
- **Certificates.**  Two files are replaced one after the other under the eyes of
  readers who look at the time stamp of one of them.  Correct means: a handshake
  serves a matching pair no older than what it found, a restart finds usable
  files, the CA finds its tokens, and a certificate that is due is renewed.
- **Load balancing.**  Scans of concurrent requests share one counter.  Correct
  means: an unhealthy target is used only when there is no healthy one.
- **Sites.**  Files are truncated and then written while a server may be reading
  them.  Correct means: a file says what was asked for, a server never runs with a
  site nobody asked for, sites get their requests whatever the main configuration
  says, and a start that met a command at work succeeds in the end.

`PROJECT.json` lists the hazards one by one, with their lines and the
properties that catch them.

## 2. Modules

Each component is a module with its state as VARIABLES and one action per
operation or step; `MC*` modules add the values that configurations use.

**`ResponseCache`.**  A thread in `lookup` or `put` has a program counter; each
critical section of the mutex and each system call on the directory is an
action (`LookupMap`, `ReadFile`, `Refill`; `EvictScan`, `EvictRemove`,
`OpenTmp`, `WriteTmp`, `WriteFails`, `RenameTmp`, `PutMap`).  An open file keeps
its identity when it is renamed or removed (`handle`), as POSIX has it.  A
response is the key it was stored for and the number of the `put`.  An expiry on
disk has whole seconds (`Encode`).  A file either decodes or is `Torn`; one
`write(2)` is taken as one step.  Three histories: `granted` is what `put` was
called with, `crowded` counts the puts that listed the directory while another was
between its listing and its rename, `shared` has the names whose temporary file two
puts had between them.

**`CacheContract`** is what the cache promises its callers, with neither map nor
directory: a set of responses that `put` was called with; a lookup answers with
one of them for its key, or a miss, and calls it fresh only if what is left of
its lifetime, which may shrink and never grows, is not over.  Losing an entry at
any time is allowed.  **`CacheRefinement`** instantiates it with `call` computed
from the program counters of `ResponseCache`, the other variables as they are;
`ImplementsContract` says that every step of the cache is a step of the contract
or a stutter.

**`CachingProxy`.**  A request goes through the stages `admit`, `plugin`,
`lookup`, `reval`, `collect`, `forward`, `await`, `body`, `done`; both front ends
are one machine that differs where the code does (`AdmitH1` and `AdmitH3`, the
place of the 413, `RefreshedAt`, `BodyTimesOut`).  Of the cache it uses what
`CacheContract` promises and nothing else, so the interleavings inside the cache
need not be repeated, and every eviction policy is covered.  A response is its
version, the headers the code looks at and its size in chunks.  The origin is
outside the program: it answers, changes, fails or stays silent at any time.

**`RequestBody`.**  The QUIC connection with its early data (`Connect`,
`Handshake`, and `SetFlag` by the task that waits for the handshake), admission
(`Resolve`: 425, 413 or forwarded), and the body: on HTTP/3 `PumpRecv`,
`PumpSend`, `PumpEnd` of the task, the channel, and `Take`, `TakeEnd` and `Drop`
of the upstream client; on HTTP/1 and HTTP/2 `Filter` and `FilterEnd` for
`request_body_filter`.  The client sends chunk by chunk, finishes or resets, and
retries what was refused as too early.  A chunk is one unit of size.

**`RateLimiter`.**  `ReadClock` and, separately, `Check` under the mutex, so
readings arrive in any order.  `log` and `refused` are histories.

**`PluginChain`.**  `Build` compiles the chains, global plugins first.  A request
is buffered (`ReadChunk`, `ReadEnd`, `ReadError`), queued for a thread of the
blocking pool (`Dispatch`), and each hook continues, responds, traps or runs into
its deadline in ticks of the epoch (`Interrupt`); between the phases `fetch` gets
the upstream's answer.  What a message has been through (`trace`) stands for its
contents.

**`CertRenewal`.**  The runner's steps from `Start` over the plain-HTTP front
(`SpawnFront`, `BindFront`, `WaitBound`, `FrontFails`) to `WriteKey`, with each
`fs::write` as truncation and write; the CA fetches tokens (`CaFetches`) while
the front lives; handshakes are `Stat`, `Compare`, `ReadCert`, `ReadKey`,
`StoreCached`.  A certificate and its key are the number of the order that
issued them.  With `MtimeTies` the truncation and the write of `cert.pem` have
one modification time.  `Crash` ends the process, `Start` begins it again.

**`LoadBalancer`.**  `next_target` with each access of the counter and of a flag
as a step, next to the prober.  Of a call, `steady` remembers which flags were set
throughout, `taken` which targets other calls drew meanwhile, and `wrapped` whether
the counter started over.

**`Routing`** has operators only: `PathUnderPrefix`, `MatchRoute` and
`RewritePath` on paths as sequences of characters, `Validate` of a configuration,
`FromToml` and `ToRoutes` of a site, `MergedRoutes`, `MergedDomains` and
`BuildRouter`.  A TOML text is the function of its keys to values.  The address of
an application is taken to have a port, which nothing checks (section 5).

**`Sites`** puts them to work.  `SiteAdd`, `SiteSetEnabled` and `SiteRemove` are
what commands decide from the files they find, `OpenFile`, `WriteFile` and
`WriteFails` how they write; `Start`, `ReadSite`, `Loaded`, `Assemble` and
`Restart` are `main` and the service manager.  The server reads the files of its
listing (`pending`) in the order of their names and collects `routes` and
`domains` as the loop of `Config::load` does; `Loaded` puts the main file's behind
them.  `sites` is a history of what it read, and `asked` one of the sites that
completed commands were to leave.  Commands and server have one directory, as with
`packaging/zaphyl.service`: the server's is next to its main file, the commands' is
`/etc/zaphyl/sites` unless `ZAPHYL_SITES_DIR` names another.

**`ResponseCacheProofs`, `CachingProxyProofs`, `RequestBodyProofs`,
`RateLimiterProofs`, `PluginChainProofs`, `CertRenewalProofs`,
`LoadBalancerProofs`, `SitesProofs`** hold the theorems of section 6 about the
module each is named after, and `ResponseCacheProofs` the refinement of
`CacheRefinement` too.

## 3. Runs

Passing runs:

| Run | Instance | Shows |
|---|---|---|
| `cache` | 2 threads, 3 keys in 2 files, room for 1 entry, 2 puts | `MemoryBounded`, `EntriesGenuine`, `LookupHonest`, `OverrunCounted`, `TornOnlyIfShared` and `ImplementsContract`, with restarts, failing writes and every interleaving |
| `proxy_caching` | 3 requests, with and without credentials, 2 versions of a response that is public, private, varying or an error | `HitsJustified`, `SharedIsPublic` |
| `proxy_requests` | 2 requests of all kinds, plain and plugin routes, bodies of 1 and 2 chunks, errors, an origin that may stay silent | `StoredWhole`, `RejectedNeverForwarded`, `OnlySilentBodiesHang` |
| `request_body` | 1 request on either listener, bodies of 0 to 4 chunks, limit 3, channel of 2 | `PrefixWithinLimit`, `CompleteIsWhole`, `ReplaySafe`, `RetrySucceeds`, `BodyEnds` |
| `rate_limiter` | 3 requests of a client, 2 events in a window of 2, times up to 4 | `RateSustained`, `RefusedJustly` |
| `plugin_chain` | 2 requests, a pool of 1, a global plugin, a route with none of its own and one with two | `Nested`, `HooksSeeWholeBody`, `PhasesEnd` |
| `cert_renewal` | 2 handshakes, 3 orders, a failure or a crash, coarse file times | `NoOldCertServed`, `ChallengeAnswered`, `RenewedEventually` |
| `balancer` | 2 calls at a time, 2 targets, a counter that wraps at 5 | `FallbackExcused`, `HealthFollows` |
| `sites` | 1 operator, 2 domains, 3 commands, 7 main configurations, all paths of up to 3 segments | `SitesAsAsked`, `SitesServed`, `EveryRouteServes`, `RoutedBySegments`, `UpAgain` |

`TypeOK` of each module is checked in one of its runs, except for
`LoadBalancer`.

Runs that show a disagreement between what the code does and what the repository
says of it; the quotations are in `PROJECT.json`, "findings":

| Run | Property | What happens |
|---|---|---|
| `cert_mixed_pair` | `CachedPairMatches` | a new certificate is cached with the old key |
| `cache_overrun` | `DiskBounded` | two puts find room at once, and the directory outgrows `max_entries` |
| `proxy_cookie` | `CookiesNotShared` | the `Set-Cookie` of a response that answered a revalidation reaches other clients |

**Bounds.**  `MaxTime`, `MaxPuts`, `MaxVersion`, `MaxOrders`, `MaxFailures`,
`MaxLength` and `MaxCommands` cap what would grow for ever.  They leave room for
the cases that matter:

- two threads are enough for every race over one file; with room for one entry the
  second put evicts what the first stored or, at the same time as the first, overruns
  the limit; the theorems of section 6 cover other sizes;
- three requests are one that stores, one that revalidates and one that is
  served; two versions and one tick past the lifetime make entries stale and
  outdated;
- bodies of one and two chunks with a limit of one fit and overflow in the middle;
- a body of four chunks passes the limit of three, and the channel of two, for
  four in the code, fills while the pump holds a further chunk; requests share
  nothing but the connection, whose flag one request meets in every state;
- three requests of one client are two that are admitted and one with a late
  reading; four units of time are two windows and their border; clients share
  nothing;
- two requests for one thread are one that runs and one that waits;
- three orders make a handshake that began under the first see the third; `Ages`
  leaves an order for each failure that may still come, so that a certificate
  never falls due when the bound is used up;
- three commands add, change and replace a site, next to files that were there
  at first; three of the configurations start (one with ACME, two with prefixes),
  the others are refused for a route, a number, a missing section, or by `main`.

The counter of the balancer wraps at a number that is no multiple of the number of
targets, as 2^64 is none unless their number is a power of two.  The cache without a
directory (`DiskEnabled = FALSE`) has no run of its own: it has fewer behaviours,
and the proofs cover it.

**Deadlock.**  `CHECK_DEADLOCK FALSE` is set where a bounded number of things may
all be done: the requests of the proxy, of bodies and of plugins, the orders of
certificates, the commands of sites.  It is checked for the cache, the balancer
and the limiter.

**Symmetry** is used for threads (`cache`) and requests (`proxy_caching`,
`proxy_cookie`), in runs without liveness only; `ImplementsContract` is a safety
property, in which threads are interchangeable.

**Fairness.**

- `CachingProxy`: a task that can go on is polled, and timers fire; the origin and
  the client owe nothing.
- `RequestBody`: tasks are polled, and the upstream client reads unless it drops
  the request.  `BodyEnds` asks nothing of the client.  `RetrySucceeds` asks that
  its handshake ends and that it repeats the request, which is what a 425 is for.
- `PluginChain`: the ticker loops for ever (it is a thread of its own that only
  sleeps and increments), the pool runs what is queued, running code reaches its
  next check of the epoch, and timers fire; plugins, clients and upstreams owe
  nothing.
- `CertRenewal`: the runner's thread and the front's run, a process that ended is
  started again (`packaging/zaphyl.service:10` has `Restart=on-failure`), and the
  CA gets round to every challenge; failures and crashes are finitely many by
  `MaxFailures`.
- `LoadBalancer`: the prober loops for ever; nothing is asked of calls.
- `Sites`: the server and the commands run on, and a server that failed is
  started again, as above.

## 4. Mutants

For every property of every passing run `PROJECT.json` names an operator of the
module that changes one definition as a plausible mistake would (a comparison
with `>` for `>=`, a missing comparison of keys, a missing check, a step too
early).  TLC finds the property violated for each, so none of them holds by the
shape of the model alone.

## 5. What the models also show

By changing a configuration, by dropping an exception from a property, or by
reading the actions:

Cache and proxy.

- The directory is not bounded by `max_entries` (run `cache_overrun`): two puts both
  see room, each adds a file, and a later `evict` removes one file at most
  (`cache.rs:300`), so it stays too large.  `OverrunCounted` says how far it gets.
- The comments "written atomically" (`cache.rs:270`) and "a reader never sees a
  half-written file" (`cache.rs:304`) hold for one writer of a name only: two puts of
  one file name share a temporary file, and the rename of one publishes what the
  other has only truncated (`cache.rs:302`).  `TornOnlyIfShared` says that nothing
  else does; `decode` notices, so `EntriesGenuine` holds all the same.
- A captured response lives for max-age from the end of its body (`main.rs:793`,
  `http3.rs:709`), so a slow body is served past its max-age.
- A 200 that answers a revalidation is stored with its `Set-Cookie`: `stored_ttl`
  does not ask for one, as the response path does (`main.rs:372`).  `cache.rs:3-7`
  says that such responses are not cached; run `proxy_cookie` shows one that is, and
  is given to another client.
- On HTTP/3 nothing limits the wait for a response's body (`http3.rs:688`), nor
  on any front end the collection of a body by the proxy's own client
  (`upstream.rs:114`); `OnlySilentBodiesHang` names these awaits and no others.
- With `strip_prefix` the conditional request of `revalidate` names the path
  before rewriting (`main.rs:521`, `http3.rs:422`).  `CachingProxy` has one
  resource per key and so models routes without it.
- `Accept-Encoding: gzip;q=0` has the cache key of a client that takes gzip.

Requests.

- Plugin routes on HTTP/3 skip `max_request_body_bytes` (`http3.rs:302`), although
  `http3.rs:49` and the configuration (`zaphyl-config/src/lib.rs:169`) promise a 413;
  `RejectedNeverForwarded` names that path and no other.
- A body of undeclared length that HTTP/3 cuts off at the limit, or that the
  client resets, ends as a complete one for the origin (`http3.rs:547`), with no 413
  either.  `CompleteIsWhole` is about declared lengths there.
- A reset on HTTP/3 hands a truncated body to the plugins (`http3.rs:342`);
  `HooksSeeWholeBody` is about HTTP/1 and HTTP/2.
- A request whose declared length is above the cap of `[plugins]` passes its
  plugins by.  A plugin inside a host call is not interrupted until it returns.
- The rate limit is on HTTP/1 and HTTP/2 only.  At the border of two windows a
  client is admitted twice the limit within one window's time, and more if
  requests were held up between reading the clock and `check`.  The map keeps a
  window for every client ever seen.
- "If none are healthy, fall back" (`router.rs:172`) holds for a call that no other
  overlaps.  Of two concurrent calls one may fall back although a target was healthy
  throughout, for each moves the counter the other scans by (`router.rs:175`): TLC
  finds it in 11 steps when `FallbackExcused` is asked for `steady = {}`, without a
  wrap of the counter.  Its wrap at 2^64 repeats or skips a target unless their
  number is a power of two.

Certificates.

- With an HTTP/3 listener `NoOldCertServed` fails: `load_certs` accepts a truncated
  file, and the handshake serves an empty chain (`http3.rs:992`).  With `MtimeTies`,
  `CachedPairMatches` fails likewise, since the finished file has the same time
  stamp.
- `start` looks at the existence of the two files only.  A crash or a failed write
  between them leaves a whole certificate with another key, which is not due and
  so is not replaced (`acme.rs:49`, `acme.rs:142`).  `RenewedEventually` is about
  the certificate, as `needs_renewal` is.
- An error of `accept` ends the plain-HTTP front for good (`http_front.rs:45`):
  from then on no challenge is answered.  `RenewedEventually` is promised while
  the front lives.
- Tokens stay in the `ChallengeStore`: nothing calls `remove`.

Sites.

- Two operators who run `site add` for one domain at the same time may both find
  no file, and the second replaces the first one's without `--force`
  (`cli.rs:225`).  The file is still what one of them asked for: `SitesAsAsked`
  holds with two operators and two commands as well.
- The contents of a site file are taken as one `write(2)`.  A shorter one could
  leave a text that parses, with defaults for what is missing.
- A site of an application is served as a directory and never proxied:
  `to_route` (`sites.rs:78-87`) gives the route both an upstream and a root, which
  `validate` refuses of a route in the main file, and both front ends serve a route
  with a root from it first (`main.rs:154`, `http3.rs:257`; `Handler` of `Routing`).
  `sites.rs:19` says "Reverse-proxy to an upstream HTTP application", and the
  repository's `README.md:113` "Proxy to an app".
- Sites are not validated.  The address of `--app` is taken as it is given, without
  the test for `host:port` that `validate` makes of a route (which the URL of
  `README.md:114` would pass: it asks for a port behind the last colon only).  PHP
  sites are served as static files.
- Where `ZAPHYL_SITES_DIR` or `--config` put the two directories apart, the commands
  write files that no server reads; the model has one directory.
- A site with automatic TLS that is added later is not in the certificate there
  is: `start` finds files and waits until they are due.

## 6. Proofs

The theorems hold for every value of the constants that satisfies the module's
named assumption (`CacheConstants`, `ProxyConstants`, ...): any number of threads,
requests, keys, files, orders or domains, and any bound, since the `Max...` bounds
may be any number.  The assumptions say what the code's types say, and that marker
values such as `None`, `NoWindow` or `Absent` are not also values of the kind they
stand in for.  TLC evaluates them in the runs.  A theorem that needs more says so
in its own ASSUME.  Each is proved from an invariant that holds at first, that every
action keeps, and that implies the property; where a property is not inductive, the
list says what had to be added.

Some theorems are action properties, `Spec => [][A]_vars`: what no step may do in a
state that satisfies the invariant.  `A` is defined in the proof module, next to the
theorem, and is not among the properties of the runs.

**`ResponseCacheProofs`.**

- `TypesCorrect`: `TypeOK`, with `CallState`: what a thread holds at each place
  (a thread about to insert or to write holds an entry, one about to remove has
  a victim).  `TypeOK` alone is not inductive: the insertions need an entry where
  the type also admits `NoEntry`.
- `MemoryStaysBounded`: `MemoryBounded`.  The one step is `InsertKeepsBound`: if
  the map is full and the key is new, an entry that is present goes first.
- `EntriesStayGenuine`: `EntriesGenuine`, inductive together with the types because
  it speaks of the entries in flight and in temporary files too.  `EncodeShortens`
  shows that a file never extends a lifetime.
- `LookupsAreHonest`: `LookupHonest`, from the previous one at the step that
  answers, and because `granted` only grows.
- `DirectoryOverrunCounted`: `OverrunCounted`, for any number of threads.
  `RoomCounted` says that the files in the directory and the puts past their listing
  together exceed the limit by the crowded listings at most, and by one while a file
  is about to be removed.
- `HalfWrittenOnlyIfShared`: `TornOnlyIfShared`, for any number of threads.
  `WholeUnlessShared`: a name that is not shared has one writer at most, and what that
  is about to rename is whole.
- `CacheImplementsContract`: `ImplementsContract`.  Initial states map to initial
  states (`InitRefines`); of a call, the first step is the contract's `Ask` or
  `Store`, the last its `Reply` or `Stored`, and those between change nothing it
  speaks of (`InnerStep`).  `Reply` is where `EntriesGenuine` is needed.

**`CachingProxyProofs`.**  `ProxyInv` says what the stage of a request implies: it
passed admission, the answer it holds is its own, what it captured fits and may be
stored, what it revalidates was stored for its key.  A step of one request leaves the
others alone (`OthersKeep`), so each action is looked at for one request only.

- `TypesCorrect` and `RejectedStayOut` (`RejectedNeverForwarded`) follow from it;
  `TypeOK` includes that the buffer for the cache keeps to `max_body_bytes`.
- `StoredBodiesWhole`: `StoredWhole`.  The three places that store are the end of a
  captured body, a collected 200 and a 304 that refreshes what was stored.
- `SharedOnlyPublic`: `SharedIsPublic`, by way of the store: everything in it is of a
  request that may use the cache (`KeyedCacheable`) and neither private, varying nor
  failed, and what is served from the cache is in it.  Cookies are not part of it
  (section 5).
- `HitsAreJustified`: `HitsJustified`.  `CurrentInv` carries, for every stored entry
  and for every answer in flight, a time since which its version was current.
- `RequestsRunOnce` (action property): a request is handed to the upstream client at
  most once, after a failed revalidation too; a request that is done changes no more;
  the cache takes in only a response that ends a request in that very step, as what
  its client was given.  `SentOnce`: a request that was sent on is past the
  stage that sends.

**`RequestBodyProofs`.**  `FlowInv` accounts for every chunk: what the pump has
read is at the origin, in the channel or in its hands, in order, and no more than
the client sent and the limit allows.

- `TypesCorrect`, `OriginHasPrefix` (`PrefixWithinLimit`), `CompleteBodiesWhole`
  (`CompleteIsWhole`) follow from it.
- `ReplaysRefused`: `ReplaySafe`, with `ConnInv`: the flag of a connection is not set
  before its handshake is done.
- `BodiesEndOnce` (action property): what the origin has grows by one chunk at a time
  and only while the body is open, which ends once; whether a request is forwarded or
  refused is decided once.

**`RateLimiterProofs`.**

- `TypesCorrect`: `TypeOK`, and that no reading is from the future.
- `RefusalsJust`: `RefusedJustly`.  A window counts the last admissions of the log,
  all made after the reading that opened it (`WindowsCount`).
- `AdmissionsBounded`: `RateSustained`.  `WindowsBegun`: each window before the
  present one let at most the limit pass, and was over when the next was opened,
  however late the readings arrived.
- `WindowsMoveForward` (action property): a late reading never sets a window back or
  clears its count; a new window begins a window's length after the last or later.

**`PluginChainProofs`.**  `PluginInv` ties the trace of a message to its place in the
chain, a queue without duplicates to the requests that wait, and buffers to bodies.

- `TypesCorrect`, `BodiesWhole` (`HooksSeeWholeBody`) and `PluginsNest` (`Nested`), for
  chains of any length.
- `PhasesRunOnce`: at most `PoolSize` runs of a chain are under way, and (action
  property) a request never goes back to an earlier stage: no phase is begun twice or
  after its request is over, or left between two hooks while the request goes on.
  This rests on the queue's part of `PluginInv`: a request waits in it at most once,
  and not while it runs.

**`CertRenewalProofs`.**

- `TypesCorrect`: `TypeOK`.
- `ChallengesAnswered`: `ChallengeAnswered`.  The CA is told of the order in progress
  only, after its token was stored (`TokensReady`).
- `ServesCurrent`: on either listener a handshake serves no certificate older than
  the one it found, or, over HTTP/3, the empty chain of a file that is truncated at
  that moment.  `FileCurrent`, `CachedCurrent` and `LoadedCurrent` relate the time
  stamps of files, caches and handshakes in flight to the orders they stand for.
- `NoOldCertOverTcp`: `NoOldCertServed`, assuming that all handshakes are over
  TCP; over HTTP/3 the empty chains make it false (section 5).
- `GoodPairsKept` (action property): a certificate and a key on disk that belong
  together are touched only when they are due and the CA has issued a newer
  certificate.  `PairInv`: while an order is in progress there is no such pair or it is
  due, and while the files are written the key on disk is of an earlier order.

**`LoadBalancerProofs`**, for any number of calls at once and any width of the counter.

- `TypesCorrect`: types, and no call makes more rounds than there are targets.
- `FallbackOnlyIfOvertaken`: `FallbackExcused`.  `ScanInv`: as long as the counter has
  not started over, every number it went through since the call began was drawn by the
  call itself, which found the target not healthy, or by another call.
- `AlonePrefersHealthy`, its corollary: a call that no other overlaps falls back only
  if no target was healthy throughout, until the counter starts over.

**`SitesProofs`**, for any number of operators at once.  `SitesInv` has two halves.
Files: a command about to write has the text of the site it was asked for
(`CommandsSound`), which rests on the round trips `WrittenReads` and `EnabledReads`
through `write_site_toml` and `from_toml`; a file is truncated or reads as what was
asked for last (`FilesRead`), and a truncated one is in the hands of a command or
`damaged` (`EmptyKnown`).  Server (`ServerInv`): its routes are those of the enabled
sites it has read, and once loaded those of a valid main configuration behind them.

- `TypesCorrect`: `TypeOK`.
- `FilesAsAsked`: `SitesAsAsked`.
- `RequestsReachSites`: `SitesServed`.  The first match is the least index (`MinOf`);
  site routes have a host and the lower indices, and behind them the routes of the
  configuration keep their order.
- `RoutesAllServe`: `EveryRouteServes`.
- `PrefixesMatchSegments`: `RoutedBySegments`.  `Render` joins segments by slashes.  The
  lemmas about it take the least number of segments at which they would fail and
  unroll the fold once there, which is how induction over a path is done here.
  `PathsTried` says that no segment has a slash in it and that every prefix of a valid
  configuration is made of segments that are tried.
- `AnyPathMatchesSegments`: the same without `PathsTried`, for every path of any number
  of segments of any length, over any set of characters.
- `StartsFailWithReason` (action property): a start of the server fails only for a main
  configuration that is not valid or not sound, or at a site file that was removed
  after the listing, that a command is writing, or that a failed write left empty.
  This is the safety half of `UpAgain`.

Every invariant that the passing runs check is proved.  Only model-checked is liveness
(`OnlySilentBodiesHang`, `RetrySucceeds`, `BodyEnds`, `PhasesEnd`,
`RenewedEventually`, `HealthFollows`, `UpAgain`), which is out of the
prover's reach, as is `ENABLED`.

## 7. Not modelled

- The syntax of header values, addresses and TOML: pure string functions.
- Compression and its encoders; the rewriting of headers.
- Access control: stateless matching of addresses against networks, done by a
  library; `CachingProxy` has its verdict.
- Static file resolution: what `canonicalize` makes of a path depends on the file
  system alone; serving a file is one step.
- What happens inside Pingora (vendored too), hyper, quinn, rustls, wasmtime and
  the ACME client; the models take them as their callers see them.
- The redirect of the plain-HTTP front, a pure function of the request.
- `site list`, metrics and the access log, which change nothing that is read.

## 8. Plan

Done: the modules of section 2, their runs, and the proofs of section 6.  Left are the
liveness properties, which this prover cannot state as theorems, and four hazards
that no property covers, each with its reason in `PROJECT.json`.
