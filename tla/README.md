# toss-gateway in TLA+

A verification development for `toss-gateway`, a stateless HTTP gateway in front of the Toss
Securities Open API: TLA+ models of its concurrent core, TLC runs over small instances, and TLAPS
proofs for every instance.

```
tlc -config limiter_window.cfg MCWindow     # a model-checking run
tlapm LimiterWindowProofs.tla               # a proof module
```

## 1. Inventory

| Component | Source | State | Operations |
|---|---|---|---|
| Rate limiter | `internal/ratelimit/limiter.go` | map `client\|group` -> token bucket under `Limiter.mu`; each bucket's fields under its own `bucket.mu` | `Allow`, `Observe`, `Refund`, `GC`, `StartJanitor` (inside: `getBucket`, `evictLocked`, `effectiveLimit`, `bucket.allow`, `bucket.refund`) |
| Request pipeline | `internal/httpapi/handlers.go`, `response.go` | one goroutine per request, nothing kept between requests | 21 handlers, `proxy`, `settle`, `observe`, `writeRateLimited`, `writeUpstreamErr`, `writeUpstream` |
| Toss client | `internal/tossclient/client.go`, `endpoints.go` | none (a shared `http.Client`) | `do`, one method per endpoint, `parseRateLimit` |
| Client identification | `internal/tossclient/jwt.go` | none | `ClientIDFromAuth` |
| Server and middleware | `internal/httpapi/server.go`, `middleware.go` | stop channel, mux; per request the context, the recorded status, the writer's headers | `routes`, `Handler`, the document handlers; `contextMW`, `recoverMW`, `logMW`, `corsMW` |
| Process lifecycle | `cmd/gateway/main.go` | signal context, `http.Server` and its connections | listen, wait for a signal or a failure, graceful shutdown, exit |
| Configuration | `internal/config/config.go` | read once | `Load` |
| Messages | `internal/i18n/i18n.go` | tables | `Resolve`, `Message` |
| Documentation assets | `internal/openapi` | embedded files; in the browser: the page, its scripts, its load listener, its UI | the page, `swagger-init.js`, the bundle, the specification |

**How they interact.** A request passes the middleware and the mux to its handler. The handler
checks parameters, calls `proxy`, which checks the headers, asks `Limiter.Allow`, calls Toss, hands
the answer's headers to `Limiter.Observe`, after a 401 or 403 calls `Limiter.Refund`, and replies.
`handleIssueToken` does the same by hand, without header checks and without the refund. A ticker
goroutine calls `Limiter.GC`. The limiter is the only state requests share. Around all of it `main`
listens, and on a signal lets `http.Server.Shutdown` wait for the connections that have a handler.
The documentation page is served by the same chain, and the browser then asks it for scripts, for
the specification, and for whatever a user tries out.

**What is hard.** `Allow` reads the clock, then takes `Limiter.mu` to get a bucket, releases it,
reads the bucket's `adaptLimit` with no mutex, and only then takes `bucket.mu`. In each gap other
requests spend, block and refund, and eviction and GC delete buckets that goroutines hold pointers
to. Clock readings are used late and out of order. The answers of concurrent requests are applied in
any order. The upstream call can fail after the token was spent. At a signal the read, write, upstream
and shutdown timeouts run against each other. A panic takes another way out of the middleware than a
reply. A page's scripts arrive in any order, and a shared cache hands one client's reply to another.
`PROJECT.json` lists each of these hazards at its line and the properties that cover it.

**What makes each component correct.**

* Limiter: a key is not granted more than its limit allows; a 429's block is kept; clients do not
  touch each other's buckets; the map is bounded and idle buckets go away; every call returns.
* Pipeline: a request is rejected before it costs anything, pays exactly once, is refunded exactly
  when the code says so, and is answered; the gateway's own `Retry-After` is honest.
* Client: redirects are bounded.
* Middleware: the access log, the errors and the CORS headers are right on every path through the
  chain, preflights, unknown paths and panics included.
* Lifecycle: a signal stops the process; there are timeouts under which no drain loses a request, and
  a slow body and a slow call leave the reply its time before the write deadline.
* Documents: the page finds its parts at any base path and shows the specification in whatever order
  they come; what a cache keeps of it says nothing about another client.

## 2. Modules

| Module | Stands for |
|---|---|
| `Bucket` | the token bucket's arithmetic and `effectiveLimit`, as operators on records |
| `Limiter` | the limiter under concurrency: its state, one action per critical section |
| `LimiterWindow` | `Limiter` with history: which key a bucket was made for, what it granted in a window |
| `LimiterPromise` | `LimiterWindow` with history per key over all its buckets: grants, bans, and what tore them |
| `Gate` | the abstract limiter: requests ask, are granted or denied, report bans; no buckets, map or mutexes. `LimiterPromise` implements it |
| `Gateway` | the request pipeline and the Toss client, composed with `Limiter` step by step |
| `Lifecycle` | `main`, `http.Server.Shutdown` and the connections with their deadlines |
| `Middleware` | a request's way in and out of the chain of wrappers, the mux and what a handler replies |
| `Docs` | the documentation page in a browser, composed with `Middleware` and a shared cache |
| `MC*` | values for TLC |
| `LimiterProofs`, `LimiterWindowProofs`, `LimiterPromiseProofs`, `GateProofs`, `GatewayProofs`, `PaidProofs`, `LifecycleProofs`, `DocsProofs` | theorems |

### Bucket and Limiter

*Time* is a natural number of ticks, one per clock resolution; 0 is Go's zero `time.Time`. *Limits*
are integers in units of `1/SafetyUnit` requests per second, so that the safety factor is exact.
*Tokens* are counted in the amount one tick adds at limit 1; a request costs
`Token = SafetyUnit * TicksPerSecond`. The code's floats are therefore exact in the model: rounding
errors of `float64` are not modelled. Announced limits (`X-RateLimit-Limit`) are whole numbers.
Readings of one clock do not go back (Go's monotonic clock); a goroutine may still use an old one.

*State.* `buckets` is the map, `heap` the buckets by address, `lmu` the holder of `Limiter.mu`. A
goroutine has a place `pc`, its locals `call` and the bucket pointer `ptr` it got from `getBucket`.
`scan` and `gc` are the locals of an eviction and of the janitor. A bucket that neither the map nor a
goroutine points to is garbage and its address may be used again, so a removed bucket lives on
exactly as long as in Go.

*Grain.* A section under `bucket.mu` is one step, because its holder never waits for anything.
`Limiter.mu` is explicit, because eviction and GC hold it over many bucket sections. The unguarded
read in `effectiveLimit` is a step of its own; an aligned 64-bit load returns the old or the new
value on the platforms Go builds for, which is what interleaving the step gives.

| Action | Code |
|---|---|
| `CallAllow` | `Allow` to the clock reading; a disabled limiter or an unknown group grants at once |
| `LookupHit`, `LookupCreate`, `LookupFull` | `getBucket` under `Limiter.mu` |
| `EvictVisit`, `EvictCommit` | `evictLocked`: a sample in map order (any order), the oldest unblocked bucket, else the one blocked for the shortest time |
| `ReadLimit` | `effectiveLimit` |
| `TakeBlocked`, `TakeDeny`, `TakeGrant` | `bucket.allow` |
| `Settle`, `Write` | `Observe` to its clock reading; its bucket section |
| `Find`, `Give` | `Refund`: look-up; `bucket.refund` |
| `Fail` | the upstream call failed, nothing is settled |
| `GCStart`, `GCLock`, `GCVisit`, `GCDrop`, `GCUnlock` | the janitor's tick and `GC`; a bucket is judged under its mutex and deleted after it |

### Gateway

A request is what its handler tells apart: endpoint, client, whether `Authorization` and the account
header are there and valid, and the first fault of its parameters or body. `Route` is the routing
table with each endpoint's group, account requirement and possible faults; `Rejection` is the order
of the checks. `Admit`, `Limited`, `Granted` wrap the limiter's own actions; `Send` is one HTTP
request to Toss, redirects included (the client stops after three, `MaxHops`, and hands a redirect on
that it does not or cannot follow); `Answer` is
`settle` (or `observe` for tokens); `Lose` is `writeUpstreamErr`; `Relay` is `writeUpstream`.
Which rules a body breaks, wording and layout are abstracted away.

Two variables are history: `cost` counts the tokens taken for a request less those given back, and
`removed` remembers that the map lost a bucket of the request's key while it was in progress
(`LosesBucket`). `Paid` needs it: `Refund` looks the bucket up anew, and finds none, or one that has
granted nothing and takes nothing back, if GC or an eviction came between.

### Gate, and the refinement

`Gate` says what the rest of the gateway may rely on. A caller is idle, asking, granted, reporting an
answer or refunding; a key has a count of the grants in a window, the latest end of a ban, and a set
of *tears*. A grant is counted at some time between the asking and now. `Grant`'s guard is the
promise: without a tear it is after the bans; without the removal of a bucket in use it keeps to one
burst and what the limit adds. `Deny` and `End` are free: `Gate` promises safety, not service. A ban
shorter than one that stands tears the key (`Note`), and `Tear` stands for the loss of a bucket that
is not idle and unused.

`LimiterPromise!Abstract` maps the limiter to it: a caller's phase is its operation and place
(`PhaseOf`), the beginning of an operation its clock reading, the end of a ban its reading plus
`Retry-After`. Everything else of `Limiter` (the map, the heap, the mutex, scans and sweeps) is hidden;
its steps stutter. That `ImplementsGate` holds means that collection, eviction, re-creation, stale
readings and reordered answers show at the interface in no other way than as the tears. Refining with
a history of per-key grants rather than per-bucket tokens is what makes `Gate` readable: nobody who
uses the limiter has to know what a bucket is.

### Lifecycle

A connection is `"new"` until its first header, has a handler in `"body"`, `"call"` and `"reply"`, is
`"idle"` between requests, and ends `"closed"`, `"lost"` (by the exit) or `"expired"` (by the write
deadline, its reply unsent). Deadlines are times set as net/http and the client set them: the read
deadline at the start of a read, the write deadline when a header has been read (so it runs during
the body, the call and the reply, main.go:40), the upstream deadline when Toss is called. A timeout
that is not positive is none, but for Shutdown's, which then has ended before it began.

A reply is as slow as the client that reads it: `w.Write` of a relayed body of up to 8 MiB
(response.go:57) or of the bundle (server.go:178) waits for the reader until the write deadline, or
for ever without one. `Deliver` may therefore come at any time before the deadline, or never. Shutdown
looks at the connections at once and then at intervals (`PollInterval`; in net/http growing to half a
second): `pollBy` is when it looks next at the latest, and the end of the last handler is noticed no
sooner than that look, so a drain may time out although every handler has ended. At the tick at which
the context ends and a look is due, either may come first.

| Action | Code |
|---|---|
| `Accept`, `Header`, `HeaderTimeout`, `Deliver`, `Expire`, `Leave` | net/http's connection loop with `http.Server` as main.go:36-42 builds it |
| `BodyRead`, `BodyTooLarge`, `BodyStalled` | `readBody`, its 413 for any read error; the token endpoint's 400, and the discarded rest of a body nobody reads |
| `Answer`, `CallTimeout` | `tossclient.do` with the client's timeout |
| `Listen`, `ServeError`, `ServeErrorStops` | the goroutine of main.go:54 and `errCh` |
| `Signal`, `Drain` | `NotifyContext`; Shutdown closes the listener and starts its timeout |
| `Poll`, `DrainDone`, `DrainTimeout` | one look of Shutdown's: it closes idle connections and waits for the others (a new one for at most its grace), is done, or gives up |
| `Tick` | time passes when nothing is due: timers fire and runnable goroutines run first |

### Middleware and Docs

A request in the chain carries its context (id and language), the writer's headers, what
`statusRecorder` recorded, what was logged and what was sent. `Arrive` is `contextMW`, `recoverMW`'s
defer and `logMW`'s recorder; `Cors` is `corsMW`, which answers preflights; `Redirect`, `NotFound`,
`Static`, `RejectApi`, `RelayApi` are the mux and the handlers; `Log` is `logMW` on the way back, and
`Recover` is `recoverMW` after a panic, which `WriteHeader` raises for a status of Toss below 100.
Origins, ids and languages are data of which only equality and validity count.

`Docs` adds the browser. `handleDocs` writes the base path into the page's URLs (`Parse`); the two
scripts are fetched in any order but run in the page's (`FetchScript`, `ScriptHere`, `RunBundle`,
`RunInit`); `swagger-init.js` reads `data-spec-url` off `document.currentScript` while it runs and
listens for load (`SpecUrlOf`, `Load`, `AskSpec`, `SpecHere`); `Try` calls the specification's
server. Fetches fail (`Fail`), the page is reloaded (`Reload`), and between the clients and the
gateway a cache may keep what `Cache-Control: public` allows and serve it as HTTP says, by URL and
`Vary` (`FromCache`, `Done`). The browser and the cache are external, modelled by their standards.

## 3. What the runs check

| Run | Shows | Instance |
|---|---|---|
| `limiter_window` | `WindowBound`: a bucket grants in a window at most one burst and the refill of the window's limit, with adapted limits, 429s, refunds, stale readings and the peak; `TypeOK` | 2 goroutines, 1 key, clock to 3, safety 1/2, limits 3 and 1, windows across and inside the peak |
| `limiter_churn` | `LockInv`, `OwnBucket`, `BucketMapBounded`, `HolderCanGoOn`, `SweepAdvances`: eviction, GC and creation interleave, and every hold of the map's mutex goes on to its end | 2 goroutines, 2 clients, room for 1 bucket, idle time 0, 429s of 2 ticks, so that an eviction may find only blocked buckets |
| `limiter_promise` | `ImplementsGate`; `KeyWindowBoundUnlessTorn`: the bound also over all the buckets a key has had; `BanHonouredUnlessTorn`: nothing is granted inside a 429's `Retry-After` | 2 goroutines, 1 key, clock to 4, GC after 2 idle ticks, 429s of 3 ticks |
| `gateway_cost` | `Paid`: what a request has cost when it is answered, and that only a bucket's removal can cost a refused one its refund; `GTypeOK` (redirects) | 2 requests of the token and an order endpoint, room for 1 bucket, so that each group's request evicts the other's bucket; statuses 200 and 401, up to three redirects |
| `gateway_retry_after` | `RetryAfterSuffices` | 2 requests, 429s of two seconds and adapted limits across the peak |
| `gateway_liveness` | `EveryRequestAnswered`, `IdleReclaimed` | 2 requests, a limit of 1 (the ACCOUNT group's) and the janitor |
| `lifecycle` | `SignalStops`; `DrainLosesNothing` and `RepliesHaveTime`: which timeouts are enough for a drain, and how long a reply has; `TypeOK` | 2 connections, clock to 7, four settings of the timeouts: generous, the defaults to scale, none, too brief |
| `docs` | `LogIsTrue`, `ErrorsCarryContext`, `CorsOnEveryReply`, `NoForeignAllowance`, `PageFindsItsParts`, `PageShows`; `DTypeOK` | a browser and another client, two configurations, requests of every kind |
| `limiter_race`, `limiter_key_window_torn`, `limiter_ban_torn`, `lifecycle_slow_body` | expected violations, see below | small |

**Are the bounds enough?** Every hazard here is a race of two: a goroutine against another, or
against the janitor, so two goroutines and the janitor meet them all; three buckets leave one to
allocate while two removed ones are still held. One bucket of room with two clients makes every
second look-up an eviction; larger maps and samples are covered by the proofs, which have no bounds.
The clock needs to go past a block, an idle time and the start of a peak; it does. `MaxClock` is the
only bound on behaviour. Goroutines and clients are interchangeable, hence symmetry, except in the
liveness runs. The system may really stop when the clock has reached its bound, but no run deadlocks,
as the janitor always can start again. `MaxIdle` is 9 where a run does not ask about collection.

In `lifecycle` two connections are enough for one to keep the drain waiting while another is closed,
lost or goes on; the generous setting exceeds the condition of `DrainLosesNothing` by one tick, and
the run fails with one less; the clock reaches past every sum of timeouts the conditions speak of, and
a signal comes only when the shutdown timeout still fits under `MaxClock`, so that `SignalStops` does not stop
at the bound. There the process does exit, so deadlock is not checked. In `docs` one other client
suffices, because requests share nothing but the cache; its requests come from a listed origin, an
unlisted one and none, and ask for every kind of path.

**Fairness.** A goroutine that can run does run: weak fairness of each one's progress. `sync.Mutex`
hands itself to a waiter that has waited too long: strong fairness where `Limiter.mu` is taken, per
goroutine. The HTTP client's `Timeout` ends every upstream call: weak fairness of the answer-or-fail
alternative, not of either. Janitor: its ticker fires. In `lifecycle` timers fire, main and the handlers run, and time goes by, but no client and no answer of
Toss has to come. In `docs` the browser and the chain get on with what they have begun; whether it
ends in a loss is open. Not assumed: that anyone sends a request, or, in the limiter's runs, that the
clock moves.

**Disagreements between the code and what it says of itself** (`findings`):

* `limiter_race`: `effectiveLimit` reads `adaptLimit` without the mutex `Observe` writes it under, so
  the limiter is not "safe for concurrent use" in Go's sense (limiter.go:84, :135). The bound of
  `limiter_window` holds all the same.
* `limiter_key_window_torn`: GC or an eviction deletes a bucket between a goroutine's `getBucket` and
  its `allow`; the key gets a second full bucket, and the limit is exceeded (limiter.go:1-2, :286).
* `limiter_ban_torn`: `Observe` overwrites a later end of a block by an earlier one when two 429s are
  applied out of order, or the later is shorter (limiter.go:219, :235).
* `lifecycle_slow_body`: a body that does not arrive by the read deadline is answered 413, "The
  request body exceeds the allowed size" (handlers.go:111, i18n.go:75).

The `...UnlessTorn` properties say that these two tears are the *only* ways to break the limit and the
ban: the history variable `torn` marks a key when one of them happens, and the promise holds for every
key that is not marked.

Three more disagreements were met while modelling and are not runs of their own; the models show each.

* src/README.md:92 says the base path is reflected in the URLs of the specification and the page. It
  is, except for the specification's server, `/` (openapi.yaml:28): a call tried out at a base path
  meets the catch-all's 404. That is the case `PageFindsItsParts` excepts.
* limiter.go:1-2 says requests of Toss are gated before they are sent. Redirects are followed without
  asking the limiter (client.go:48): for one granted token Toss may be sent three requests (`Send`),
  of which `GTypeOK` bounds the number.
* openapi.yaml:17-18 says the gateway's own 429 has `Retry-After` and `X-RateLimit-*` headers. It has
  the first only (handlers.go:100; `RejectApi` sets no `rate`).

And what a reader of the code may not expect. With the default timeouts (10 seconds for Toss and for
Shutdown, 15 for reading, 30 for writing) a request in progress at the signal can be cut off after
Toss executed it, because its body or its reader is slow: `DrainLosesNothing` holds under its condition
only, and with the other defaults a shutdown timeout above 45 seconds would be needed. A reply to a
client that sent its body as slowly as it may, and that Toss answered at the last moment, has 5 seconds
to be read (`RepliesHaveTime`). A panic's 500 is not in the access log (`LogIsTrue` excepts it). And a
script kept by a cache for a request without an allowed origin is given to an allowed origin without
its CORS header: `NoForeignAllowance` is about the other direction only.

## 4. What is proved

The proofs assume only the named assumptions of the modules (`GroupAssumption`, `UnitAssumption`,
`LimiterAssumption`, `WindowAssumption`, `GatewayAssumption`, `LifecycleAssumption`,
`MiddlewareAssumption`, `DocsAssumption`), which TLC evaluates in the runs: the
groups' limits are positive, the sets are finite, the ids are distinct, and there are as many
addresses as `maxBuckets` and one per goroutine; timeouts are integers and Shutdown looks at least
every so often; statuses, requests and configurations are of their types.

* **Limiter** (`LimiterProofs`). `IInv` is inductive: `TypeOK`, `LockInv`, `BucketMapBounded` and two
  parts that they need. `Working`: a goroutine in the limiter works on a gated key, hence at a limit
  that exists and is positive. `Sweeping`: an eviction works in a full map for an unmapped key, a
  sample with a visit has a candidate, and scans and sweeps exist only under the mutex. Without the
  last one `EvictCommit` could not be shown to remove what it replaces, and the map could grow. It
  follows that no bucket is overdrawn (`TypeCorrect`), `MutualExclusion`, and `MapBounded`. By
  `EffectiveLimitType` and `Working`, `allow` never divides by zero and its `rate <= 0` branch is
  never taken: that branch is left out of the model. `NeverAhead`: no clock reading or bucket time is
  ahead of the clock.
  Two consequences say how far the model can be trusted and where the code is safe by its size.
  `AllocationSucceeds`: the addresses of the model never run out (the map's buckets and those that
  goroutines still hold are fewer than `BucketId` has), so nothing holds because an allocation was
  stuck. `NoEvictionWithRoom`: with no more pairs of client and group than `maxBuckets`, nothing is
  ever evicted, and only GC can take a bucket away.
  Two more say that no hold of `l.mu` lasts for ever, in any instance. `HolderMoves`: the holder has a
  bucket left to read, or all it needs to finish. `HoldsEnd`: each of its steps leaves fewer for it to
  do, and no other goroutine's step leaves more. Both need `Sampled`, which `IInv` does not say: an
  eviction never visits more than `SampleSize` buckets. This is the safety half of "every call
  returns"; that the steps are taken needs fairness, and stays with `gateway_liveness`. The facts
  about `Bucket`'s operators that all these proofs share stand at the head of the module.
* **The rate limit** (`LimiterWindowProofs`). `RateLimited`: `WSpec => []WindowBound` for any limits,
  safety factor, window, number of goroutines, keys and buckets. The inductive invariant `WInv` adds
  `OwnBucket` (the bucket a call works on is its key's, so the limit it brings is that group's) and
  `LimitTaken` (that limit is at most the group's at the call's clock reading; readings outside the
  window may bring higher ones, but they cannot move the bucket's time into it). The heart is
  `RefilledWithin`: tokens and grants together never exceed the burst and what the window has added.
  `OwnBuckets`: no goroutine works on another client's bucket.
* **The bans** (`LimiterPromiseProofs`). `BansHonoured`: `PSpec => BanHonouredUnlessTorn`, for any
  number of goroutines, keys and buckets. The inductive invariant `HInv` says of a key that was never
  torn: whoever works on it works on the bucket the map has (`Pointed`), and either that bucket is
  blocked until all bans have ended (`Blocks`), or they have ended by the clock and by every reading
  taken for the key and still in use (`Over`). A harmless collection turns the first case into the
  second (`HarmlessOver`), and that is why the janitor's reading must not be ahead of the clock. It
  rests on `OwnBucket`: otherwise another key's 429 could end the block.
* **The limit of a key** (`LimiterPromiseProofs`). `KeyRateLimited`:
  `PSpec => []KeyWindowBoundUnlessTorn`, the rate limit over all the buckets a key has had. The bound
  itself is not inductive: it forgets the tokens at hand, and a key without a bucket has none. `KInv`
  keeps, for a key no harmful removal has torn, and every limit the bound is about:
  * while the key's bucket is in use, the bucket spares what the key was granted (`Spares`): with
    those grants, or with more, it is `Within`, the invariant of `RateLimited`. "Or with more",
    because a late refund to a bucket that is gone lowers the key's count and fills no bucket;
  * while the key has no bucket, or one that `allow` has not started, a full bucket started now spares
    it, and one started at any reading that a goroutine at work on the key has taken (`Room`): the
    goroutine that starts the bucket brings a reading older than the clock.

  Room only grows with time (`FullLater`); `allow`'s first use turns it into a bucket in use
  (`StartedWithin`); and GC turns a bucket back into room because, idle for more than `MaxIdle`, it
  would have been full again (`IdleRefills`). That is where `l * MaxIdle >= Burst(l)` is needed, and
  `lastSeen` not behind `last`. The step needs `Pointed` from `HInv` and `NeverAhead`: a grant comes
  from the bucket the map has, and GC's reading is not ahead of the clock.
* **The abstract gate** (`GateProofs`). `LimiterImplementsGate`: `PSpec => ImplementsGate`. Every step
  of the limiter is, under the mapping of `LimiterPromise`, one step of `Gate` or none. Sections under
  a bucket's mutex become `Deny`, `Grant`, `Note`, `Refund` and `End`; a grant counts at the time its
  bucket has reached, which is between the asking and the clock (`GrantTime`, by `NeverAhead`); its
  guards on bans and limit are `GrantAfterBans` and `KeyRateLimited` after the step. Elsewhere nobody's
  count or ban moves (`OutsideRecords`), at most one bucket is removed by a step, and that is a `Tear`
  or invisible (`UnseenGate`, `SweepGate`).
* **The pipeline** (`GatewayProofs`). `PipelineRefinesLimiter`: `GSpec => Spec`, so all of the above
  holds of the gateway. `RetryAfterHonest`: whoever waits as long as the gateway's 429 says, counted
  from the reply, is neither blocked nor out of tokens, at limits of at least one request per second.
  (Below that, the wait is truncated to the clock's resolution before it is rounded up, and can be
  short by less than one tick.)
* **What a request pays** (`PaidProofs`). `PaidOnce`: `GSpec => []Paid`, for any number of requests,
  clients and endpoints and through every eviction and collection. The invariant `PInv` has, per
  request, its account at every place of its way (`Account`: nothing spent at the gate, one token from
  the grant on, the refund it is going to ask for) and what it may count on until a bucket of its key
  is taken away (`Holds`: the pointer is the map's, and the bucket has a capacity, hence takes a
  refund back). The other goroutines leave the account alone (`OthersSame`) and can break `Holds` only
  by a removal, because a bucket that is mapped throughout a step keeps its capacity
  (`CapacityKept`, `Recalled`).
* **The lifecycle** (`LifecycleProofs`), for any number of connections and any timeouts.
  `TypeCorrect` includes `Fits`: which deadlines a connection can carry in which phase, without which
  the bounds below would not survive a new request on an old connection. `ReplyInTime` by
  `TimelyInv`: a body ends within a read timeout of the header and a call within an upstream timeout
  of that, so a reply begins with the write timeout less both before it. `LongDrain` by `PatientInv`:
  counted from the start of the drain, a header comes within the read timeout, a call ends within the
  upstream timeout of that, and a reply then or by its write deadline, which is within the write
  timeout of the header (`Ending`); after Shutdown's first look no connection is idle that could begin
  another request (`NoneIdle`). All of it is before `drainBy`, so that no handler is left when the
  drain times out (`AllEnded`). Both need `Tick`'s guard: timers fire, and Shutdown looks, before the
  clock goes on. That a clean drain loses nothing is `DrainDone`'s guard and is not claimed as a result.
* **The chain and the page** (`DocsProofs`), for any configurations, requests, rejections and answers
  of Toss. `DInv` has three parts. `Sound` says what is known of a request at each place in the chain:
  the context is its own, the headers are its origin's from the mux on, nothing is written before the
  way back, the recorded status is the written one. `CacheInv`: a kept reply that allows an origin
  varies by it. `PageInv`: what the browser asks for is a document at the page's own base path, or the
  call tried out. From it `LogTrue`, `ErrorContext`, `CorsEverywhere`, `PartsFound`, `NoForeign`.

**Only model-checked.** The liveness properties (`EveryRequestAnswered`, `IdleReclaimed`,
`SignalStops`, `PageShows`): liveness under fairness is out of the prover's reach. Every invariant and
every action property that a passing run checks is a theorem.

## 5. Not modelled, and the plan

Left out for good:

* `ClientIDFromAuth`, the parsing of the environment, of headers and of query parameters, the rules
  of `validateOrderCreate` and `validateOrderModify`: functions of one input without state. The
  modules take their results (a client, a limit, a fault) as input.
* `clientIP`, security headers, message wording, log formats, response bodies, and that a body of
  Toss beyond 8 MiB is cut: nothing else in the gateway depends on them.
* A `Retry-After` whose product with a second overflows 64 bits (292 years).
* Float rounding in the token arithmetic.
* The half second net/http may linger before it closes a connection with an unread body, which
  lengthens a drain and loses nothing; that a body a handler ignores is discarded after the call rather than
  before it; and the buffers between `w.Write` and the client, which a short reply fits in.
* net/http's short gap between reading a header and marking the connection active, a signal before
  `NotifyContext` (it kills the process), the janitor's stop channel (closed just before the exit),
  and the test-and-close of server.go:59, which main calls once.
* The style sheet, the contents of the bundle and of the specification but for its server, and pages
  and scripts of different versions in a cache.

Next:

1. Proofs: that the promises of `LimiterPromise` hold of `Gateway` with the same history (they follow
   from `PipelineRefinesLimiter`, whose steps carry the history along).
2. `Orders`, if a property of the validation turns up that is more than the rules themselves.
