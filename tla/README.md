# A verification project for the Zen firewall agent (`library/`)

Zen is a firewall that runs inside a Node.js application. It wraps the modules the
application loads, follows every request, blocks attacks, limits rates, and reports to the
Aikido cloud, from which it also takes its configuration. This directory models the parts
of it whose correctness depends on the order of steps, on time, or on a limit: TLA+ modules,
TLC configurations, and theorems with proofs that TLAPS checks.

Paths below are relative to `src/`.

## 1. Inventory

Node.js runs one callback at a time. A synchronous function is therefore atomic, and
interleaving happens at `await`s, timers and events. In what follows, "hard" names what a
unit test would hardly reach.

| Component | State | Operations | Interacts with | Hard | What makes it correct |
|---|---|---|---|---|---|
| **LRUMap** (`library/ratelimiting/LRUMap.ts`) | a `Map` of items chained by `prev`/`next`, `first`, `last` | `get`, `set`, `delete`, `clear`, private `evict`, `bumpLru` | used by RateLimiter, AttackWaveDetector, the IDOR statement cache | pointers rewritten in place; expiry and capacity together | the chain threads every item once; it behaves as a bounded store with LRU eviction |
| **RateLimiter** (`ratelimiting/RateLimiter.ts`) | per key a list of timestamps, in an LRUMap | `isAllowed` | called by `shouldRateLimitRequest` | lists are filtered, cut, expired and evicted | decides as a limiter that remembers everything; never over the limit in a window |
| **Configuration synchronisation** (`agent/Agent.ts`, `agent/realtime/*`) | service config, lists, `lastUpdatedAt`, one `currentLastUpdatedAt` per channel | `start`, heartbeat, poll, server-sent event, fetch of the lists | the cloud's two services, over four kinds of request | responses overtake each other; events get lost; requests fail, and a 401 stops the heartbeats for good | the newest configuration ends up applied and stays, as long as there are heartbeats; the lists follow it |
| **Realtime stream** (`agent/realtime/connectToSSE.ts`) | connection, back-off, read timeout | connect, reconnect, give up | feeds configuration synchronisation | 401/403 ends it for good; three timers decide together | it backs off, and yet is never quiet for long |
| **AttackWaveDetector** (`vulnerabilities/attack-wave-detection/`) | two LRUMaps: counts with samples, times of reports | `check`, `getSamplesForIP` | called by the request listener; reports through the Agent | entries of both maps expire and are evicted on their own | reports exactly waves, misses none, does not repeat a report |
| **Heartbeat statistics** (`agent/InspectionStatistics.ts`, `AIStatistics.ts`) | counters, flushed with each heartbeat | `on*`, `reset`, `isEmpty` | Agent, every sink | reset before the report is awaited | every event is counted in at most one heartbeat |
| **Reporting wrappers** (`agent/api/*`) | recent events, time of the last 429, "token invalid" | `report` | Agent | requests in flight when the state changes | at most `maxEvents` attacks per interval; silence after a 429 |
| **PendingEvents** (`agent/PendingEvents.ts`) | set of promises | `onAPICall`, `waitUntilSent` | Lambda, Functions | a snapshot with a timeout | what was pending is waited for, and nothing for ever |
| **Request gate** (`sources/http-server/*`, `middleware/*`, `ratelimiting/shouldRateLimitRequest.ts`) | flags in the context and on the request | request listener, finish handler, middleware | ServiceConfig, RateLimiter, detector, statistics | several listeners per request, middleware installed twice | each decision is taken and counted once |
| **HTTP/2 streams** (`sources/http-server/http2/`) | a flag per stream | stream listener, close handler | request gate | the same request as stream and as compatibility request | as for the request gate |
| **Bounded collections** (`agent/Users.ts`, `Hostnames.ts`, `Routes.ts`, `Packages.ts`) | bounded maps | add, evict, clear | filled by requests, emptied by heartbeats | the limit and what is evicted at it | never above the limit; nothing fresh is lost |
| **Context** (`agent/Context.ts`) | one context per request, in AsyncLocalStorage | `runWithContext`, `getContext`, `updateContext`, `markUnsafe` | everything | nested contexts; strings of the input that are kept while the input changes | a request sees its own context, and sinks its input as it is |
| **Serverless handlers** (`sources/Lambda.ts`, `FunctionsFramework.ts`) | `lastFlushStatsAt`, start-up time | wrapped handler | Agent, PendingEvents | frozen between invocations; a flush in `finally` | statistics are flushed, the handler's result is kept |
| **SSRF redirects** (`vulnerabilities/ssrf/`) | outgoing redirects of a context | `getRedirectOrigin` | HTTP sinks | cycles | the origin of a chain, and it ends |
| **IP matcher** (`helpers/ip-matcher/`) | sorted, merged networks | `add`, `has` | ServiceConfig, lists | merging, binary search | membership in what was added |
| **Endpoint matching** (`helpers/matchEndpoints.ts`) | none | `matchEndpoints`, `getRateLimitedEndpoint` | request gate | precedence of exact, method and wildcard | the most specific endpoint decides |
| **API discovery** (`agent/api-discovery/`) | the schema of each route's bodies | `getDataSchema`, `mergeDataSchemas` | Routes | bodies come in any order | the merged schema admits every body it was made of |

The other parts (detectors, sinks, framework sources, hooks, IDOR analysis, vendored
parsers, the Rust instrumentation) are listed in `PROJECT.json` with the reason they are not
modelled; section 8 says more.

## 2. Modules

| Module | Models | Kind |
|---|---|---|
| `LRUOps` | what an LRUMap promises, as operators on `[item, order]` | operators |
| `LRUStore` | the abstract machine built from `LRUOps` | abstract specification |
| `LRUMap` | `LRUMap.ts` with its pointers | implements `LRUStore` |
| `SlidingWindow` | a limiter that remembers every attempt | abstract specification |
| `RateLimiter` | `RateLimiter.ts` over `LRUOps` | implements `SlidingWindow` |
| `ConfigSync` | `Agent.ts` and `agent/realtime` | system of cloud and agent |
| `StreamLoop` | the loop of `connectToSSE.ts`, with its three timers | component |
| `AttackWave` | `AttackWaveDetector.ts` over `LRUOps`, and the report of the Agent | component |
| `Ledger` | what becomes of each fact that was observed | abstract specification |
| `Reporting` | heartbeats, attack events, the three wrappers of `agent/api`, `PendingEvents.ts` | implements `Ledger` |
| `Serverless` | `Lambda.ts` and `FunctionsFramework.ts` | composed with `Reporting` |
| `RequestGate` | `sources/http-server`, the middleware, the context's flags, HTTP/2 | one request and its actors |
| `UserInput` | the input in a context of `Context.ts`, and what `helpers/extract*Cached.ts` keep of it | component |
| `Collections` | `Hostnames`, `Users`, `Packages`, `Routes`, timings, `AttackLogger` | components |
| `IPMatcher` | `helpers/ip-matcher`, addresses of a few bits | algorithm |
| `EndpointMatching` | `matchEndpoints.ts` and what its callers decide | algorithm |
| `Redirects` | `getRedirectOrigin.ts` | algorithm |
| `LookUps` | `EndpointMatching` and `Redirects` asked about one input | their specification |
| `DataSchema` | `getDataSchema.ts`, `mergeDataSchemas.ts` | algorithm |
| `LRUMapProofs` | `LRUMap` implements `LRUStore` | proofs |
| `LRUOpsProofs` | what `get` and `set` of `LRUOps` do, for the two that use them | proofs |
| `RateLimiterProofs`, `AttackWaveProofs`, `ConfigSyncProofs`, `RequestGateProofs` | the component of that name | proofs |
| `ReportingProofs` | `Reporting` and `Serverless` | proofs |
| `CollectionsProofs` | `Collections`, `StreamLoop`, `LookUps` and `UserInput` | proofs |
| `MC*` | instances for TLC; `MCCollections` puts together what stands on its own | |

How they correspond to the code:

* **LRUMap.** An item is named by its key, a pointer is a key or `Null`. The operators
  `bumpLru`, `delete`, `evict`, `Replace` and `Insert` make the assignments of the methods
  in their order; `get` has one action per outcome. `Chain` follows `next` from `first` and
  is the refinement mapping to the `order` of `LRUStore`. `keys()` and `size` only read.
* **RateLimiter.** `isAllowed(k)` is one action: `get`, filter, splice, push, `set`,
  decision. `attempts` and `hint` are history variables: what was asked and answered since
  the key was last evicted, and the last Retry-After. Keys stand for
  `endpoint:ip|user|group`, so several keys may share an endpoint's window and limit. The code
  takes both as arguments of each call; here they are constants of the key, see the
  assumptions of section 3.
* **ConfigSync.** One action per callback. A slot holds what a request in flight is at:
  `Asked`, or the version it was answered with. `updateServiceConfig` and
  `onConfigUpdate` are operators that actions use as the code's callbacks do. Cloud actions
  are external: `Publish` changes the configuration and tells the open streams, `Replicate`
  lets the API see it (the realtime service may know of a version that the API does not
  serve yet). `tokenIsInvalid` is the flag of `ReportingAPIThatValidatesToken`: any report that
  fails may have been answered with a 401 (`ReportFails`), that of an attack too
  (`EventRefused`), and no heartbeat is sent after that.
* **StreamLoop.** The code's `connect` and `loop` as one machine: a connection is begun,
  answered, heard of, ends, is rejected or times out. Time is counted by the three clocks the
  code has (`start`, the socket's timer, the delay). The socket's timer counts from any
  activity, also from such as tells nothing (`SocketActs`: connected, shaken hands, request
  written, a part of the header). `tries`, `quiet` and `acts` are history variables.
* **AttackWave.** `check` has one action per outcome; that one which reports includes
  `onDetectedAttackWave`, which runs in the same synchronous block. Whether a request looks
  like a scanner's is a free choice.
* **Reporting.** `report` is the three wrappers in their order (`ReportingAPI*.ts`), up to the
  request; `Answer` is what the awaiting code does when it ends. What a heartbeat takes is
  one set of facts, each observation a fact of its own, so that a loss or a second report
  shows. `delivered`, `lost`, `refused` and `attackEvents` are history variables. The mapping
  to `Ledger`, `Fate`, reads the place where a fact is.
* **Serverless.** The same agent in either of two processes, chosen at the start: one driven
  by timers (`AgentNext`), one by invocations (`InvocationNext`), between which only the
  clock moves. An invocation goes through the `finally` block: count, wait, flush.
* **RequestGate.** One request. `Call` is `callListenerWithContext`, whether the server calls
  the listener (`Enter`) or a framework does inside of one (`Nest`); with a body to read
  (Next.js, micro) listeners interleave, without they are called in one go. The reader may
  answer itself, with 413 for a body that is too large, which is counted as aborted before
  anything else is looked at (`RefuseTooLarge`), or with 500 (`FailToRead`). A listener inside
  of another one reads the body in its own time as well (`NestRead`, `NestFailsToRead`). A
  refusal inside of a nested call ends what the outer listener's code does, too. The middleware,
  the application's own calls and a change of the configuration come in any order. `Finish`
  runs all finish handlers, which the same event calls one after the other.
* **UserInput.** A field of the context is the set of strings in it; only some fields are
  sources. `updateContext`, `runWithContext` inside of another call and `markUnsafe` change
  them, the two extractors keep what they find until one of those drops it.
* **Collections.** A JavaScript `Map` is a sequence of entries in the order of insertion, as
  eviction takes the first. `TakeReport` is what a heartbeat and `flushStats` take and reset.
* **IPMatcher.** An address is a sequence of bytes of `Bits` bits, and an IPv4 address just a
  shorter one; the code's arithmetic on bytes, with carry, overflow and masks, is kept.
* **EndpointMatching.** A route has a number of `*` and the set of paths it covers: what its
  regular expression accepts is given, and everything that is decided from it is modelled.
  The route of a request is one without `*`, or none. Filters are `Matching`, which keeps the
  order of a list, and the two stable sorts put filtered lists one after the other.
* **Redirects.** `findOrigin` calls itself in the code; `Visited` is the sequence of URLs its
  calls are given, and the answer is the one at the first depth at which a call does not go
  on: met before, too deep, or no redirect leads there.
* **LookUps.** `focus` holds the input that is looked at, and never changes: the modules it
  puts together keep no state.

## 3. Runs

| Run | Question | Bounds | Why they are enough |
|---|---|---|---|
| `lru_map` | Is the list well linked, and is it an LRU store? | 4 keys, 2 values, capacity 3, ttl 2, clock to 4 | an item in the middle needs 3; a fourth key evicts; entries of different age expire |
| `rate_limiter` | Are decisions those of a limiter that forgets nothing? | 3 keys, 2 endpoints (limits 1 and 2, windows 2 and 3), 2 entries, 4 attempts per key, clock to 6 | a third key evicts; 4 attempts pass the cut at limit + 1; ttl 4 expires entries |
| `rate_limiter_entries` | Does a stored list exceed the limit by one only? | as above | a finding, see section 6 |
| `config_sync` | Do the lists follow what is applied, and do the channels go forward only? | 3 versions, 1 failed request, 2 list fetches in flight | an older response overtakes a newer one and a third version corrects it; the failure may hit any request |
| `config_sync_converges` | Does the agent end up with the latest configuration and its lists? | 2 versions, 2 failed requests, 2 list fetches in flight | an older response arrives last, and what should correct it fails as well, or is never sent after a 401 |
| `attack_wave` | What is reported, and when? | 2 addresses, threshold 2, frame 2, pause 3, 1 entry per map, 7 hits, clock to 6 | both maps evict and expire, and a second wave follows a report |
| `attack_wave_samples` | Does an event tell its own wave? | 3 samples of which 2 are kept, threshold 3, 5 hits, clock to 4 | duplicates, the limit, and an older wave that expired |
| `attack_wave_time_frame` | Do the requests of a wave lie in one time frame? | threshold 3, frame 2 | a finding, see section 6 |
| `reporting` | What becomes of what was observed, and of the reports? | 1 call, 2 attacks, 2 invocations at a time, 1 heartbeat at a time, limits and intervals of 1, all five answers, clock to 2 | a report is refused while another is under way; an attack comes at the limit; a wait and a flush overlap with the other invocation's |
| `request_gate` | Is each decision taken, and counted, once and in time? | 1 or 2 listeners, 1 nested call in each, 1 change of configuration, the middleware any number of times | two contexts and up to four handlers of one request; the change may fall between any two steps, also while a nested listener reads |
| `http2_blocked` | Is a blocked stream kept out of attack wave detection? | 1 stream listener | a finding, see section 6 |
| `collections` | Limits, evictions, algorithms, the stream's loop, and what is kept of the input | 2 hosts with 3 ports, 3 names for 2 places, 6 calls, 2 samples and 2 blocks of timings; bytes of 2 bits, addresses of 1 and 2 bytes, any two networks and any three at the upper end; 3 redirects among 4 URLs; 3 bodies; 3 endpoints; the stream's own times in units of 2.5 s, 2 activities of a silent socket; a source, `markUnsafe` and a field that is none, of 2 strings | each collection is full with calls to spare; carries, overflow, masks and merges over several levels occur; every order of endpoints and bodies; every order of changes and questions |

Every bound is a constant: `MaxTime` (clock), `MaxAttempts`, `MaxHits`, `MaxVersion`,
`MaxFailures`, `MaxFetches`, `MaxNested`, `MaxUpdates`, `MaxCalls`, `MaxRedirects`,
`MaxBodies`, `MaxEndpoints`, `MaxStars`, `MaxTries`, `MaxActs`, and `MaxTimeOfUsers` (the clock
where `collections` looks at users). `CHECK_DEADLOCK FALSE` stands where the
bounds, or an end that is meant (`phase = "failed"` of a start, a finished request, an input
that is only looked up, a stream that was rejected), stop the model. Addresses, samples,
keys, attacks, invocations and values are symmetric where no constant distinguishes them and
no liveness is checked.

The run `collections` starts with a choice of what it looks at (`focus`), so that parts that
do not interact are not multiplied with each other.

The properties, by the hazard they are about:

* pointers: `WellLinked`, `ImplementsStore`;
* lost timestamps: `ImplementsSlidingWindow`, `NeverOverLimit`; `RetryHintIsHonest` says that
  no attempt would succeed until one second before the announced time. The converse does not
  hold: an attempt after that time may still be denied, since denied attempts count as well;
* overtaking and lost responses: `ConfigConverges`, `ListsConverge`, `ListsFollowConfig`,
  `SeenNeverGoesBack`. `ListsConverge` excepts a list fetch that failed or was overtaken, as
  nothing in the code repeats one, and so does `ListsFollowConfig`: that such a fetch leaves
  old lists in force is what the code does. `ConfigConverges` excepts an agent whose
  "started" report was rejected, which then follows nothing (`Agent.ts:585-592`), and says of
  one with an invalid token only that polling sees the latest version: its configuration may
  stay an older one, as no heartbeat puts it right;
* a connection that hangs or is dropped at once: `NeverQuietForLong`, `BacksOff`. The first
  is a bound that no single timer has: with the code's times the stream is asked for, or
  says something, at least every 120 seconds, if its socket is otherwise silent. Each
  activity of the socket that tells nothing starts the timeout anew, and the bound grows with
  them: with one, it is 144 seconds;
* counts and reports that expire or are evicted apart: `ReportedIffWave`, `NoWaveMissed`,
  `ReportsApart`, `EventTellsItsWave`;
* statistics that are reset before their report is answered: `ImplementsLedger`. A heartbeat
  that fails loses what it took, and nothing else is lost or told twice;
* wrappers whose state changes while requests are in flight: `SilentWhileRefused`,
  `AttacksReportedUpToLimit`, which is an equivalence: the limit is neither exceeded nor used
  up by reports that were not sent;
* the end of an invocation: `AttacksAwaited`, `EndsFlushed`, after `docs/lambda.md:92-94`;
* several listeners, nested listeners, repeated middleware: `CountedOnce`, `LimitTakenOnce`,
  `LimitedIsCounted`, `RequestBlockedNotChecked`;
* decisions that several steps must take alike: `BlockedBeforeHandled`, `BypassedLeftAlone`;
* input that changes after it was looked at: `CacheFresh`;
* limits: `WithinLimits`, `EvictsOneAtTheLimit`; `TimingsReportedOnce`;
* algorithms against definitions that know no order, no search and no merging:
  `AddressesFound`, `EndpointsDecide`, `OriginsFound`, `SamplesDescribed`.

### Fairness

`FairSpec` of `ConfigSync` assumes weak fairness of each channel's next step: timers fire
again (`setInterval` of heartbeats and polls), a request ends by its timeout at the latest,
and the API learns of each change. It does not assume that requests succeed: failures are
bounded by `MaxFailures`, and never forced. A heartbeat must come only as long as it is
enabled, which it is not for good after a 401. Nothing is assumed of the stream, so convergence
rests on polling, and on heartbeats where there are any. The two liveness properties are
checked under `FairSpec` in a run of their own, all the others hold of `Spec`.

The other modules need no fairness: where something must happen in time, the model has a
clock that does not pass a timer or a timeout that is due (`Tick` of `Reporting`,
`TimePasses` of `StreamLoop`), and the promise is a bound instead of an "eventually".

### Assumptions on the environment

* The clocks of agent and cloud agree: an agent compares the cloud's `configUpdatedAt` with
  its own `Date.now()` when the started report was refused (`Agent.ts:60`).
* Windows of endpoints are shorter than the 120 minutes for which the limiter keeps an
  entry (`Agent.ts:62`): `RateLimiterAssumption`. Windows and limits stay as they are:
  `isAllowed` takes them with each call (`RateLimiter.ts:20-24`), and a new configuration may
  change them over lists that were filtered and cut for the old ones. After a longer window
  or a higher limit, attempts that were dropped are missing; neither the models nor the
  theorems say anything of that.
* One call of `isAllowed` or `check` reads the clock several times in one synchronous block;
  the models read it once. The clock of `AttackWave` starts at 1, since `check` takes a time
  0 for "never".
* A heartbeat, and the `getConfig` of a poll, are sent and answered in one step in
  `ConfigSync`, and the response then travels; nothing depends on the request being under
  way. The slots of the start, of the stream's fetch and of the list fetches have both steps.
  `Reporting` has both steps for every report.
* A report is settled within its timeout, and a socket's timer fires when it is due: the
  event loop is not blocked for longer than a unit of the model's clock. A frozen serverless
  process is not so blocked; nothing of it runs.
* A request's context is passed on by `AsyncLocalStorage` as Node.js documents it. The
  response of a request ends, or does not, after its listeners were called; `Finish` is not
  forced.
* A list of endpoints names no method and route twice, and of GraphQL no field of them, as
  the cloud's does not; the limits that are in force have a window (`ListedOnce`,
  `RateLimiting`). A list with duplicates, as `ipAllowedToAccessRoute.test.ts:299-314` has
  it, is outside what is checked.
* The responses of a realtime connection end with one of the events `connect` listens to,
  or with silence.

## 4. Proofs

TLC checks the instances above; the following holds for every value of the constants that
the named assumptions admit.

`ConfigSyncProofs`, from `ConfigSyncAssumption`:

* `TypeCorrect`: `Spec => []TypeOK`. `TypeOK` is inductive and more than typing: no part of
  the agent is ahead of what the cloud has served. Its two halves, `VersionsOK` (numbers)
  and `StagesOK` (stages and flags), are proved apart.
* `SeenOnlyGrows`: `Spec => SeenNeverGoesBack`. A response in flight must be at least as
  recent as what its channel has seen, which needs that a channel rests until the agent is
  running and has one request at a time: the invariant `Ordered`.
* `ListsFollow`: `Spec => []ListsFollowConfig`. The inductive form, `Following`, says for
  each channel that its `seen` is *covered*: by the lists in force or by a fetch in flight.
  `FetchCovers`, `StaysCovered` and `LossIsRemembered` are the three ways a step can touch
  that: a new fetch covers everything, a fetch that arrives either covers what it covered or
  was overtaken, and a loss sets the history variable.

`RateLimiterProofs`, from `RateLimiterAssumption` (finitely many keys; a time to live, if
there is one, longer than each window):

* `RateLimiterImplementsSlidingWindow`: `Spec => ImplementsSlidingWindow`.
* `LimitIsNeverExceeded`: `Spec => []NeverOverLimit`.
* `RetryHintsAreHonest`: `Spec => []RetryHintIsHonest`.
* `TypeCorrect`: `Spec => []TypeOK`.

They rest on one invariant, `Inv`, of three parts. `Recorded`: the attempts on record are in
the order of their times. `Remembered`: the keys present are those with attempts on record,
and the list stored for a key satisfies `Remembers`: it holds the times of the last attempts,
and those it does not hold have left the window *or* the list is longer than the limit
without them. That disjunction is what makes the filter, the cut at `maxRequests + 1` and the
expiry of an entry harmless, and is why none of the properties is inductive alone.
`OrderedByUse`: the order of the map is that of the last attempts, so that its first key is
one unused for longest. `StoredFacts`, `FilterFacts` and `CutFacts` follow the list through a
call, `DecisionFacts` concludes that the decision is `SlidingWindow`'s, `CallRemembers` that
the new list is again what `Remembers` asks. A hint is covered by `Hinted`: a denial leaves
more than `Limit` attempts that stay in the window until a second before the announced time.

`LRUOpsProofs` states once, for any keys and capacity, what `get` and `set` do to the map:
which entries change (`SetItems`, `SetEntry`), what is evicted (`MakeRoomFacts`), and that no
other key moves in the order (`GetFacts`, `SetOrder`).

`LRUMapProofs`, from `LRUMapAssumption`:

* `LRUMapImplementsStore`: `Spec => ImplementsStore`, the pointers of `LRUMap.ts` implement
  the store of `LRUOps`, step by step;
* `ListIsWellLinked`: `Spec => []WellLinked`; `TypeCorrect`: `Spec => []TypeOK`.

The invariant says that *some* sequence of different keys threads the list (`Threads`): the
first and the last of it are `first` and `last`, and each item's `prev` and `next` are its
neighbours in the sequence. `DeleteFacts`, `BumpFacts` and `AddFacts` follow the assignments
of `delete`, `bumpLru` and `set` pointer by pointer and name the sequence that threads the
list afterwards; `EvictIsDelete` is the case of the oldest item, `Room` what is left of the
capacity. `ChainFacts` shows that the mapping `Chain`, which follows the pointers, yields that
sequence. What takes an induction over a sequence is proved by its smallest counterexample
(`Smallest`).

`AttackWaveProofs`, from `AttackWaveAssumption`: `WavesAreReported`
(`Spec => []ReportedIffWave`), `NoWaveIsMissed`, `EventsTellTheirWave`, `TypeCorrect`, and
`ReportsAreApart` (`Spec => ReportsApart`). One invariant, which TLC checked on both instances
before it was proved, of four parts. `Recorded`: the requests on record are in the order of
their times. `Waves`: what was decided at each request was right of the record as it was then
(`Judged`), and what the map holds for an address is its wave so far, unless that is over
(`Keeps`). `Sent`: an address that was reported is remembered until it may be reported again
(`Answered`, `Remembers`). `Told`: the samples kept are distinct requests of the wave
(`TellsLast`). The definition of a wave looks back over the whole record; `WaveGrows`,
`WaveStarts`, `WaveStays` and `WavesOfPrefix` say what one more request changes of it, and
`RunIsOneWave` that requests without a pause belong to one.

`ReportingProofs`, from `FactsAssumption`, `NamesAssumption`, `TimesAssumption` and
`InvocationsAssumption`, about the agent in both of its processes:

* `ReportingImplementsLedger`: `Spec => ImplementsLedger`. What was observed is at every moment
  in one place: in the statistics, in one report in flight, delivered or lost (`SetsApart`,
  `FactsApart`). Each step of the detailed machine is one of `Ledger`, or none;
* `AttacksAreReported`: `Spec => AttacksReportedUpToLimit`. The wrapper that counts attacks
  keeps only those of the last interval; the invariant compares its list with the history for
  every later moment: as many events after any time as the history has, if that time is within
  the interval;
* `SilenceIsKept`, `AttacksAreAwaited`, `InvocationsEndFlushed`, `TypeCorrect`: of the wrapper
  that the cloud refused, of the reports pending when a handler returned, of the statistics an
  invocation ends with, and the types.

`CollectionsProofs`, from `LimitsAssumption`:

* `CollectionsStayWithinLimits`: `Spec => []WithinLimits`. Each collection has an invariant of
  its own (`HostsInv`, `UsersInv`, ...), and `StepsAre` says of each what a step may do to it.
  A Map is a sequence of entries with different keys; `ReplacedFacts`, `AppendedFacts`,
  `RemovedFacts` and `TailFacts` say what the code's three changes of a Map do to its keys.
  Ports are counted over all hosts, as the set of endpoints (`HitFacts`, `FirstPortFacts`).
  The bound on the lines of any hour needs more than the counted hour: that the hour before
  it, which began at least an hour earlier, had no more than the limit either (`LogInv`);
* `TimingsAreReportedOnce`: `Spec => []TimingsReportedOnce`;
* `OneIsEvicted`: `Spec => EvictsOneAtTheLimit`. That what was added is there after the call is
  proved apart (`HostIsThere`, `UserIsThere`, `RouteIsThere`): room is made
  before it is put in, or, of the ports, at the front (`FirstPortStays`).

and from `StreamLoopAssumption` (positive times, the limit of the wait not below its start and
reached by doubling within `MaxTries`):

* `StreamIsNeverQuietForLong`: `LoopSpec => []NeverQuietForLong`. The silence grows on both
  sides of a lost connection, so the invariant has a part for each: `Measured`, that the
  silence of a connection is what the socket's timer has counted and at most one timeout for
  each activity before (`Silence`), which outruns the age of the connection only once that is
  stable; and `Foreseen`, that a wait fits into what may
  still be quiet. `ReconnectsKeeps` joins them: a connection that was stable waits
  `InitialReconnect` after at most `Silence(acts)`, one that was not waits up to
  `MaxReconnect`, but was shorter than `StableConnection`;
* `LoopBacksOff`: `LoopSpec => BacksOff`. The next wait is the first one doubled `tries` times
  (`Doubling`).

and about `LookUps`, from `RedirectsAssumption`, `EndpointsAssumption` and
`LookUpsAssumption`, which say no more than what routes, lists of redirects and lists of
endpoints are. Nothing moves there, so that the invariant is `LookUpInit` and the theorems
are about every input; TLC checks the small ones:

* `OriginsAreFound`: `LookUpSpec => []OriginsFound`. `LastCall` takes the smallest depth at
  which a call of `findOrigin` does not go on. All calls before it were given different URLs,
  each the destination of a redirect of its own, so that they are no more than there are
  redirects (`ChainIsShort`); the URL at each depth is as many redirects before the one asked
  about (`VisitedAreBefore`). A URL met again makes a circle, from which `StepsBefore` never
  becomes empty (`CirclesHaveNoStart`), and a search that is given up stands at more steps
  than a chain within the depth has: what is left is that no redirect leads to the answer;
* `EndpointsAreDecided`: `LookUpSpec => []EndpointsDecide`. Of a list of endpoints the proof
  keeps two things: the set of its elements, and an order they stand in (`Ordered`). Filters
  keep both (`MatchingFacts`), the first sort puts the own method first
  (`OwnMethodFirstFacts`), the second the number of `*`, and of as many the own method
  (`MostStarsFirstFacts`). `MatchFacts` concludes which endpoints are found, the exact one
  first, and each of `LimitOfAny`, `AccessOfAny`, `ProtectionOfAny` and `FieldOfAny` what a
  caller makes of it. That a list has a strictest limit needs that rates compare
  transitively although the model multiplies instead of dividing (`RatiosCompare`).

and about `UserInput`, from `UserInputAssumption`, `CacheIsFresh`: `InputSpec => []CacheFresh`,
which is inductive once the fields of a context are known to hold sets (`InputTypes`): setting
a field that is no source leaves what the caches were made of (`UpdateKeepsFresh`).

The recursive functions of these modules (`Doubled`, `Visited`, `StepsBefore`, `Matching`,
`MostStarsFirst`) are all unfolded in the same way: `RecursionExists` gives a function that
follows the steps, itself by `CountingUp`, which stands for an induction over numbers and is
proved by the smallest counterexample (`Smallest`).

`RequestGateProofs`, from `ListenersAssumption` (the listeners are 1 .. n): `TypeCorrect`,
`RequestIsCountedOnce`, `LimitIsTakenOnce`, `BypassedIsLeftAlone`,
`BlockedIsNotChecked` (each `Spec => []` of the property of that name),
`BlockedIsNotHandled` (`Spec => BlockedBeforeHandled`) and `LimitedAreCounted`
(`Spec => LimitedIsCounted`). They share one invariant:

* every context is in `Sound`: the limit was taken at most once, and only if the flag says so;
  the steps change contexts by `GoesOn` alone, which keeps them sound and their flags set;
* `CheckedFirst`: once a handler is registered or application code ran, the lists were asked
  or the response was sent. So the one call whose lists may block is the first, which gives
  `BlockIsFlagged`: the *first* handler holds the context that was flagged, and it is the one
  that counts. For a stream all handlers count, and the finding of section 6 is what is left;
* `Bypassed`, `NotYetCounted`, and `OneEach`: a context was made for each listener that has
  one, which bounds their number.

`LimitedAreCounted` needs one more, `LimitInv`: every handler holds the context of a listener,
and a listener with a context has a handler (of a stream, one each); and a 429 of the gate is
noted in the context of the listener that gave it. That nothing but a body is read again inside
of a listener (`Reading`) is kept apart. On a server with one listener the handler
that counts therefore sees it.

Only model-checked:

* liveness (`ConfigConverges`, `ListsConverge`), which this prover does not do;
* `AddressesFound`: masks, carries and prefixes are computed with powers of 2, of which the
  provers know nothing, not even that `2^n` is a number;
* `SamplesDescribed`: what the merging of schemas makes of data that is nested to any depth,
  which needs an induction over such data.

The findings of section 6 are counterexamples, and need no proof.

## 5. Plan

Done: everything in section 2, checked as in section 3, and the theorems of section 4. What
would come next, in this order:

1. the parts of the system that have a state and are not modelled yet: how redirects are
   recorded, and the look-ups of `ServiceConfig` by name;
2. `AddressesFound` for any networks, over a function for the powers of 2 in place of `^`:
   that sorting and merging keep the addresses covered.

## 6. Findings

* `RateLimiter.ts:33` says that the entries exceed `maxRequests` "by only 1"; after the push
  the stored list has two more. Harmless: the decision is the same.
* `AttackWaveDetector.ts:22` says that the requests of a wave must occur within
  `attackWaveTimeFrame`; each of them renews the entry's time to live, so a wave of any
  length is reported as long as no pause is as long as the frame. `ReportedIffWave` states
  what the code does.
* `createStreamListener.ts:50` flags a stream that the lists block, "To prevent attack wave
  detection from checking this request"; the handler that runs when the stream is closed
  does not look at the flag (lines 99-107), as that of other requests does
  (`createRequestListener.ts:171`). So a blocked HTTP/2 stream counts for an attack wave.

Seen on the way, and neither promised nor contradicted by a doc, so that no run is about it:

* after one report was answered with a 401 no heartbeat is sent any more, also if the token
  is accepted later; a configuration that was overtaken on its way, or that a refused start
  did not get, then stays away until the next change is published;
* `readBodyStream` does not look at the configuration: a request of a bypassed address whose
  body is too large is answered with 413 and counted as aborted;
* a limit or a window that is changed is applied to lists that were cut for the old one;
* several stream listeners on one server count a stream once each, as nothing marks it;
* `LimitedIsCounted` excepts a server with several listeners: the handler that counts is the
  first one's, and it does not see a refusal in the context of another one;
* the early rate limit of a listener that reads the body first throws when another listener
  has sent the headers meanwhile;
* `bypassRequest` marks the context of its own listener only;
* regular heartbeats do not compress the timings before they take them (`flushStats` does),
  so that up to a block of samples is dropped with each;
* a connection attempt that hangs until the read timeout counts as a stable one and resets
  the back-off;
* `updateApiInfo` takes a sample from one more request than `maxSamples`;
* merging a field that was `null` or absent with an object drops its `optional`; a mix of
  objects and other values keeps the first type only. `SamplesDescribed` is about the bodies
  that can be merged;
* the names of GraphQL types of a route stay for good when heartbeats reset the routes.

## 7. Running

`tlc -config MCConfigSync.cfg MCConfigSync.tla` and the like for a run;
`tlapm ConfigSyncProofs.tla` and the like for the proofs; the longest takes some minutes.

## 8. Not modelled

Most lines of the repository are outside these models, and should be. Of the implementation
files by length, the larger part are

* tests, samples and benchmarks, which are read here as documentation;
* `sinks/`, `sources/` and `hooks/`: adapters, one per library and version of it, that turn
  the arguments of a call into a context or into a question to a detector. They keep no state
  of their own and take no decision that another part has not taken; what they share is
  modelled (`inspectArgs` in `EndpointMatching` and `Reporting`, the HTTP sources in
  `RequestGate`, the serverless ones in `Serverless`);
* `vulnerabilities/*/detect*`, `isWebScanner`, `isPrivateIP` and the like: functions from text
  to a verdict. They have no order of steps, and a model of them would be a second copy of
  their characters and patterns. Their verdict is a free choice wherever it is used;
* the analysis of SQL, of IDOR filters and the instrumentation of code in WebAssembly (Rust);
* vendored parsers (`helpers/form-parsing`, `helpers/eventsource-parser`);
* the sending of requests, the parsing of addresses, URLs and headers, and the wording of logs
  and messages.

Parts that are modelled in part, and what is left out of them:

* statistics: the percentiles of a block of timings, the breakdowns by operation and the AI
  calls, all of which go the way of every other fact;
* serverless handlers: triggers whose event gives no context, which the wrapper passes through,
  and the result of a handler, which an error of the flush would replace;
* redirects: how they are recorded from responses, and the verdict on resolved addresses;
* IP lists: the parsing of their text, and `IPMatcher.add`, which nothing but tests calls;
* ServiceConfig: look-ups by name or pattern (users, user agents, domains);
* API discovery: formats of strings, authentication types, the limits on depth and size, and
  names of fields that every object has (`constructor`), which the code looks up like others;
* the attack logger is bounded from above only: nothing says that it logs again after an hour;
* user input: values of a context that the application changes behind the agent's back.
