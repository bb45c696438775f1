# Verification of go_gateway

TLA+ models of the gateway in this repository (HTTP, HTTPS, TCP and gRPC
reverse proxy with health checks, load balancing, flow control and a dashboard),
TLC configurations that check them on small instances, and TLAPS proofs for all
values of the constants. `PROJECT.json` is the index: components, runs, the
lines each definition stands for, hazards, theorems.

Paths below are relative to the repository's root. LB stands for
`reverse_proxy/load_balance`.

## The system

One binary, two processes (`main.go`): the **dashboard** writes services and
tenants to MySQL; the **server** loads them once (`LoadOnce`) and proxies.

| component | state | operations | hard behaviour | correct means |
|---|---|---|---|---|
| TCP middleware chain, `tcp_proxy_middleware`, `reverse_proxy/tcp_reverse_proxy.go` | per connection: int8 `index`, handler slice; shared: the slice's array | ServeTCP, Next, Abort, Reset, Use | nested Next loops, int8 range, append into a shared array, concurrent connections | handlers once and in order, a rejected connection not proxied and released, own core handler |
| Health checking, `LB/check_config.go`, `factory.go` | `activeList`, error counts, observers | WatchConf rounds, UpdateConf, Attach, GetConf | two goroutines without a lock; in-place sort; rebuild in steps | list follows the dials; balancers follow the list |
| Round robin, `LB/round_robin.go` | `curIndex`, `rss` | Next, Add, Update | no lock at all | no panic, turns, nobody starved |
| Weighted round robin, `LB/weight_round_robin.go` | node list, current weights | Next, Add, Update | no lock, nodes of several lists alive | no panic, proportion |
| Random, consistent hash, `LB/random.go`, `consistent_hash.go` | list; ring | Next/Get, Add, Update | list unlocked; ring half locked; an error that ends the process | same key, same server; no panic |
| Flow counter, `public/redis_flow_count.go`, and the daily quota, `http_jwt_flow_count.go` | `TickerCount`, `TotalCount`, `QPS`, `Unix`; Redis keys of the day and hour | Increase, the ticker's round, the quota's comparison | atomic operations that are not atomic together; lost writes; other processes; midnight; restart | each request counted once; quota refuses for cause and bites |
| Service administration, `controller/service.go`, `dao/service_*.go` | MySQL tables, pool of connections | add/update HTTP, TCP, gRPC; delete; lists, details, statistics | checks outside the transaction, stale rows, failing calls, pool exhaustion | complete, unique services; deletion lasts; requests answered |
| Caches, `dao/service_load_balance.go`, `public/flow_*_handler.go` | slice and map per kind | get or create by name | scan and append without the lock | one instance per name |
| TCP server, `tcp_server`, `tcp_proxy_router` | `inShutdown`, `doneChan`, listener; server list | ListenAndServe, Serve, Close, TcpServerStop | Close before or during start; list appended by all goroutines | stop closes every listener, without a panic |
| Process lifecycle, `main.go`, `*_router`, `router` | four servers, signal | run, stop in order, Destroy | `log.Fatalf` from any goroutine, waits without a timeout | a gateway that was up stops without dying, requests drained |
| HTTP and gRPC chains, `http_proxy_middleware`, `grpc_proxy_middleware` | per request context | 12 middlewares; 8 interceptors | order, early returns, panics; what a client may say of itself | access checks before the upstream, every request counted |
| Registries, `dao/service.go`, `dao/app.go` | slices and maps | LoadOnce, lookups | once, errors ignored, never refreshed | what is served is what was written |
| Tenants and tokens, `controller/app.go`, `oauth.go` | MySQL, signed tokens | add, update, delete; issue, verify | check-then-save, whole rows saved, tokens outlive tenants and the gateway | a token means the tenant it was issued to |
| Administrator sessions | session store, admin row | login, logout, change of password | sessions outlive a password | only logged-in requests pass |
| Logger, `golang_common/log` | default logger, record channel, its writers' buffers and files | log calls, write loop, flush and rotate timers, Close | unlocked default logger and time cache, closed or full channel, two processes on one file | no record lost, repeated or moved; files under their hour |

They meet in these places: health checking calls `Update` of a balancer that
requests call `Next` on; the chains call balancers, counters and limiters
through the caches; the registries hand services written by the dashboard to
the routers, which open one listener per TCP and gRPC port; the lifecycle starts
and stops all of it.

## What is modelled

| module | of | state and actions |
|---|---|---|
| `TcpSliceRouter` | TCP chain | `index`, the nesting `depth` of Next and where each connection's core handler is kept; `ServeTCP`, `CallHandler`, `ReturnNext`, `Pass` (a middleware that calls Next), `Reject` (one that aborts), `CoreReturns` |
| `CheckConf` | health checking and the rebuild of a balancer's list | `pc` of the watcher and of the goroutine that builds the balancer; `Probe` dials one address with any outcome, then `RoundEnds` (the sort begins), `Publish`, `Notify`, `Wake`; `Attach`; both run `Update`: `ResetRss`, `GetConf`, `AddReads`, `AddWrites`, `UpdateReturns` |
| `RoundRobin` | round robin | a request is at one of six points of Next, lines 26 to 35 of the source; `UpdateStarts`, `Add`, `UpdateReturns` |
| `WeightRoundRobin`, `MCWeightRoundRobin` | weighted round robin | the same for lines 39 to 65; a node is an address and the Update that made it |
| `FlowCounter` | counter, ticker, quota | `Load`, `Store`, `Send`, `Read`, `Sample` are the ticker's round; `Increase` and `AddOne` the two halves of a request's count; `Deliver`, `LoseFlying`, `NoConnection` what Redis and the network do; `ClockTick`, `Midnight`, `CountElsewhere`, `Restart` the environment |
| `HandlerCache` | the four get-or-create caches | `slice` (its three words) and `mem` (arrays ever allocated) are the shared memory; a call is a request inside `GetCounter`, `GetLimiter`, `GetLoadBalancer` or `GetTrans`: `LoadWord` reads a word, `Found`, `Skip`, `Fault` are the scan, `Make`, `AppendInPlace` or `Grow`, `StoreCap`, `StoreArray`, `StoreLen`, `StoreItem` the slow path |
| `AccessChain`, `MCAccessChain` | what a request passes over HTTP, gRPC and TCP | a request goes through the stages of its protocol's `Chain`, one action per middleware; the limiters under their keys (`buckets`, `found`), the counters, and the sampled count of the tenant are shared; a look into a cache finds (`Found`), makes (`Miss`, `Keep`) or faults (`Fault`) |
| `Balancers`, `MCBalancers` | what the factory makes: round robin (by extending `RoundRobin`), random, consistent hash | `kind` and who asks are chosen at first; a request of the random balancer is at `RandomEnter`, `Intn` or `RandomTake`; one of the hash ring at `HashEnter`, `Search`, `Probe`, `Found`, `RLock`, `Index`, `Lookup` or `HandleError`; Update is `RandomUpdate`, `RandomAdd`, or `ClearKeys`, `ClearMap`, `HashAdd`, `Sort` |
| `Lifecycle` | from main to the end of either process | `main` and the goroutine `pc` of each server; starts (`ReadList` and `WriteList` are the unlocked append), listeners, requests and streams (`Begin`, `End`), one `Signal`, the stops in their order, `Fatal` and `Destroy` |
| `RecordLog` | what the logger promises | records accepted, records on disk, how it ended |
| `Logger`, `MCLogger` | `golang_common/log/log.go` with `lib.InitBaseConf` and `lib.Destroy` | callers at `Check`, `NewLogger`, `Assign`, `Use`, `Compare`, `Format`, `Take`, `Send`; the goroutine of a logger receives, writes and flushes; main sets up, closes, drops the logger. `logger` holds a logger's unlocked fields, `buf` and `disk` what its writers have |
| `FileWriter` | `file_writer.go`, dashboard and gateway on the file both are configured for | `live` and `rotated` name inodes, `content` is what they hold; `Write`, `FlushFile`, and a rotation in four steps, each of which may fail; `HourPasses`, `Crash`, `Start` |
| `Tenants`, `MCTenants` | a tenant's row from the dashboard to the token honoured for it | `AppAddFind` and `AppAddSave`, `FindById` and the two saves; `LoadOnce`, `Tokens`, `Expires`, `Stops` of the gateway |
| `ServiceAdmin` | the dashboard's writes | a request is a program of database calls (`Program`), one action per kind of call; `table` is what is committed; `conn` and `lost` are the pool |

What counts as a step: in `RoundRobin`, `Balancers`, `WeightRoundRobin`, `CheckConf`
and `FlowCounter` every access to memory that several goroutines share without a
lock is a step of its own, and so are those to the server lists in `Lifecycle`. In
`Logger` two comparisons are one step with the store that follows them: lastTime
with the second (a goroutine delayed before or after the pair sets the second, or
its text, back), and `takeup` in `NewLogger` (two callers that both find it unset
there would share one logger, the harmless outcome). Go promises less (a data race is undefined
behaviour): tearing and reordering of single words are not modelled, on the
64-bit targets the repository builds for a word is read and written whole. The
one outcome a race of more than a word can have here, `GetConf` ranging over an
array while it is sorted, is a choice over all arrangements (`ConfLists`). A
slice header is three words; that `rss` could be seen with the length of one
list and the array of another is left out.

`HandlerCache` is where the words of a slice matter, and there they are apart:
`x.s = append(x.s, e)` loads them one by one, and stores capacity and array (if
it had to grow), then the length, then the element, the order of the Go
compiler's code for an append in place. `AccessChain` uses of it what a chain can
notice: a look that faults while another request makes an item, and, once two
items were made at a time, one that faults or misses what is there. Its keys are
tuples; that a tenant's name and address could be read as another's is left out, and
so is that Increase counts in a goroutine of its own (`FlowCounter` has that).

`AccessChain` describes a service by a scenario (its protocol, policy, limits and
the requests that come for it), since rows do not change while the gateway runs.
Clients are addresses of two kinds, as the three chains find them in three ways
(`Seen`): an IPv6 address is seen as it is over HTTP, in brackets over gRPC, and as
an empty string over TCP, so no list entry matches it there and all such clients
share a limiter. Over HTTP it is gin's `ClientIP`, external, which takes the address
that `X-Forwarded-For` or `X-Real-Ip` states before the peer's; `nginx.conf` appends
to the header and leaves what the client put first. `stated` is that address, and
`KnownAs` the one a chain goes by. Over gRPC the tenant is metadata "app", which the
token's interceptor sets and otherwise leaves as the client sent it: `carried` is
what a request brings along, a row of any id, rate and quota or text that does not
decode, and `TenantOf` whom it is held to.

In `ServiceAdmin` updates and deletions take any id, as the handlers check neither
that there is such a service nor its kind. `ServiceDetail` answers an unknown id with
an error; `ServiceUpdateTcp` gives a service of another kind a TCP rule (`strays`),
on which nobody listens and which nevertheless makes its port taken.

In `ServiceAdmin` and `Tenants` a call to the database is a step, since MySQL
executes it as one, and what a transaction read is of one snapshot. A token is
the tenant it names, with, as a history of the model only, the row it was issued
for; its signature and its expiry are the choice of when it stops being there.

`Logger` and `FileWriter` split the logger where it splits: in `Logger` a writer
is a buffer that reaches its file, in `FileWriter` the file has a name, an hour
and a second process. Go's channel is external: a send to a full one waits, a
send to a closed one panics, a select with two ready cases picks either.

`Lifecycle` takes `net/http` and grpc-go from how the code uses them: Shutdown
closes the listener and waits for requests or its timeout, GracefulStop waits for
streams without one. That a service's port may be taken, or two services' ports
be equal, is one choice, a listener that cannot be opened.

## Runs

All runs pass, each on the smallest instance where its actors can meet.

| run | what it asks |
|---|---|
| `tcp_chain` | two connections, four middlewares, int8: order, once, rejection, release, own handler |
| `health` | two upstreams that fail and recover at will, from start-up on: eviction, agreement, fail-over, recovery |
| `rotation` | two requests, one Update, any lists up to three addresses, of three kinds of balancers: panics, turns, nobody starved once requests stop meeting, the owner of a hash |
| `weighted` | two requests, one Update, weights 3 and 1: panics, proportion |
| `counting` | two requests, one failure, restart and midnight, one count of another process |
| `service_writes` | two dashboard requests at a time, three in all, for any service or none, one failing call, a pool of two connections |
| `caches` | two requests at a time, five in all, for two names: faults, lost and second items |
| `protocols` | every policy with one request of every kind, stated addresses and claimed tenants included; limits and a quota that four requests exhaust two at a time; HTTP and gRPC on one tenant's limiter: who is admitted, refused, limited and counted |
| `logger` | two goroutines, three records, a channel of one, from set-up to Close or a kill: nothing lost, repeated or moved; right times; calls and Close end |
| `log_files` | two processes on one file, two rotations, two failing calls, a crash: lost files, records under another hour, forgotten buffers |
| `lifecycle` | dashboard, or gateway with up to two TCP and one gRPC service, a signal at any time: open listeners, crashes, cut requests, and the stop's end |
| `tenants` | two dashboard requests on two rows, two starts of the gateway, a failing call: what a token means, deleted tenants, honoured tokens |

### Bounds, and why they are enough

* `TcpSliceRouter`: connections meet only in the one shared array slot, so two
  are enough for one to overwrite the other; IndexMax and the number of
  middlewares are the real ones. The proofs cover every number of both.
* `CheckConf`: MaxErrNum is the code's 2. Addresses are counted independently;
  with two of them a list can be empty, partial or full, in either order.
  `errNum` stops at MaxErrNum since nothing compares beyond it; that the code
  counts on without a limit is harmless for 2^63 rounds.
* `RoundRobin`: two requests overwrite each other's index; three addresses tell
  "next", "skipped" and "same" apart; one Update may grow, shrink or empty the
  list.
* `WeightRoundRobin`: unequal weights are where the smooth order differs from a
  plain rotation. Races make weights drift without a limit, so no request starts
  once one of them left -MaxDrift .. MaxDrift; undisturbed picks over weights
  3 and 1 stay within 2. The run ends there, hence CHECK_DEADLOCK FALSE.
* `FlowCounter`: one of each trouble, so that each of them can hit each step of
  the ticker; MaxFlying = 1 leaves one round of the ticker under way. Redis may
  be slower in reality; the properties about counts do not read Redis, and
  `CountsOnce` is proved for every bound.
* `ServiceAdmin`: MaxOpenConn is 20 in `conf/dev/mysql_map.toml`; a pool of two
  with two requests has the same shape as 20 with 20. Three requests are what it
  takes to delete a service, add another one of its name and bring the first
  one back. The pool can be starved for good, hence CHECK_DEADLOCK FALSE.
* `HandlerCache`: two requests are what it takes to append at once; five calls
  let the array grow twice and be found from afterwards, whatever state two
  racing appends left. Two names tell "another item" from "my item". The run
  ends after the fifth call, hence CHECK_DEADLOCK FALSE.
* `AccessChain`: policies do not interact with other requests, so one request per
  policy is enough, all combinations of lists, tokens, addresses and claims being
  there; limits do, so those services get four requests, one more than a burst of 3,
  two at a time. The limits are spread over the protocols (`Limits`), each kind with
  one or two of them, as they are looked up in the same way; the theorems have no such
  bound. In the third kind of scenario HTTP requests with a tenant's token and gRPC
  requests without one, which bring another rate along for its id, share a limiter.
  MaxRefills = 1 lets a bucket that ran empty serve once more. The run ends when
  the scenario's requests are answered, hence CHECK_DEADLOCK FALSE.

* `Balancers`: two virtual nodes per address, of which two share a hash, so that
  hashes are overwritten and the ring wraps; key hashes inside and behind it. One
  Update, to any list that is left of three addresses in the order of the service's.
  `MCBalancers` also has TLC evaluate, as an assumption, that the ring's owner of a
  key changes only if the address that leaves owned it; `OnlyItsKeysMove` of
  `BalancersProofs` proves it for every ring. `Sorted` says of `sort.Sort` only
  what it promises: the same numbers, none before a smaller one.
* `Logger`: a channel and a buffer of one record make a full one the normal case;
  three records are one more than both hold. Two callers meet in `Check` and in the
  cached time; three values of the clock tell a stale second from a later one. Levels
  send records to one of the two files `lib.InitBaseConf` configures, or to none when
  the level is below the configured one.
  A second logger, which only a call after Close makes, is the last one followed.
* `FileWriter`: two rotations are what it takes to rename over a renamed file; two
  failures and a crash let a failed step be followed by another trouble; two records
  tell the first of an hour from the last. Hours stand for all patterns, since one that
  changes makes `Rotate` rotate.
* `Lifecycle`: two TCP services overlap in an append, a TCP and a gRPC service do not
  share a list; LoadOnce finds none, both of one kind, or one of each. One open request
  per server keeps a stop waiting as well as many.
* `Tenants`: two rows are what it takes for one app_id to be given twice, two starts
  what it takes for a token to outlive the gateway; requests, ids and secrets are
  interchangeable, no property is temporal, hence the symmetry.

### Fairness

Go schedules every runnable goroutine, and none of the modelled ones blocks for
ever by itself; that is weak fairness of each goroutine's steps.

* `TcpSliceRouter`: the goroutine of a connection and its middlewares continue;
  nothing makes the core handler return, a stream may stay open.
* `CheckConf`: watcher and builder continue; a dial ends after five seconds. No
  fairness is assumed of upstreams: the liveness properties say what follows
  when an upstream stays up or down from some time on.
* `RoundRobin`: each request continues, and requests keep coming (`Enter` is
  part of `Request`); an Update that began ends.
* `FlowCounter`: ticker, Increase's goroutine and clock continue, Redis executes
  what it received. Failures and restarts are bounded, not fair.
* `Balancers`: as round robin, for the kind round robin; the others have safety
  properties only.
* `Logger`: callers, the goroutine of each logger and main continue. The flush
  timer is fair on its own: Go's select picks at random among ready cases, so
  records that keep coming do not starve it. No fairness of log calls, of the
  clock or of the end of the process.
* `FileWriter`: the timers of a running process fire, and its goroutine goes on.
  Failures, crashes, restarts and hours are not fair.
* `Lifecycle`: main and the goroutines of the servers continue, and the timeout of
  Shutdown comes. Nothing makes a request or a stream end, or a signal come.
* `HandlerCache`, `AccessChain`, `Tenants`: none; their properties are about what may
  happen.
* `ServiceAdmin`: the goroutine of a request continues when its connection or
  row lock can be had. No fairness between requests that wait for the same
  connection is needed, since the number of requests is bounded.

### Faulty variants

Each module defines, next to a definition of the code, what a plausible bug
would make of it. Replacing the definition by the variant breaks the property:

| module | definition and variant | breaks |
|---|---|---|
| `TcpSliceRouter` | ResetIndex, ResetIndexZero | RunsInOrderOnce |
| | IndexAfterAbort, IndexKeptByAbort | RejectedNotProxied |
| | AppendCap, AppendCapDoubled | OwnCoreHandler |
| | AbortIndex, AbortIndexTooHigh | RejectedIsReleased |
| `CheckConf` | ErrAfterOk, ErrAfterOkKept | EvictedIffFailing |
| | Notified, NotifiedNever | AgreesUnlessRaced, TrafficFollowsHealth |
| `RoundRobin` | Wrap, WrapTooLate | PanicOnlyAroundUpdate |
| | Advance, AdvanceTwo | InTurn, ServedOneAtATime |
| `Balancers` | FirstAgain, Open | AnswersOwner |
| `WeightRoundRobin` | InLoop, LoopOnePast | PanicOnlyUnderUpdate |
| | Raised, RaisedAfresh | Proportional |
| `FlowCounter` | AfterStore, AfterStoreKept | CountsOnce |
| | OverQuota, OverQuotaSoon | RefusedForCause |
| | OverQuota, OverQuotaLate | QuotaEnforced |
| `ServiceAdmin` | ServiceAddTcp, AddTcpCommitsEarly | ServicesComplete |
| | InUse, InUseIfLive | UniqueUnlessRaced |
| | Copy, CopyUndeleted | RevivedByOverlapOnly |
| | Leak, LeakWithoutRollback | AnsweredUnlessStarved |
| `HandlerCache` | Fits, FitsTooLong | SoundUnlessClashed |
| | Matches, MatchesNothing | SecondItemForCause |
| `AccessChain` | Admitted, AnyToken | ForwardedIsAdmitted |
| | BlackCounts, BlackAlways | RefusedForCause |
| | Takes, TakesAny | LimitHolds |
| | TcpChain, TcpChainLimitFirst | CountsAddUp |
| `Logger` | SetLayout, SetsLevelOnly | LossOnlyAfterClose |
| | Stamp, StampsFirst | StampWrongForCause |
| | Drained, QuitsWhenClosed | ImplementsRecordLog |
| | Signal, SaysNothing | CallsReturn |
| `FileWriter` | NewHour, KeepsItsHour | LostToSecondRename |
| | OldHour, PatternOfNow | FiledUnderItsHour |
| | BeforeRotation, RotatesUnflushed | BufferedReachesFile |
| `Lifecycle` | Appended, StoresOwnList | StopClosesListeners |
| | Closed, ClosedIsFatal | CrashForCause |
| | ShutdownReturns, ClosesAtOnce | DrainedUnlessTimedOut |
| | ShutdownTimesOut, WaitsForEver | StopEnds |
| `Tenants` | Taken, TakenIfLive | TokenMeansTenant |
| | Updated, MadeAnew | DeletedStaysOut |
| | Updated, AllColumns | TokenHonoured |

## What the checks show

Where the code is right, and why it was worth asking:

* The int8 of the TCP chain cannot wrap with up to 63 middlewares, although each
  unwinding Next adds one to an index that Abort put at 63. That no connection
  gets another one's core handler, though, rests on an accident: four
  middlewares fill the array `Use` allocates. With three or five, `append` would
  write the core handler into spare capacity that all connections share
  (`AppendCapDoubled` is that case).
* Races between requests alone never make round robin panic; an Update can, and
  its effect reaches past its return, to requests that begin later next to one
  that began before. `calm` is the weakest condition found that excludes it.
* The weighted balancer is in proportion again after a rebuild of its list once
  the calls that overlapped it are over, since a rebuild starts all weights at 0.
* The hash ring is the one balancer whose damage is over with the Update that did
  it: a Get that meets no Update answers the owner of its key and never panics,
  although the search is outside the lock (`AnswersOwner`). For an empty list it
  answers an error, which is an answer to an HTTP client and the end of the whole
  gateway on a TCP connection.
* gorm leaves zero fields out of a condition, so `IsDelete: 0` in the name check
  filters nothing and deleted services keep their name and port. That is what
  makes a deletion that an update undoes harmless: `InUseIfLive` is the filter
  the code seems to intend, and with it two services of one name appear.
* A cache that only one request at a time appends to is sound, even while others
  scan it: a scan next to an append may fault, as the length is there before the
  element, and only then (`SoundUnlessClashed`). Two appends at once do lasting
  damage: they may leave a hole below the length, on which every later request for
  a name behind it faults, or a capacity larger than the array, after which each
  new item is stored outside it and made again by the next request. Over HTTP a
  fault is an answer, of the recovery middleware, and over TCP a connection closed;
  gRPC's interceptors and the ticker have no recover, and there it ends the process.
  A request that is answered in this way has passed none of the later checks and may
  be counted nowhere, or in total and not for its service (`missed` in `AccessChain`).
* The three chains, written out three times, admit and refuse by the same rules
  (`ForwardedIsAdmitted`, `RefusedForCause`). What differs is whom they take the
  client for. Over HTTP a client that states an address in a header is known by it:
  the white and black lists, and the limit per client, bind whoever states none.
  Over TCP, and over gRPC for IPv6, no address of a list matches.
* They count a request once, before any of them may refuse it, unless a look for a
  counter faults; that needs requests that overlap, and does not happen over gRPC,
  where the process ends instead (`CountsAddUp`).
* A limit lets through its burst of three times the rate and what time gives
  back, once per limiter made; a second one needs two requests that made limiters
  at the same time (`LimitHolds`). The burst is what the tables say, except for a
  tenant's limiter: where gRPC services without open_auth are reached without a
  token, a request is held to the tenant, rate and quota of its own metadata, and the
  limiter it makes is the one requests with the tenant's token find, over HTTP too
  (`Forged`). For a request with a token the tenant is always the token's.

* The logger implements its promise (`ImplementsRecordLog`): whatever a goroutine
  sent into the channel is in the files of its level, once and in order, when Close
  has returned, although Close only closes the channel and waits for one token.
  `takeup` is what carries it: `InitBaseConf` happens to touch the default logger a
  second time; without that (`SetsLevelOnly`) two first log calls that meet would
  replace the configured logger by one that has no files. The price is paid after
  Close: a call then panics, or makes a new logger without files.
* Two goroutines that race for the cached time can stamp a record with another
  second's text; a second in which none raced, nor any after it, has its records
  stamped right, so the damage is not carried on (`StampWrongForCause`).
* A rename that fails is tried again only an hour later, as the new hour is noted before the
  calls, and a flush or a `CreateLogFile` that fails is never
  healed: `bufio.Writer` keeps its error, `w.file` stays the closed file, and the
  process writes nothing until it is restarted (`troubled` in `BufferedReachesFile`
  and `FiledUnderItsHour`).
* A gateway that was up when the signal came stops as written (`CrashForCause`,
  `StopEnds`), with three exceptions: HTTPS requests that outlast ten seconds end it
  by `log.Fatalf`, a stream that stays open stops it from ending, and a TCP server
  whose append met another's is not closed at all. A signal during the start, on
  the other hand, may end it by a panic, on a channel or listener that is not there
  yet. The dashboard races with itself: Shutdown makes `ListenAndServe` return at
  once, whose goroutine calls `log.Fatalf` on any error, while main waits for
  Shutdown to return; whether Destroy is run depends on who comes first.
* A token carries only the tenant's app_id. That it never comes to mean another
  tenant rests on `AppAdd` finding deleted rows too: the same missing filter as
  for services (`TokenMeansTenant`, `TakenIfLive`).

What the passing runs name as the excuse is behaviour too: `ServiceUpdateTcp`
moves a service to a port nobody checked (`moved`); adds that overlap, or a check
that failed, give duplicates (`racedAdds` of services, `doubtful` of tenants); updates that
wait for a second connection, or left without Rollback, starve the pool (`Starved`).
The latter needs no failure of the database: an update of a TCP or gRPC service
whose id is unknown leaves its transaction open, one connection each time, until the
dashboard is restarted.

### Where text and code part

Nine texts of the repository promise more than the code does. None of them has a run
of its own. Most are the excuse, or the weaker form, of a property that holds, which
is named; for settings that no code reads there is nothing to state a property of.

| text | what the code does | property |
|---|---|---|
| `LB/check_config.go:85`, an update also notifies the listeners | one published before the balancer is attached reaches nobody, and the next one only follows a change | AgreesUnlessRaced |
| `Go_Gateway_技术分析文档.md:738`, round robin assigns in order | requests that meet repeat or skip addresses, for as long as they go on meeting | InTurn, ServedOneAtATime |
| `Go_Gateway_技术分析文档.md:350`, get and reset is an atomic operation | it is two; an increase in between is lost | CountsOnce |
| `dto/app.go:31`, a limit per day | until the first sample after midnight the total is yesterday's | RefusedForCause |
| `golang_common/log/file_writer.go:151`, the file is renamed by its pattern | the second process renames the first one's new file over it | LostToSecondRename |
| `Go_Gateway_技术分析文档.md:57`, configuration is updated at run time, without a restart | `LoadOnce` is called once, at the start: what the dashboard writes, a deletion included, takes a restart of the gateway | DeletedStaysOut ("before the gateway loaded") |
| `dto/service.go:118`, `:161`, a white list of hosts | `white_host_name` is stored and read by no chain | the lists of ForwardedIsAdmitted are white_list and black_list only |
| `dao/app.go:19`, `dto/app.go:57`, a tenant's white list of addresses | `white_ips` is stored and read by no chain | the same |
| `dao/service_load_balance.go:25`, a list of addresses not to use | `forbid_list` is stored and not read where the balancers are built | none |

## Proofs

| proof module | about | assumes, besides what the constants' sets are |
|---|---|---|
| `ChainProofs` | `TcpSliceRouter`, `AccessChain` | `RouterAssumption`: an odd IndexMax (as every signed type's), and at most half as many middlewares; `AccessChainAssumption`: finitely many workers, names of tenants that are no answers |
| `CheckConfProofs` | `CheckConf` | `CheckConfAssumption`: finitely many addresses, a threshold above 0 |
| `BalancersProofs` | `RoundRobin`, `Balancers` | `RoundRobinAssumption`, `BalancersAssumption`: hashes are numbers, one replica or more |
| `WeightRoundRobinProofs` | `WeightRoundRobin` | `WeightRoundRobinAssumption`: weights are not negative |
| `FlowCounterProofs` | `FlowCounter`, `HandlerCache` | `HandlerCacheAssumption`: finitely many requests in flight |
| `DashboardProofs` | `Tenants`, `ServiceAdmin` | `ServiceAdminAssumption`: finitely many requests in flight, a pool of one or more |
| `LifecycleProofs` | `Lifecycle` | `LifecycleAssumption`: the servers are different ones |
| `LoggerProofs` | `Logger`, `FileWriter`, the safety part of `ImplementsRecordLog` | `LoggerAssumption`: main is none of the goroutines that log; `FileWriterAssumption`: finitely many processes, a buffer with room |

Each theorem is about the module's specification and assumes the named assumption
of the module and nothing else, but for `OwnHandlerIfFilled` (below). `theorems` in
`PROJECT.json` lists the results. Every safety property and every action property
that a run checks is proved, so the run shows it on an instance and the theorem for
any number of requests, addresses, services, rows, records and troubles. Each rests
on an inductive invariant that TLC confirmed on the run's instance first:

* *TCP chain.* TypeOK and IndexNeverWraps are not inductive: an index of 63 plus
  the open loops has to be bounded. The invariant relates index and nesting:
  on the way down there is one open loop per handler entered (depth = index, or
  index + 1 inside a handler); on the way back index is at least NHandlers and
  index + depth at most IndexMax, since each loop that ends adds one to index.
  Order and rejection follow from "the handlers run so far are 0 .. index".
  `OwnCoreHandler` does not hold for every number of middlewares, so
  `OwnHandlerIfFilled` has the condition under which it does, the one the gateway
  meets: the handlers fill a size class of the allocator. Then no connection's
  core handler is in the shared array.
* *Access checks* (`AInv`). What a request at a stage has been checked for
  (`AdmittedOK`), what a refused one was refused for (`RefusedOK`), both with the tenant
  in its context being `TenantOf` once the token's check is behind it. For a limiter's
  refusal and for `LimitHolds` the account has to be kept: tokens plus what was let
  through are the burst plus what time gave back, and the burst is the tables' or was
  brought along (`BucketInv`); for the latter, what a request makes is what the stage it
  is at looks for (`MakingInv`), and as long as no two make limiters at a time, who
  makes one is alone and finds none (`CacheInv`). For the counts, the answers and the
  requests past a counter's stage are the number counted or missed (`CountInv`), and
  as long as no requests overlapped no look has faulted (`OverlapInv`). The chains are
  tables in which every middleware is at one place.
* *Health checking.* Between two probes, an address's count is the length of the
  run of failures at the head of its history, up to MaxErrNum, and an address is
  in the new list if the count is below it. For the agreement: unless raced, at
  most one of builder and watcher is inside Update, and then `rss` and what is
  left of `list` together are the active addresses, each once.
* *Round robin.* While nothing is updated, the list of a request in Next is not
  empty, every `lens` read is its length, and `curIndex` is below that length
  for every request past the wrap check; a request about to store has found its
  `lens` above 0. For `InTurn`: while steady, `curIndex` is the place last taken,
  counted from 1, but for the one request between its pick and its store (`SteadyInv`).
* *Random and consistent hash* (`BInv`). A draw is within the list as long as no
  Update was met. For `AnswersOwner`: keys and map are the ring of the addresses
  added so far, in which a hash of two addresses goes to the later one (`Ring`,
  `RingInv`), and a search that met no Update has only smaller keys below its lower
  bound and none from its upper one on (`QueryOK`). That `Sorted` sorts, and that
  adding a list makes its ring, is proved too (`SortedIs`, `RingOfList`).
* *Weighted round robin.* If the list did not change during a call, the call's
  position is within the list wherever line 43 is next; a call that panicked
  saw a change. For `Proportional` (`WInv`): at rest a node's current weight is what it
  is owed, picks x weight - sum x times served; what all are owed adds up to 0, and
  nobody is owed -sum or less. The node that a call takes is owed most, so it is owed
  something, and stays above -sum when the sum is taken from it. After a whole round
  all is a multiple of the sum, above -sum, and adds up to 0: it is 0 for everyone.
* *Flow counter.* `sent + Held <= requests`, with equality undisturbed, where
  Held follows a count from the goroutine to the counter to the ticker; for the
  quota, `totalCount` is at most what the key of `sampleDay` holds, since keys
  only grow and a read total is of `keyDay`.
* *Caches* (`HInv`). Unless clashed there is at most one append, and the invariant
  follows it word by word: which of the words of the slice are new, and that all
  elements below the length are there but the one being stored (`SliceInv`). A scan
  that met no append has loaded words of the present slice (`ScanInv`). For second
  items: the items made of a name and the calls that will not see any of them
  (`Blind`) are together no more than the requests in flight (`ItemsInv`).
* *Tenants.* An add about to save has found its app_id free, unless overtaken (`JobInv`); two
  rows of one app_id have a doubtful one among them, deleted rows included (`UniqueInv`);
  `is_delete` is what the answered deletions say, but for those an overlapping
  update revived (`DeletionInv`); the registry and the tokens name rows (`GatewayInv`).
* *Service administration* (`SIInv`). A request's remaining steps are in the order of its
  program, and the steps that are no longer left have been done (`OrderOK`, `OpOK`);
  the row it holds is the table's, or was (`RowOK`); what an add's checks found free
  in the services (a stray rule only refuses more)
  stays free while no other add commits (`FreeOK`); two services of one name or
  address have a raced or a moved one among them (`OwnersInv`). What is lent and lost is within the pool, and lost only to updates that gave up
  (`PoolInv`). The invariant had to say that
  a row held by an update may be deleted in the table, if the update was `late` for
  the deletion, and that another update's commit may have revived it in between.
* *Lifecycle.* Each list has every server whose append was not overlapped, at the
  place after what the append had read (`ListInv`); a TCP server that was up listens
  until Close is through with it (`ListenInv`); what the stop has still to close and what it has
  closed are together what was up and listed (`TodoInv`, `ReachInv`). `CrashForCause` needs
  that no such server is closed twice, `DrainedUnlessTimedOut` that the web servers are drained
  one after the other (`WebInv`).
* *Logger.* From set-up to Untake every goroutine finds the first logger, or none and
  is sent to it (`DefaultInv`); Close goes on only when the channel and the buffers are empty
  (`BootInv`); what was accepted for a file is on disk, in its buffer or, as a selection by
  level, in the channel, in this order (`QueueInv`), which is all a step of `RecordLog`
  needs; the cached text is the cached second's unless that second, or a later one,
  was raced for, or one goroutine is about to set it (`StampInv`).
* *Log files* (`FInv`). The inode of the name in use has no other name, and only the second
  rename to an hour takes a name from an inode (`NamesInv`); a process that has renamed to
  an hour has later ones before it (`HoursInv`); the file in use of a process without trouble has its own records
  of the hour it will be renamed to (`FilesInv`).

The `TypeOK` of every module with behaviour, `PoolAccounted`, `IndexNeverWraps`,
`NegativeRateOnlyAtMidnight` and `OnlyItsKeysMove` are proved and not properties of a
run: TLC adds nothing to what is proved for all values. Sequences are built by recursive
functions (`SumUpTo`, `AfterAdds`), and what holds of all their values is proved without
the library's induction theorems: of the numbers for which a claim fails there
would be a least one (`LeastNumber`, `UpTo`).

Only model-checked, not proved, since liveness and ENABLED are out of the prover's
reach: `RejectedIsReleased`, `TrafficFollowsHealth`, `ServedOneAtATime`,
`QuotaEnforced`, `AnsweredUnlessStarved`, `CallsReturn`, `BufferedReachesFile`, `StopEnds`,
and of `ImplementsRecordLog` that what is accepted comes to disk (`Kept`).

## What is not modelled, and why

* The dashboard's reading handlers, its statistics, the routing table, logging of
  requests, validation and formatting: they keep no state that a property could be
  about. Addresses, weights as text, names, headers and URLs are values to be
  compared, no more.
* Configuration files: parsed once at the start, never written. What `InitBaseConf`
  does to the logger is in `Logger`, except that a base file it cannot parse makes it
  return early (`lib/conf.go:86-89`): `InitModule` prints the error and the process
  runs on, with the default logger and no log files.
* Administrator sessions: login, logout and a change of the password touch one row
  and one entry of an external store, without a relation between them.
* In `AccessChain`: rewriting of headers and paths; what ends the process, that is
  `log.Fatal` of the TCP proxy and a fault over gRPC. The hour key of the counter, which is written like the day
  key and read by statistics only.
* In `Lifecycle`: TCP connections, which no stop waits for; what is done on one is
  `TcpSliceRouter`. In `Logger`: the console writer, which nothing of the gateway's
  configuration in the repository uses next to the files.
* The upstream of a gRPC service: picked by one call before the server serves; the
  rest is grpc-go's dial.
* The services' registry over rows as `ServiceAdmin` leaves them: `LoadOnce` is one
  read of complete services (`ServicesComplete`), in `Lifecycle` as any of the parts
  it may stop at. The tenants' one, on which tokens depend, is composed with its
  rows in `Tenants`.
* The weak memory model: see "What counts as a step".

## Plan

Modelled: the balancers, health checking, the counter, the TCP chain, the
dashboard's writes, the caches, the access checks, the logger, the lifecycle,
tenants and tokens. Proved: every safety and action property of their runs.

1. Abstract specifications of the balancers ("a list and a pick from it") and the
   caches ("one item per name, while no two requests append at once"), as `RecordLog`
   is one of the logger, with the refinement proved from `BInv` and `HInv`.
2. The services' registry composed with `ServiceAdmin`.
3. What of the liveness properties is safety: the steps that lead on, as lemmas.
