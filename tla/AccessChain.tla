---------------------------- MODULE AccessChain ----------------------------
(***************************************************************************)
(* What a request passes on its way to an upstream, over HTTP              *)
(* (http_proxy_router/route.go, http_proxy_middleware), gRPC               *)
(* (grpc_proxy_router/grpcserver.go, grpc_proxy_middleware) and TCP        *)
(* (tcp_proxy_router/tcpserver.go, tcp_proxy_middleware): the three chains *)
(* repeat the same checks, and share the counters, the limiters and the    *)
(* tenants.  A middleware is one step, but flowCount and flowLimit are two *)
(* each, and a counter or limiter that has to be made is one more.         *)
(* Rewriting of headers and paths is left out, and so is what ends the     *)
(* process: log.Fatal of the TCP proxy, and a fault over gRPC, where       *)
(* nothing recovers.                                                       *)
(*                                                                         *)
(* HandlerCache shows in detail how the racy caches of counters and        *)
(* limiters double and lose items and fault.  Of it a chain notices that a *)
(* look may fault while another request makes an item, and that after two  *)
(* items were made at a time any look may fault or miss what is there.     *)
(*                                                                         *)
(* TcpChainLimitFirst, TakesAny, AnyToken and BlackAlways are faulty       *)
(* variants.                                                               *)
(***************************************************************************)
EXTENDS Integers, Sequences, FiniteSets

CONSTANTS Workers,   \* requests in flight at the same time
          Apps,      \* tenants in the app list
          V4, V6,    \* client addresses: IPv4 and IPv6
          Scenarios, \* services and requests, see Scenario; bounds the model
          MaxRefills \* tokens the limiters regain; bounds the model

Protocols == {"http", "grpc", "tcp"}
Clients == V4 \cup V6

\* A tenant as a chain knows it: its row, or what the metadata "app" of a gRPC
\* request says, which may name any id, or may not decode.
AppIds == Apps \cup {"stranger"}
AppRows == [id : AppIds, qps : Nat, qpd : Nat]
NoApp == [id |-> "none", qps |-> 0, qpd |-> 0]
Malformed == [id |-> "malformed", qps |-> 0, qpd |-> 0]
Carried == AppRows \cup {NoApp, Malformed}

\* What a request may carry: no token, one that does not decode, one of an
\* issuer that is not in the app list, or the token of an app; over HTTP the
\* address that X-Forwarded-For or X-Real-Ip state; over gRPC metadata "app".
Tokens == {"none", "invalid", "stranger"} \cup Apps
Routes == {"service", "nobody", "noPort"}
Requests == [protocol : Protocols, client : Clients,
             stated : Clients \cup {"none"}, token : Tokens, carried : Carried,
             route : Routes]

\* A service for each protocol (a gRPC or TCP port belongs to one service), the
\* rows of the tenants and the requests that arrive.
Policy == [openAuth : BOOLEAN, white : SUBSET Clients, black : SUBSET Clients,
           serviceLimit : Nat, clientLimit : Nat]
Scenario == [services : [Protocols -> Policy], rows : [Apps -> AppRows],
             arriving : SUBSET Requests, most : Nat]

ASSUME AccessChainAssumption ==
    /\ Scenarios \subseteq Scenario
    /\ \A s \in Scenarios :
          /\ s.arriving # {}
          /\ \A r \in s.arriving : r.protocol # "http" => r.route = "service"
          /\ \A a \in Apps : s.rows[a].id = a
    /\ IsFiniteSet(Workers) /\ MaxRefills \in Nat
    /\ Apps \cap (Protocols \cup {"none", "invalid", "malformed", "stranger", "total"}) = {}
    /\ "none" \notin Clients /\ V4 \cap V6 = {}

VARIABLES
    scenario, \* the scenario: rows do not change while the gateway runs
    at,       \* at[w]: the stage request w is at, "idle" or "answered"
    request,  \* request[w]
    app,      \* app[w]: the tenant in the context of w, or NoApp
    answer,   \* answer[w]: how the gateway answered, or ""
    making,   \* making[w]: the key whose counter or limiter w makes, or NoKey
    found,    \* found[k]: the counter or limiter found under key k, 0 for none
    buckets,  \* buckets[k]: the limiters made for key k
    counted,  \* counted[c]: requests counted in total, of a service, of an app
    arrived,  \* requests so far
    refills,  \* tokens regained by all limiters; bounds the model
    crowded,  \* the caches in which two items were made at a time
    overlapped, \* history: a request arrived while another was in flight
    answers,  \* history: answers so far to requests that reached a service
    missed    \* history: those of them that had not been counted

given == <<scenario, request, arrived, overlapped>>
cache == <<making, found, crowded>>
limiters == <<buckets, refills>>
replies == <<answer, answers, missed>>
avars == <<given, at, app, cache, limiters, counted, replies>>

HttpChain ==
    <<"accessMode", "totalCount", "serviceCount", "serviceLimit", "clientLimit",
      "jwtAuth", "jwtFlowCount", "jwtFlowLimit", "whiteList", "blackList",
      "reverseProxy">>
GrpcChain == Tail(HttpChain)
TcpChainLimitFirst == <<"serviceLimit", "clientLimit", "totalCount",
                        "serviceCount", "whiteList", "blackList", "reverseProxy">>
TcpChain == <<"totalCount", "serviceCount", "serviceLimit", "clientLimit",
              "whiteList", "blackList", "reverseProxy">>

Chain(p) == CASE p = "http" -> HttpChain
              [] p = "grpc" -> GrpcChain
              [] p = "tcp" -> TcpChain
Stages == {HttpChain[i] : i \in 1 .. Len(HttpChain)}
After(p, stage) ==
    Chain(p)[1 + CHOOSE i \in 1 .. Len(Chain(p)) : Chain(p)[i] = stage]

Protocol(w) == request[w].protocol
Service(p) == scenario.services[p]

\* The client's address as the middlewares see it: over HTTP gin's ClientIP,
\* which takes the headers' word for it; over gRPC what stands before the last
\* colon of the peer's, which keeps the brackets of an IPv6 address; over TCP
\* the first of exactly two parts between colons, else "".
Plain(c) == <<"plain", c>>
NoAddress == <<"empty">>
KnownAs(r) == IF r.protocol = "http" /\ r.stated # "none" THEN r.stated ELSE r.client
GrpcSeen(c) == IF c \in V4 THEN Plain(c) ELSE <<"bracketed", c>>
TcpSeen(c) == IF c \in V4 THEN Plain(c) ELSE NoAddress
Seen(r) == CASE r.protocol = "http" -> Plain(KnownAs(r))
             [] r.protocol = "grpc" -> GrpcSeen(r.client)
             [] r.protocol = "tcp" -> TcpSeen(r.client)
SeenClients == {"plain", "bracketed"} \X Clients \cup {NoAddress}

\* InStringSlice: the address is compared as a string with those of the list.
InList(a, list) == \E c \in list : a = Plain(c)

\* The names counters and limiters are cached under.
NoKey == <<"noKey">>
Counters == {"total"} \cup Protocols \cup AppIds
CounterKey(c) == <<"counter", c>>
ServiceKey(p) == <<"service", p>>
ClientKey(p, a) == <<"client", p, a>>
AppKey(id, a) == <<"app", id, a>>
LimiterKeys == {ServiceKey(p) : p \in Protocols}
                  \cup {ClientKey(p, a) : p \in Protocols, a \in SeenClients}
                  \cup {AppKey(id, a) : id \in AppIds, a \in SeenClients}
Keys == {CounterKey(c) : c \in Counters} \cup LimiterKeys

\* The cache a key belongs to.
Cache(k) == CASE k = NoKey -> "none"
              [] k[1] = "counter" -> "counter"
              [] OTHER -> "limiter"

\* A limiter: its burst, the tokens left and, as history, the requests it let
\* through and the tokens time gave back.
Limiters == [burst : Nat, tokens : Nat, passed : Nat, refilled : Nat]

\* rate.NewLimiter(qps, int(qps*3))
Burst(qps) == 3 * qps
NewLimiter(qps) == [burst |-> Burst(qps), tokens |-> Burst(qps), passed |-> 0, refilled |-> 0]
LetOneThrough(lim) == [lim EXCEPT !.tokens = @ - 1, !.passed = @ + 1]
Refilled(lim) == [lim EXCEPT !.tokens = @ + 1, !.refilled = @ + 1]

AInit ==
    /\ scenario \in Scenarios
    /\ at = [w \in Workers |-> "idle"]
    /\ request = [w \in Workers |-> CHOOSE r \in scenario.arriving : TRUE]
    /\ app = [w \in Workers |-> NoApp]
    /\ answer = [w \in Workers |-> ""]
    /\ making = [w \in Workers |-> NoKey]
    /\ found = [k \in Keys |-> 0]
    /\ buckets = [k \in LimiterKeys |-> <<>>]
    /\ counted = [c \in Counters |-> 0]
    /\ arrived = 0 /\ refills = 0
    /\ crowded = {} /\ overlapped = FALSE
    /\ answers = [c \in {"total"} \cup Protocols |-> 0]
    /\ missed = [c \in {"total"} \cup Protocols |-> 0]

Proceed(w, stage) ==
    /\ at[w] = stage
    /\ at' = [at EXCEPT ![w] = After(Protocol(w), stage)]
    /\ UNCHANGED replies

\* One more for each of the counters given.
Plus(counts, cs) == [c \in DOMAIN counts |-> counts[c] + (IF c \in cs THEN 1 ELSE 0)]

\* ResponseError and return, return err, or the last words on the connection.
Reply(w, stage, what) ==
    /\ at[w] = stage
    /\ at' = [at EXCEPT ![w] = "answered"]
    /\ answer' = [answer EXCEPT ![w] = what]
    /\ answers' = IF stage = "accessMode" THEN answers
                  ELSE Plus(answers, {"total", Protocol(w)})

Answer(w, stage, what) == Reply(w, stage, what) /\ UNCHANGED missed

InFlight(w) == at[w] \in Stages

Arrive(w, r) ==
    /\ ~InFlight(w) /\ arrived < scenario.most
    /\ at' = [at EXCEPT ![w] = Chain(r.protocol)[1]]
    /\ request' = [request EXCEPT ![w] = r]
    /\ app' = [app EXCEPT ![w] = IF r.protocol = "grpc" THEN r.carried ELSE NoApp]
    /\ answer' = [answer EXCEPT ![w] = ""]
    /\ arrived' = arrived + 1
    /\ overlapped' = (overlapped \/ \E u \in Workers \ {w} : InFlight(u))
    /\ UNCHANGED <<scenario, cache, limiters, counted, answers, missed>>

\* HTTPAccessMode cuts the port off the host: without one it panics, which the
\* recovery middleware answers.
AccessMode(w) ==
    /\ \/ request[w].route = "service" /\ Proceed(w, "accessMode")
       \/ request[w].route = "nobody" /\ Answer(w, "accessMode", "notMatched")
       \/ request[w].route = "noPort" /\ Answer(w, "accessMode", "error")
    /\ UNCHANGED <<given, app, cache, limiters, counted>>

\* GetCounter and GetLimiter.  The item is found ...
Found(w, k) ==
    /\ making[w] = NoKey /\ found[k] > 0
    /\ UNCHANGED cache

OthersMaking(w, c) == \E u \in Workers \ {w} : Cache(making[u]) = c

\* ... or none is, and one is about to be made ...
Miss(w, stage, k) ==
    /\ at[w] = stage /\ making[w] = NoKey
    /\ found[k] = 0 \/ Cache(k) \in crowded
    /\ making' = [making EXCEPT ![w] = k]
    /\ crowded' = crowded \cup (IF OthersMaking(w, Cache(k)) THEN {Cache(k)} ELSE {})
    /\ UNCHANGED <<given, at, app, found, limiters, counted, replies>>

\* ... and kept: number i of this key, if none is lost ...
Keep(w, k, i) ==
    /\ making[w] = k
    /\ making' = [making EXCEPT ![w] = NoKey]
    /\ \/ found' = [found EXCEPT ![k] = i]
       \/ Cache(k) \in crowded /\ UNCHANGED found
    /\ UNCHANGED crowded

\* ... or the look meets an item that is not stored yet and faults, which the
\* recovery middleware answers and the TCP server by closing the connection.
Uncounted(stage, p) == CASE stage = "totalCount" -> {"total", p}
                         [] stage = "serviceCount" -> {p}
                         [] OTHER -> {}

Fault(w, stage, k) ==
    /\ Protocol(w) # "grpc" /\ making[w] = NoKey
    /\ Cache(k) \in crowded \/ OthersMaking(w, Cache(k))
    /\ Reply(w, stage, "error")
    /\ missed' = Plus(missed, Uncounted(stage, Protocol(w)))
    /\ UNCHANGED <<given, app, cache, limiters, counted>>

\* Increase of the counter found or made.
Increase(w, c) ==
    /\ Found(w, CounterKey(c)) \/ Keep(w, CounterKey(c), 1)
    /\ counted' = [counted EXCEPT ![c] = @ + 1]

Count(w, stage, c) ==
    \/ Miss(w, stage, CounterKey(c)) \/ Fault(w, stage, CounterKey(c))
    \/ Increase(w, c) /\ Proceed(w, stage) /\ UNCHANGED <<given, app, limiters>>

FlowCount(w) == Count(w, "totalCount", "total") \/ Count(w, "serviceCount", Protocol(w))

GoOn(w, stage) ==
    Proceed(w, stage) /\ UNCHANGED <<given, app, cache, limiters, counted>>

\* Limiter.Allow, which has its own lock, of limiter i of those of key k.
TakesAny(tokens) == tokens >= 0
Takes(tokens) == tokens > 0

Allow(w, stage, k, made, i) ==
    /\ IF Takes(made[i].tokens)
       THEN /\ buckets' = [buckets EXCEPT ![k] = [made EXCEPT ![i] = LetOneThrough(@)]]
            /\ Proceed(w, stage)
       ELSE /\ buckets' = [buckets EXCEPT ![k] = made]
            /\ Answer(w, stage, "limited")
    /\ UNCHANGED <<given, app, refills, counted>>

\* A limiter found is used whatever its rate.
Limit(w, stage, k, qps) ==
    \/ Miss(w, stage, k) \/ Fault(w, stage, k)
    \/ Found(w, k) /\ Allow(w, stage, k, buckets[k], found[k])
    \/ /\ Keep(w, k, Len(buckets[k]) + 1)
       /\ Allow(w, stage, k, Append(buckets[k], NewLimiter(qps)), Len(buckets[k]) + 1)

LimitIfSet(w, stage, k, qps) ==
    IF qps > 0 THEN Limit(w, stage, k, qps) ELSE GoOn(w, stage)

FlowLimit(w) ==
    LET p == Protocol(w) IN
    \/ LimitIfSet(w, "serviceLimit", ServiceKey(p), Service(p).serviceLimit)
    \/ LimitIfSet(w, "clientLimit", ClientKey(p, Seen(request[w])), Service(p).clientLimit)

\* With open_auth the token has to be that of an app in the app list.
AnyToken(p, token) == Service(p).openAuth => token # "none"
Admitted(p, token) == Service(p).openAuth => token \in Apps

\* The app is set in the context, for gRPC in the metadata the request came
\* with, which otherwise stay as they are.
JwtAuth(w) ==
    LET token == request[w].token IN
    /\ \/ token = "invalid" /\ Answer(w, "jwtAuth", "invalidToken") /\ UNCHANGED app
       \/ /\ token # "invalid" /\ ~Admitted(Protocol(w), token)
          /\ Answer(w, "jwtAuth", "noApp") /\ UNCHANGED app
       \/ /\ token # "invalid" /\ Admitted(Protocol(w), token)
          /\ Proceed(w, "jwtAuth")
          /\ app' = IF token \in Apps THEN [app EXCEPT ![w] = scenario.rows[token]] ELSE app
    /\ UNCHANGED <<given, cache, limiters, counted>>

\* TotalCount is a sample the ticker of the counter took at some time: see
\* FlowCounter.
JwtFlowCount(w) ==
    LET id == app[w].id
        qpd == app[w].qpd IN
    \/ app[w] = NoApp /\ GoOn(w, "jwtFlowCount")
    \/ /\ app[w] = Malformed /\ Answer(w, "jwtFlowCount", "invalidApp")
       /\ UNCHANGED <<given, app, cache, limiters, counted>>
    \/ /\ id \in AppIds
       /\ Miss(w, "jwtFlowCount", CounterKey(id)) \/ Fault(w, "jwtFlowCount", CounterKey(id))
    \/ /\ id \in AppIds
       /\ Increase(w, id)
       /\ \E total \in 0 .. counted[id] + 1 :
             IF qpd > 0 /\ total > qpd THEN Answer(w, "jwtFlowCount", "overQuota")
             ELSE Proceed(w, "jwtFlowCount")
       /\ UNCHANGED <<given, app, limiters>>

JwtFlowLimit(w) ==
    LimitIfSet(w, "jwtFlowLimit", AppKey(app[w].id, Seen(request[w])), app[w].qps)

\* The lists bind only services with open_auth, the black one only those
\* without a white one.
Binds(service, list) == service.openAuth /\ list # {}

WhiteList(w) ==
    LET s == Service(Protocol(w)) IN
    /\ IF Binds(s, s.white) /\ ~InList(Seen(request[w]), s.white)
       THEN Answer(w, "whiteList", "notWhite")
       ELSE Proceed(w, "whiteList")
    /\ UNCHANGED <<given, app, cache, limiters, counted>>

BlackAlways(white) == TRUE
BlackCounts(white) == white = {}

BlackList(w) ==
    LET s == Service(Protocol(w)) IN
    /\ IF Binds(s, s.black) /\ BlackCounts(s.white) /\ InList(Seen(request[w]), s.black)
       THEN Answer(w, "blackList", "black")
       ELSE Proceed(w, "blackList")
    /\ UNCHANGED <<given, app, cache, limiters, counted>>

\* To an upstream, or an error of the balancer or of the upstream.
ReverseProxy(w) ==
    /\ \E what \in {"forwarded", "error"} : Answer(w, "reverseProxy", what)
    /\ UNCHANGED <<given, app, cache, limiters, counted>>

\* Time gives a limiter a token back.
Refill(k, i) ==
    /\ buckets[k][i].tokens < buckets[k][i].burst /\ refills < MaxRefills
    /\ buckets' = [buckets EXCEPT ![k][i] = Refilled(@)]
    /\ refills' = refills + 1
    /\ UNCHANGED <<given, at, app, cache, counted, replies>>

Step(w) ==
    \/ \E r \in scenario.arriving : Arrive(w, r)
    \/ AccessMode(w) \/ FlowCount(w) \/ FlowLimit(w)
    \/ JwtAuth(w) \/ JwtFlowCount(w) \/ JwtFlowLimit(w)
    \/ WhiteList(w) \/ BlackList(w) \/ ReverseProxy(w)

ANext ==
    \/ \E w \in Workers : Step(w)
    \/ \E k \in LimiterKeys : \E i \in 1 .. Len(buckets[k]) : Refill(k, i)

ASpec == AInit /\ [][ANext]_avars
-----------------------------------------------------------------------------
Answers == {"notMatched", "error", "limited", "invalidToken", "noApp",
            "invalidApp", "overQuota", "notWhite", "black", "forwarded"}

ATypeOK ==
    /\ scenario \in Scenarios
    /\ at \in [Workers -> Stages \cup {"idle", "answered"}]
    /\ request \in [Workers -> scenario.arriving]
    /\ app \in [Workers -> Carried]
    /\ answer \in [Workers -> Answers \cup {""}]
    /\ making \in [Workers -> Keys \cup {NoKey}]
    /\ buckets \in [LimiterKeys -> Seq(Limiters)]
    /\ found \in [Keys -> Nat]
    /\ \A k \in LimiterKeys : found[k] <= Len(buckets[k])
    /\ counted \in [Counters -> Nat]
    /\ arrived \in 0 .. scenario.most /\ refills \in 0 .. MaxRefills
    /\ crowded \subseteq {"counter", "limiter"} /\ overlapped \in BOOLEAN
    /\ answers \in [{"total"} \cup Protocols -> Nat]
    /\ missed \in [{"total"} \cup Protocols -> Nat]

\* What a service with open_auth asks for ("是否开启权限验证", dto/service.go:115),
\* and any service of a token over HTTP and gRPC: stated once, for the three
\* chains that are written out separately.
OnLists(s, c) == IF s.white # {} THEN c \in s.white ELSE c \notin s.black
TokenOK(s, token) == token # "invalid" /\ (s.openAuth => token \in Apps)

\* The lists see the address the client is known as the way the tables have it.
SeenAsIs(r) == Seen(r) = Plain(KnownAs(r))

\* The tenant a request is held to: that of its token; without one, over gRPC,
\* whoever the request says.
TenantOf(r) ==
    CASE r.protocol # "tcp" /\ r.token \in Apps -> scenario.rows[r.token]
      [] r.protocol = "grpc" /\ r.token \notin Apps -> r.carried
      [] OTHER -> NoApp

\* What reaches an upstream over HTTP, gRPC or TCP was routed there, has the
\* token, and is known by an address on the lists, that its service asks for,
\* and was held to the limits of its own tenant.  Over HTTP the address is the
\* one the headers state, if they state one: the lists bind whoever states none.
\* Of the lists only white_list and black_list are meant; the chains read
\* neither white_host_name nor a tenant's white_ips.
ForwardedIsAdmitted ==
    \A w \in Workers : answer[w] = "forwarded" =>
        LET r == request[w]
            s == Service(r.protocol) IN
        /\ r.route = "service"
        /\ r.protocol # "tcp" => TokenOK(s, r.token)
        /\ s.openAuth /\ SeenAsIs(r) => OnLists(s, KnownAs(r))
        /\ app[w] = TenantOf(r)

\* The limiters a request may be held to.
OwnKeys(r) ==
    LimiterKeys \cap {ServiceKey(r.protocol), ClientKey(r.protocol, Seen(r)),
                      AppKey(TenantOf(r).id, Seen(r))}

\* A refusal has the cause it names: a client is turned away by a list only if
\* the service's lists exclude the address it is known as; by the quota only if
\* the requests counted under its tenant's id exceed it; by a limiter only if one
\* of its own has let through a full bucket.  Without a token, the quota and the
\* id of a gRPC request are those it brings along.
RefusedForCause ==
    \A w \in Workers :
        LET r == request[w]
            s == Service(r.protocol)
            tenant == TenantOf(r) IN
        /\ answer[w] \in {"invalidToken", "noApp"} =>
              r.protocol # "tcp" /\ ~TokenOK(s, r.token)
        /\ answer[w] \in {"notWhite", "black"} /\ SeenAsIs(r) =>
              s.openAuth /\ ~OnLists(s, KnownAs(r))
        /\ answer[w] = "invalidApp" => r.protocol = "grpc" /\ tenant = Malformed
        /\ answer[w] = "overQuota" =>
              tenant.qpd > 0 /\ counted[tenant.id] > tenant.qpd
        /\ answer[w] = "limited" =>
              \E k \in OwnKeys(r) : \E i \in DOMAIN buckets[k] :
                 buckets[k][i].burst > 0 /\ buckets[k][i].passed >= buckets[k][i].burst

\* The rate the tables set for a key.
Rate(k) == CASE k[1] = "service" -> Service(k[2]).serviceLimit
             [] k[1] = "client" -> Service(k[2]).clientLimit
             [] k[1] = "app" /\ k[2] \in Apps -> scenario.rows[k[2]].qps
             [] OTHER -> 0

\* A gRPC request without a token brings this rate for the key along.
Forged(k, burst) ==
    /\ k[1] = "app" /\ ~Service("grpc").openAuth
    /\ \E r \in scenario.arriving :
          /\ r.protocol = "grpc" /\ r.token \notin Apps \cup {"invalid"}
          /\ r.carried.id = k[2] /\ burst = Burst(r.carried.qps)

\* "Burst capacity is three times the QPS" (Go_Gateway technical analysis, line
\* 325): what a limiter lets through fits one bucket and the tokens time gives
\* back.  The bucket is that of the tables, for all the protocols that share the
\* limiter, but that of a tenant's key may be what a gRPC request without a token
\* has brought along; and a limit has a second bucket only if two requests once
\* made limiters at a time.
LimitHolds ==
    \A k \in LimiterKeys :
        /\ Len(buckets[k]) > 1 => "limiter" \in crowded
        /\ \A i \in DOMAIN buckets[k] :
              LET lim == buckets[k][i] IN
              /\ lim.passed <= lim.burst + lim.refilled
              /\ lim.burst = Burst(Rate(k)) \/ Forged(k, lim.burst)

\* The requests a counter has counted and whose next stage comes after that.
CountStage(c) == IF c = "total" THEN "totalCount" ELSE "serviceCount"
Past(c) ==
    {w \in Workers :
        /\ InFlight(w) /\ c \in {"total", Protocol(w)}
        /\ \E i, j \in 1 .. Len(Chain(Protocol(w))) :
              /\ i < j
              /\ Chain(Protocol(w))[i] = CountStage(c) /\ Chain(Protocol(w))[j] = at[w]}

\* Every request that reaches a service is counted once, in total and for the
\* service, whether it is refused later or not, over HTTP, gRPC and TCP: the
\* answers given and the requests past the count are the number counted, and
\* those that faulted on the way to it, which happens only when requests overlap,
\* and never over gRPC.
CountsAddUp ==
    \A c \in {"total"} \cup Protocols :
        /\ counted[c] + missed[c] = answers[c] + Cardinality(Past(c))
        /\ missed[c] > 0 => overlapped /\ c # "grpc"
=============================================================================
