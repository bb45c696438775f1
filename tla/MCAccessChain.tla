--------------------------- MODULE MCAccessChain ---------------------------
(***************************************************************************)
(* Services for TLC: every policy with one request of every kind, for each *)
(* protocol a service whose limits and quota four requests exhaust, and    *)
(* HTTP and gRPC requests that share the limiter and the quota of a tenant *)
(* whose id some gRPC requests only claim.                                 *)
(***************************************************************************)
EXTENDS AccessChain, TLC

Services(open, white, black, serviceLimit, clientLimit) ==
    [p \in Protocols |->
        [openAuth |-> open, white |-> white, black |-> black,
         serviceLimit |-> serviceLimit, clientLimit |-> clientLimit]]

Rows(qps, qpd) == [a \in Apps |-> [id |-> a, qps |-> qps, qpd |-> qpd]]

AnyKind ==
    LET brought == {NoApp, Malformed} \cup [id : AppIds, qps : {0}, qpd : {0}] IN
    [protocol : {"http"}, client : Clients, stated : Clients \cup {"none"},
     token : Tokens, carried : {NoApp}, route : Routes]
       \cup [protocol : {"grpc"}, client : Clients, stated : {"none"},
             token : Tokens, carried : brought, route : {"service"}]
       \cup [protocol : {"tcp"}, client : Clients, stated : {"none"},
             token : {"none"}, carried : {NoApp}, route : {"service"}]

AnyPolicy ==
    {[services |-> Services(o, w, b, 0, 0), rows |-> Rows(0, 0),
      arriving |-> AnyKind, most |-> 1] :
        o \in BOOLEAN, w \in SUBSET Clients, b \in SUBSET Clients}

Plainly(p, clients, tokens, carried) ==
    [protocol : {p}, client : clients, stated : {"none"}, token : tokens,
     carried : carried, route : {"service"}]

\* serviceLimit, clientLimit, qps and qpd, spread over the protocols.
Limits(p) == CASE p = "http" -> {<<0, 0, 1, 1>>}
               [] p = "grpc" -> {<<0, 1, 0, 0>>, <<0, 0, 1, 1>>}
               [] p = "tcp" -> {<<1, 0, 0, 0>>, <<0, 1, 0, 0>>}

UnderLoad ==
    UNION {
        {[services |-> Services(FALSE, {}, {}, l[1], l[2]), rows |-> Rows(l[3], l[4]),
          arriving |-> Plainly(p, IF p = "tcp" THEN V6 ELSE V4, Apps, {NoApp}),
          most |-> 4] : l \in Limits(p)} : p \in Protocols}

Claimed ==
    {[services |-> Services(FALSE, {}, {}, 0, 0), rows |-> Rows(2, 0),
      arriving |-> Plainly("http", V4, Apps, {NoApp}) \cup
                   Plainly("grpc", V4, {"none"}, [id : Apps, qps : {1}, qpd : {1}]),
      most |-> 3]}

\* The requests are interchangeable.
WorkerSymmetry == Permutations(Workers)

MCScenarios == AnyPolicy \cup UnderLoad \cup Claimed
=============================================================================
