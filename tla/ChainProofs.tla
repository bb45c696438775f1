---------------------------- MODULE ChainProofs ----------------------------
(***************************************************************************)
(* Proofs about the chains a request passes: TcpSliceRouter, which runs    *)
(* the handlers of a TCP connection, and AccessChain, the checks that HTTP,*)
(* gRPC and TCP requests pass.                                             *)
(*                                                                         *)
(* TcpSliceRouter, for every set of connections, every index width and     *)
(* every number of middlewares up to abortIndex: while Next() calls        *)
(* descend, index equals the number of open calls; once a handler has      *)
(* aborted or the core handler has returned, index is past the handlers    *)
(* and every return trades one open call for one increment, so index +     *)
(* depth no longer grows.                                                  *)
(*                                                                         *)
(* AccessChain, for every set of scenarios and of requests in flight: AInv *)
(* adds to the types what a request has been checked for at the stage it   *)
(* is at, and which tenant it is held to (AdmittedOK), what a refused one  *)
(* was refused for (RefusedOK), how many stand behind each count           *)
(* (CountInv), that a limiter's tokens and what it let through balance     *)
(* (SoundLimiter), which counter or limiter a request may be making        *)
(* (MakingInv), and what is known as long as no two made a limiter at a    *)
(* time (CacheInv) and as long as no requests overlapped (OverlapInv).     *)
(* The three chains are tables (ChainTable), so each middleware is proved  *)
(* once, for all three: what passes a stage (StepPasses), is answered      *)
(* there (StepAnswers) or faults (FaultKeeps).                             *)
(***************************************************************************)
EXTENDS TcpSliceRouter, AccessChain, FiniteSetTheorems, TLAPS

(* TcpSliceRouter.                                                         *)

NotStarted(c) ==
    /\ pc[c] = "new" /\ index[c] = 0 /\ depth[c] = 0
    /\ ran[c] = <<>> /\ ~aborted[c] /\ servedBy[c] = {}

Descending(c) ==
    /\ pc[c] = "loop"
    /\ index[c] \in 0 .. NMiddleware
    /\ depth[c] = index[c] /\ Len(ran[c]) = index[c]
    /\ ~aborted[c] /\ servedBy[c] = {}

InHandler(c) ==
    /\ pc[c] = "handler"
    /\ index[c] \in 0 .. NMiddleware
    /\ depth[c] = index[c] + 1 /\ Len(ran[c]) = index[c] + 1
    /\ ~aborted[c] /\ (index[c] < NMiddleware => servedBy[c] = {})

Unwinding(c) ==
    /\ pc[c] \in {"loop", "done"}
    /\ index[c] \in NHandlers .. IndexMax
    /\ depth[c] \in 0 .. NMiddleware
    /\ index[c] + depth[c] <= IndexMax
    /\ aborted[c] => servedBy[c] = {}

Phase(c) == NotStarted(c) \/ Descending(c) \/ InHandler(c) \/ Unwinding(c)

\* The inductive invariant.
IInv == TypeOK /\ RunsInOrderOnce /\ \A c \in Conns : Phase(c)

\* The index arithmetic the argument rests on: abortIndex leaves as much room
\* above it as below, and an increment below the largest value is exact.
LEMMA IndexFacts ==
    /\ AbortIndex \in Nat
    /\ IndexMax = 2 * AbortIndex + 1
    /\ NMiddleware \in Nat /\ NMiddleware <= AbortIndex
    /\ NHandlers = NMiddleware + 1
    /\ IndexMax \in Nat
    /\ ResetIndex = -1
<1>1. QED
  BY RouterAssumption DEF AbortIndex, NHandlers, ResetIndex

LEMMA IncExact ==
    ASSUME NEW i \in Int, i < IndexMax
    PROVE  Inc(i) = i + 1
BY IndexFacts DEF Inc

LEMMA InitIInv == Init => IInv
<1> SUFFICES ASSUME Init PROVE IInv
  OBVIOUS
<1>1. TypeOK
  BY IndexFacts DEF Init, TypeOK
<1>2. RunsInOrderOnce
  BY DEF Init, RunsInOrderOnce
<1>3. \A c \in Conns : NotStarted(c)
  BY DEF Init, NotStarted
<1>4. QED
  BY <1>1, <1>2, <1>3 DEF IInv, Phase

\* A step of connection c leaves the phase of every other connection alone.
LEMMA OthersKeepPhase ==
    ASSUME TypeOK, NEW c \in Conns, NEW d \in Conns, d # c, Phase(d),
           \/ ServeTCP(c) \/ CallHandler(c) \/ ReturnNext(c)
           \/ Pass(c) \/ Reject(c) \/ CoreReturns(c)
    PROVE  /\ Phase(d)'
           /\ ran'[d] = ran[d]
<1>1. /\ pc'[d] = pc[d] /\ index'[d] = index[d] /\ depth'[d] = depth[d]
      /\ ran'[d] = ran[d] /\ aborted'[d] = aborted[d]
      /\ servedBy'[d] = servedBy[d]
  BY DEF TypeOK, ServeTCP, CallHandler, ReturnNext, Pass, Reject, CoreReturns
<1>2. QED
  BY <1>1 DEF Phase, NotStarted, Descending, InHandler, Unwinding

\* What a step does to the connection that takes it.
LEMMA ServeStep ==
    ASSUME IInv, NEW c \in Conns, ServeTCP(c)
    PROVE  TypeOK' /\ Descending(c)' /\ ran' = ran
<1>1. NotStarted(c)
  BY DEF IInv, Phase, ServeTCP, Descending, InHandler, Unwinding
<1>2. TypeOK'
  <2>1. core' \in [Conns -> {"own", "shared"}] /\ slot' \subseteq Conns
    BY DEF IInv, TypeOK, ServeTCP
  <2>2. Inc(ResetIndex) = 0 /\ 0 \in -(IndexMax + 1) .. IndexMax
    BY IndexFacts DEF Inc
  <2>3. QED
    BY <2>1, <2>2 DEF IInv, TypeOK, ServeTCP
<1>3. Descending(c)'
  <2>1. Inc(ResetIndex) = 0 /\ 0 \in 0 .. NMiddleware
    BY IndexFacts DEF Inc
  <2>2. /\ pc'[c] = "loop" /\ index'[c] = 0
        /\ UNCHANGED <<depth, ran, aborted, servedBy>>
    BY <2>1 DEF IInv, TypeOK, ServeTCP
  <2>3. Len(ran[c]) = 0
    BY <1>1 DEF NotStarted
  <2>4. QED
    BY <1>1, <2>1, <2>2, <2>3 DEF NotStarted, Descending
<1>4. QED
  BY <1>2, <1>3 DEF ServeTCP

LEMMA CallStep ==
    ASSUME IInv, NEW c \in Conns, CallHandler(c)
    PROVE  /\ TypeOK' /\ InHandler(c)'
           /\ ran' = [ran EXCEPT ![c] = Append(@, Len(@))]
<1>1. Descending(c)
  <2>1. ~NotStarted(c) /\ ~InHandler(c)
    BY DEF CallHandler, NotStarted, InHandler
  <2>2. ~Unwinding(c)
    BY IndexFacts DEF CallHandler, Unwinding
  <2>3. QED
    BY <2>1, <2>2 DEF IInv, Phase
<1>2. ran[c] \in Seq(0 .. NMiddleware) /\ index[c] \in 0 .. NMiddleware
  BY <1>1 DEF IInv, TypeOK, Descending
<1>3. ran' = [ran EXCEPT ![c] = Append(@, Len(@))]
  BY <1>1 DEF CallHandler, Descending
<1>4. TypeOK'
  <2>1. ran' \in [Conns -> Seq(0 .. NMiddleware)]
    BY <1>2 DEF CallHandler, IInv, TypeOK
  <2>2. servedBy' \in [Conns -> SUBSET Conns]
    BY DEF CallHandler, IInv, TypeOK
  <2>3. depth' \in [Conns -> 0 .. NHandlers]
    BY <1>1, IndexFacts DEF CallHandler, IInv, TypeOK, Descending
  <2>4. QED
    BY <2>1, <2>2, <2>3 DEF CallHandler, IInv, TypeOK
<1>5. InHandler(c)'
  <2>1. Len(ran'[c]) = index[c] + 1
    BY <1>1, <1>2, <1>3 DEF IInv, TypeOK, Descending
  <2>2. index[c] < NMiddleware => servedBy'[c] = {}
    BY <1>1, <1>2, IndexFacts DEF CallHandler, Descending
  <2>3. QED
    BY <1>1, <2>1, <2>2 DEF CallHandler, IInv, TypeOK, Descending, InHandler
<1>6. QED
  BY <1>3, <1>4, <1>5

LEMMA ReturnStep ==
    ASSUME IInv, NEW c \in Conns, ReturnNext(c)
    PROVE  TypeOK' /\ Unwinding(c)' /\ ran' = ran
<1>1. Unwinding(c)
  <2>1. ~NotStarted(c) /\ ~InHandler(c)
    BY DEF ReturnNext, NotStarted, InHandler
  <2>2. ~Descending(c)
    BY IndexFacts DEF ReturnNext, Descending
  <2>3. QED
    BY <2>1, <2>2 DEF IInv, Phase
<1>2. CASE depth[c] = 0
  BY <1>1, <1>2, IndexFacts DEF IInv, TypeOK, ReturnNext, Unwinding
<1>3. CASE depth[c] # 0
  <2>1. /\ index'[c] = index[c] + 1 /\ depth'[c] = depth[c] - 1
        /\ index[c] \in 0 .. IndexMax - 1 /\ depth[c] \in 1 .. NMiddleware
    <3>1. index[c] \in 0 .. IndexMax - 1 /\ depth[c] \in 1 .. NMiddleware
      BY <1>1, <1>3, IndexFacts DEF Unwinding
    <3>2. Inc(index[c]) = index[c] + 1
      BY <3>1, IncExact, IndexFacts
    <3>3. QED
      BY <1>3, <3>1, <3>2 DEF IInv, TypeOK, ReturnNext
  <2>2. TypeOK'
    <3>1. index[c] + 1 \in -(IndexMax + 1) .. IndexMax
      BY <2>1, IndexFacts
    <3>2. depth[c] - 1 \in 0 .. NHandlers
      BY <2>1, IndexFacts
    <3>3. /\ index' = [index EXCEPT ![c] = index[c] + 1]
          /\ depth' = [depth EXCEPT ![c] = depth[c] - 1]
      BY <1>3, <2>1 DEF IInv, TypeOK, ReturnNext
    <3>4. QED
      BY <1>3, <3>1, <3>2, <3>3 DEF IInv, TypeOK, ReturnNext
  <2>3. Unwinding(c)'
    BY <1>1, <2>1, IndexFacts DEF ReturnNext, Unwinding
  <2>4. QED
    BY <2>2, <2>3 DEF ReturnNext
<1>4. QED
  BY <1>2, <1>3

LEMMA PassStep ==
    ASSUME IInv, NEW c \in Conns, Pass(c)
    PROVE  TypeOK' /\ Descending(c)' /\ ran' = ran
<1>1. InHandler(c)
  BY DEF IInv, Phase, Pass, NotStarted, Descending, Unwinding
<1>2. /\ index'[c] = index[c] + 1 /\ index[c] \in 0 .. NMiddleware - 1
      /\ index' = [index EXCEPT ![c] = index[c] + 1]
  <2>1. index[c] \in 0 .. NMiddleware - 1
    BY <1>1, IndexFacts DEF Pass, InHandler
  <2>2. Inc(index[c]) = index[c] + 1
    BY <2>1, IncExact, IndexFacts
  <2>3. QED
    BY <2>1, <2>2 DEF IInv, TypeOK, Pass
<1>3. TypeOK'
  BY <1>2, IndexFacts DEF IInv, TypeOK, Pass
<1>4. Descending(c)'
  BY <1>1, <1>2, IndexFacts DEF IInv, TypeOK, Pass, InHandler, Descending
<1>5. QED
  BY <1>3, <1>4 DEF Pass

LEMMA RejectStep ==
    ASSUME IInv, NEW c \in Conns, Reject(c)
    PROVE  TypeOK' /\ Unwinding(c)' /\ ran' = ran
<1>1. InHandler(c)
  BY DEF IInv, Phase, Reject, NotStarted, Descending, Unwinding
<1>2. /\ index' = [index EXCEPT ![c] = AbortIndex + 1]
      /\ index[c] \in 0 .. NMiddleware - 1
      /\ depth' = [depth EXCEPT ![c] = index[c]]
  <2>1. index[c] \in 0 .. NMiddleware - 1 /\ depth[c] = index[c] + 1
    BY <1>1, IndexFacts DEF Reject, InHandler
  <2>2. AbortIndex \in Int /\ AbortIndex < IndexMax
    BY IndexFacts
  <2>3. Inc(IndexAfterAbort(index[c])) = AbortIndex + 1
    BY <2>2, IncExact DEF IndexAfterAbort
  <2>4. depth[c] - 1 = index[c]
    BY <2>1
  <2>5. QED
    BY <2>1, <2>3, <2>4 DEF Reject
<1>3. TypeOK'
  BY <1>2, IndexFacts DEF IInv, TypeOK, Reject
<1>4. Unwinding(c)'
  BY <1>1, <1>2, IndexFacts DEF IInv, TypeOK, Reject, InHandler, Unwinding
<1>5. QED
  BY <1>3, <1>4 DEF Reject

LEMMA CoreStep ==
    ASSUME IInv, NEW c \in Conns, CoreReturns(c)
    PROVE  TypeOK' /\ Unwinding(c)' /\ ran' = ran
<1>1. InHandler(c)
  BY DEF IInv, Phase, CoreReturns, NotStarted, Descending, Unwinding
<1>2. /\ index' = [index EXCEPT ![c] = NMiddleware + 1]
      /\ depth' = [depth EXCEPT ![c] = NMiddleware]
  <2>1. index[c] = NMiddleware /\ depth[c] = NMiddleware + 1
    BY <1>1 DEF CoreReturns, InHandler
  <2>2. NMiddleware \in Int /\ NMiddleware < IndexMax
    BY IndexFacts
  <2>3. Inc(index[c]) = NMiddleware + 1
    BY <2>1, <2>2, IncExact
  <2>4. depth[c] - 1 = NMiddleware
    BY <2>1, <2>2
  <2>5. QED
    BY <2>3, <2>4 DEF CoreReturns
<1>3. TypeOK'
  BY <1>2, IndexFacts DEF IInv, TypeOK, CoreReturns
<1>4. Unwinding(c)'
  BY <1>1, <1>2, IndexFacts DEF IInv, TypeOK, CoreReturns, InHandler, Unwinding
<1>5. QED
  BY <1>3, <1>4 DEF CoreReturns

LEMMA NextIInv == IInv /\ [Next]_vars => IInv'
<1> SUFFICES ASSUME IInv, [Next]_vars PROVE IInv'
  OBVIOUS
<1>1. ASSUME NEW c \in Conns,
             \/ ServeTCP(c) \/ CallHandler(c) \/ ReturnNext(c)
             \/ Pass(c) \/ Reject(c) \/ CoreReturns(c)
      PROVE  IInv'
  <2>1. TypeOK' /\ Phase(c)'
    BY <1>1, ServeStep, CallStep, ReturnStep, PassStep, RejectStep, CoreStep
       DEF Phase
  <2>2. \A d \in Conns \ {c} : Phase(d)' /\ ran'[d] = ran[d]
    BY <1>1, OthersKeepPhase DEF IInv
  <2>3. ran'[c] = ran[c] \/ ran'[c] = Append(ran[c], Len(ran[c]))
    BY <1>1, ServeStep, CallStep, ReturnStep, PassStep, RejectStep, CoreStep
       DEF IInv, TypeOK
  <2>4. \A i \in 1 .. Len(ran'[c]) : ran'[c][i] = i - 1
    <3>1. ran[c] \in Seq(0 .. NMiddleware)
      BY DEF IInv, TypeOK
    <3>2. \A i \in 1 .. Len(ran[c]) : ran[c][i] = i - 1
      BY DEF IInv, RunsInOrderOnce
    <3> DEFINE r == ran[c]
               n == Len(r)
    <3>3. n \in Nat /\ r \in Seq(0 .. NMiddleware)
      BY <3>1
    <3>4. CASE ran'[c] = Append(r, n)
      <4> HIDE DEF r
      <4>1. /\ Len(Append(r, n)) = n + 1 /\ Append(r, n)[n + 1] = n
            /\ \A i \in 1 .. n : Append(r, n)[i] = r[i]
        BY <3>3
      <4>2. \A i \in 1 .. n : r[i] = i - 1
        BY <3>2 DEF r
      <4> HIDE DEF n
      <4>3. \A i \in 1 .. n + 1 : (i = n + 1 /\ i - 1 = n) \/ i \in 1 .. n
        BY <3>3
      <4>4. QED
        BY <3>4, <4>1, <4>2, <4>3
    <3>5. CASE ran'[c] = ran[c]
      BY <3>2, <3>5
    <3>6. QED
      BY <2>3, <3>4, <3>5
  <2>5. RunsInOrderOnce'
    BY <2>2, <2>4 DEF IInv, RunsInOrderOnce
  <2>6. QED
    BY <2>1, <2>2, <2>5 DEF IInv
<1>2. CASE UNCHANGED vars
  BY <1>2 DEF vars, IInv, TypeOK, RunsInOrderOnce, Phase, NotStarted,
              Descending, InHandler, Unwinding
<1>3. QED
  BY <1>1, <1>2 DEF Next, Router, Finished

LEMMA InvariantIInv == Spec => []IInv
<1>1. QED
  BY InitIInv, NextIInv, PTL DEF Spec

\* The types of TcpSliceRouter hold in every reachable state.
THEOREM TypesCorrect == Spec => []TypeOK
<1>1. IInv => TypeOK
  BY DEF IInv
<1>2. QED
  BY <1>1, InvariantIInv, PTL

\* With at most abortIndex middlewares the index never wraps, for every width
\* of the index type (int8 in tcp_slice_router.go line 32).
THEOREM NoWrap == Spec => []IndexNeverWraps
<1>1. IInv => IndexNeverWraps
  BY IndexFacts DEF IInv, Phase, IndexNeverWraps, NotStarted, Descending,
                    InHandler, Unwinding
<1>2. QED
  BY <1>1, InvariantIInv, PTL

\* Every handler runs at most once and in the order of Use.
THEOREM OrderOnce == Spec => []RunsInOrderOnce
<1>1. IInv => RunsInOrderOnce
  BY DEF IInv
<1>2. QED
  BY <1>1, InvariantIInv, PTL

\* A rejected connection is never handed to the proxy.
THEOREM RejectedStaysOut == Spec => []RejectedNotProxied
<1>1. IInv => RejectedNotProxied
  BY DEF IInv, Phase, RejectedNotProxied, NotStarted, Descending, InHandler,
         Unwinding
<1>2. QED
  BY <1>1, InvariantIInv, PTL
-----------------------------------------------------------------------------
(* The core handler.  What follows needs the array of the handlers to have *)
(* no room behind the middlewares, as with the gateway's four of them.     *)

\* append to a nil slice makes an array of exactly n handlers if 8 * n bytes
\* are a size class.
LEMMA CapOfSizeClass ==
    ASSUME NEW n \in Nat, 8 * n \in SizeClasses
    PROVE  AppendCap(n) = n
<1> DEFINE Fits(s) == s >= 8 * n /\ \A t \in SizeClasses : t >= 8 * n => s <= t
<1>1. SizeClasses \subseteq Nat
  BY DEF SizeClasses
<1>2. n # 0
  BY DEF SizeClasses
<1>3. Fits(8 * n)
  BY <1>1
<1>4. \A s \in SizeClasses : Fits(s) => s = 8 * n
  BY <1>1
<1>5. (CHOOSE s \in SizeClasses : Fits(s)) = 8 * n
  <2> HIDE DEF Fits
  <2>1. QED
    BY <1>3, <1>4
<1>6. (8 * n) \div 8 = n
  OBVIOUS
<1>7. QED
  BY <1>2, <1>5, <1>6 DEF AppendCap

\* Four middlewares are 32 bytes, a size class: tcp_proxy_router/tcpserver.go
\* registers four.
LEMMA GatewayHasNoSpare ==
    ASSUME NMiddleware = 4
    PROVE  8 * NMiddleware \in SizeClasses
BY DEF SizeClasses

\* Every connection's core handler is in an array of its own, so the closure
\* that runs is its own.
OwnInv == \A c \in Conns : core[c] = "own" /\ servedBy[c] \subseteq {c}

LEMMA OwnStep ==
    ASSUME TypeOK, OwnInv, ~ HasSpare, [Next]_vars
    PROVE  OwnInv'
<1>1. core \in [Conns -> {"own", "shared"}] /\ servedBy \in [Conns -> SUBSET Conns]
  BY DEF TypeOK
<1>2. ASSUME NEW c \in Conns, ServeTCP(c)
      PROVE  OwnInv'
  BY <1>1, <1>2 DEF ServeTCP, OwnInv
<1>3. ASSUME NEW c \in Conns, CallHandler(c)
      PROVE  OwnInv'
  BY <1>1, <1>3 DEF CallHandler, OwnInv
<1>4. ASSUME NEW c \in Conns, ReturnNext(c) \/ Pass(c) \/ Reject(c) \/ CoreReturns(c)
      PROVE  OwnInv'
  <2>1. UNCHANGED <<core, servedBy>>
    BY <1>4 DEF ReturnNext, Pass, Reject, CoreReturns
  <2>2. QED
    BY <2>1 DEF OwnInv
<1>5. CASE UNCHANGED vars
  BY <1>5 DEF vars, OwnInv
<1>6. QED
  BY <1>2, <1>3, <1>4, <1>5 DEF Next, Router, Finished

\* If the handlers fill a size class of the allocator, as the gateway's four
\* do, ServeTCP's append never writes into the array all connections share,
\* and no connection is answered by the closure of another one, however many
\* are served at a time: tcp_slice_router.go, ServeTCP and newTcpSliceRouterContext.
\* (Otherwise it may be: AppendCapDoubled.)
THEOREM OwnHandlerIfFilled ==
    ASSUME NMiddleware = 0 \/ 8 * NMiddleware \in SizeClasses
    PROVE  Spec => []OwnCoreHandler
<1>1. ~ HasSpare
  <2>1. CASE NMiddleware = 0
    BY <2>1 DEF HasSpare, AppendCap
  <2>2. CASE 8 * NMiddleware \in SizeClasses
    <3>1. AppendCap(NMiddleware) = NMiddleware
      BY <2>2, CapOfSizeClass, IndexFacts
    <3>2. QED
      BY <3>1, IndexFacts DEF HasSpare
  <2>3. QED
    BY <2>1, <2>2
<1>2. Init => OwnInv
  BY DEF Init, OwnInv
<1>3. TypeOK /\ OwnInv /\ [Next]_vars => OwnInv'
  BY <1>1, OwnStep
<1>4. OwnInv => OwnCoreHandler
  BY DEF OwnInv, OwnCoreHandler
<1>5. QED
  BY <1>2, <1>3, <1>4, TypesCorrect, PTL DEF Spec

-----------------------------------------------------------------------------
(* AccessChain.                                                            *)

\* The stages of the chain of a protocol, and what each one is followed by.
ChainStages(p) ==
    CASE p = "http" -> Stages
      [] p = "grpc" -> Stages \ {"accessMode"}
      [] p = "tcp" -> Stages \ {"accessMode", "jwtAuth", "jwtFlowCount", "jwtFlowLimit"}

FollowedBy(p) ==
    [accessMode |-> "totalCount", totalCount |-> "serviceCount",
     serviceCount |-> "serviceLimit", serviceLimit |-> "clientLimit",
     clientLimit |-> IF p = "tcp" THEN "whiteList" ELSE "jwtAuth",
     jwtAuth |-> "jwtFlowCount", jwtFlowCount |-> "jwtFlowLimit",
     jwtFlowLimit |-> "whiteList", whiteList |-> "blackList",
     blackList |-> "reverseProxy"]

\* The stages behind the two counts, and behind the check of the token.
PastTotal == Stages \ {"accessMode", "totalCount"}
PastService == PastTotal \ {"serviceCount"}
PastToken == {"jwtFlowCount", "jwtFlowLimit", "whiteList", "blackList", "reverseProxy"}

White(r) == LET s == Service(r.protocol) IN Binds(s, s.white) => InList(Seen(r), s.white)
Black(r) == LET s == Service(r.protocol) IN
               Binds(s, s.black) /\ BlackCounts(s.white) /\ InList(Seen(r), s.black)
TokenFine(r) == r.protocol # "tcp" => TokenOK(Service(r.protocol), r.token)

\* The tenant a request comes with.
Brought(r) == IF r.protocol = "grpc" THEN r.carried ELSE NoApp

\* What a request that got so far has been checked for.
AdmittedOK(w) ==
    LET r == request[w] IN
    /\ at[w] \in ChainStages(r.protocol) \cup {"idle", "answered"}
    /\ at[w] # "answered" => answer[w] = ""
    /\ at[w] \in PastTotal \cup {"totalCount"} \/ answer[w] = "forwarded" =>
          r.route = "service"
    /\ at[w] \in PastToken \/ answer[w] = "forwarded" => TokenFine(r) /\ app[w] = TenantOf(r)
    /\ at[w] \in Stages \ PastToken => app[w] = Brought(r)
    /\ at[w] \in {"blackList", "reverseProxy"} \/ answer[w] = "forwarded" => White(r)
    /\ at[w] = "reverseProxy" \/ answer[w] = "forwarded" => ~ Black(r)

\* A limiter of the request has let through a full bucket.
Spent(r) == \E k \in OwnKeys(r) : \E i \in DOMAIN buckets[k] :
               buckets[k][i].burst > 0 /\ buckets[k][i].passed >= buckets[k][i].burst

\* The requests counted for the tenant of the request exceed its quota.
Exceeded(r) == LET t == TenantOf(r) IN
                  t.id \in AppIds /\ t.qpd > 0 /\ counted[t.id] > t.qpd

\* What a refused request was refused for.
RefusedOK(w) ==
    LET r == request[w] IN
    /\ answer[w] \in {"invalidToken", "noApp"} =>
          r.protocol # "tcp" /\ ~ TokenOK(Service(r.protocol), r.token)
    /\ answer[w] = "notWhite" => ~ White(r)
    /\ answer[w] = "black" => Black(r)
    /\ answer[w] = "invalidApp" => r.protocol = "grpc" /\ TenantOf(r) = Malformed
    /\ answer[w] = "overQuota" => Exceeded(r)
    /\ answer[w] = "limited" => Spent(r)

RequestsOK == \A w \in Workers : AdmittedOK(w) /\ RefusedOK(w)

\* The answers and the requests behind a count are the number counted or missed.
ChainCounters == {"total"} \cup Protocols
PastOf(c) == IF c = "total" THEN PastTotal ELSE PastService
In(c) == {w \in Workers : at[w] \in PastOf(c) /\ c \in {"total", Protocol(w)}}

CountInv ==
    \A c \in ChainCounters : counted[c] + missed[c] = answers[c] + Cardinality(In(c))

\* A limiter's tokens are its burst and what it regained, less what it let
\* through; its burst is that of the tables, or was brought along.
SoundLimiter(k, lim) ==
    /\ lim.tokens + lim.passed = lim.burst + lim.refilled
    /\ lim.burst > 0
    /\ lim.burst = Burst(Rate(k)) \/ Forged(k, lim.burst)
BucketInv == \A k \in LimiterKeys : \A i \in DOMAIN buckets[k] : SoundLimiter(k, buckets[k][i])

\* What a request looks for at the stage it is at.
If(condition, k) == IF condition THEN {k} ELSE {}
Wants(w) ==
    LET p == Protocol(w)
        a == Seen(request[w]) IN
    CASE at[w] = "totalCount" -> {CounterKey("total")}
      [] at[w] = "serviceCount" -> {CounterKey(p)}
      [] at[w] = "serviceLimit" -> If(Service(p).serviceLimit > 0, ServiceKey(p))
      [] at[w] = "clientLimit" -> If(Service(p).clientLimit > 0, ClientKey(p, a))
      [] at[w] = "jwtFlowCount" -> If(app[w].id \in AppIds, CounterKey(app[w].id))
      [] at[w] = "jwtFlowLimit" -> If(app[w].qps > 0, AppKey(app[w].id, a))
      [] OTHER -> {}

MakingInv == \A w \in Workers : making[w] # NoKey => making[w] \in Wants(w)

\* As long as no two requests made limiters at a time, who makes one is alone,
\* and its key has none.
CacheInv ==
    "limiter" \notin crowded =>
       /\ \A u, w \in Workers : making[u] \in LimiterKeys /\ making[w] \in LimiterKeys => u = w
       /\ \A w \in Workers : making[w] \in LimiterKeys => Len(buckets[making[w]]) = 0
       /\ \A k \in LimiterKeys : /\ Len(buckets[k]) <= 1
                                 /\ found[k] = 0 => Len(buckets[k]) = 0

\* As long as no requests overlapped there is one in flight, and none has faulted.
OverlapInv ==
    /\ ~ overlapped =>
          /\ \A u, w \in Workers : InFlight(u) /\ InFlight(w) => u = w
          /\ crowded = {}
          /\ \A c \in ChainCounters : missed[c] = 0
    /\ missed["grpc"] = 0

AInv == /\ ATypeOK /\ RequestsOK /\ CountInv /\ BucketInv /\ MakingInv /\ CacheInv
        /\ OverlapInv
-----------------------------------------------------------------------------
(* The chains.                                                             *)

\* a comes before b in the chain of p.
Precedes(p, a, b) ==
    \E i, j \in 1 .. Len(Chain(p)) : i < j /\ Chain(p)[i] = a /\ Chain(p)[j] = b

LEMMA StagesAre ==
    Stages = {"accessMode", "totalCount", "serviceCount", "serviceLimit", "clientLimit",
              "jwtAuth", "jwtFlowCount", "jwtFlowLimit", "whiteList", "blackList",
              "reverseProxy"}
<1> DEFINE q == HttpChain
<1>1. /\ Len(q) = 11
      /\ q[1] = "accessMode" /\ q[2] = "totalCount" /\ q[3] = "serviceCount"
      /\ q[4] = "serviceLimit" /\ q[5] = "clientLimit" /\ q[6] = "jwtAuth"
      /\ q[7] = "jwtFlowCount" /\ q[8] = "jwtFlowLimit" /\ q[9] = "whiteList"
      /\ q[10] = "blackList" /\ q[11] = "reverseProxy"
  BY DEF HttpChain
<1>2. Stages = {q[i] : i \in 1 .. Len(q)}
  BY DEF Stages
<1> HIDE DEF q
<1>3. \A i \in 1 .. 11 : i = 1 \/ i = 2 \/ i = 3 \/ i = 4 \/ i = 5 \/ i = 6 \/ i = 7
                         \/ i = 8 \/ i = 9 \/ i = 10 \/ i = 11
  OBVIOUS
<1>4. QED
  BY <1>1, <1>2, <1>3

\* A chain whose stages differ: After is the next place.
LEMMA AfterPlace ==
    ASSUME NEW p, NEW n \in Nat, Len(Chain(p)) = n, NEW i \in 1 .. n,
           \A j \in 1 .. n : Chain(p)[j] = Chain(p)[i] => j = i
    PROVE  After(p, Chain(p)[i]) = Chain(p)[i + 1]
<1>1. (CHOOSE j \in 1 .. n : Chain(p)[j] = Chain(p)[i]) = i
  OBVIOUS
<1>2. 1 + i = i + 1
  OBVIOUS
<1>3. QED
  BY <1>1, <1>2 DEF After

LEMMA HttpTable ==
    ASSUME NEW p, p = "http"
    PROVE  /\ Chain(p)[1] = "accessMode"
           /\ \A x \in ChainStages(p) \ {"reverseProxy"} : After(p, x) = FollowedBy(p)[x]
           /\ \A x \in ChainStages(p) : /\ Precedes(p, "totalCount", x) <=> x \in PastTotal
                                        /\ Precedes(p, "serviceCount", x) <=> x \in PastService
<1> DEFINE q == Chain(p)
<1>1. /\ Len(q) = 11
      /\ q[1] = "accessMode" /\ q[2] = "totalCount" /\ q[3] = "serviceCount"
      /\ q[4] = "serviceLimit" /\ q[5] = "clientLimit" /\ q[6] = "jwtAuth"
      /\ q[7] = "jwtFlowCount" /\ q[8] = "jwtFlowLimit" /\ q[9] = "whiteList"
      /\ q[10] = "blackList" /\ q[11] = "reverseProxy"
  BY DEF Chain, HttpChain
<1>2. ChainStages(p) = Stages
  BY DEF ChainStages
<1> HIDE DEF q
<1>3. \A i \in 1 .. 11 : i = 1 \/ i = 2 \/ i = 3 \/ i = 4 \/ i = 5 \/ i = 6 \/ i = 7
                         \/ i = 8 \/ i = 9 \/ i = 10 \/ i = 11
  OBVIOUS
<1>4. \A i \in 1 .. 11 : \A j \in 1 .. 11 : q[j] = q[i] => j = i
  BY <1>1, <1>3
<1>5. \A i \in 1 .. 11 : After(p, q[i]) = q[i + 1]
  <2>1. ASSUME NEW i \in 1 .. 11 PROVE After(p, Chain(p)[i]) = Chain(p)[i + 1]
    <3>1. Len(Chain(p)) = 11 /\ \A j \in 1 .. 11 : Chain(p)[j] = Chain(p)[i] => j = i
      BY <1>1, <1>4 DEF q
    <3>2. QED
      BY <3>1, AfterPlace
  <2>2. QED
    BY <2>1 DEF q
<1>6. \A x \in ChainStages(p) \ {"reverseProxy"} : After(p, x) = FollowedBy(p)[x]
  <2>1. \A x \in Stages \ {"reverseProxy"} : \E i \in 1 .. 10 : x = q[i]
    BY <1>1, StagesAre
  <2>2. \A i \in 1 .. 10 : q[i + 1] = FollowedBy(p)[q[i]]
    <3>1. FollowedBy(p) = [accessMode |-> "totalCount", totalCount |-> "serviceCount",
              serviceCount |-> "serviceLimit", serviceLimit |-> "clientLimit",
              clientLimit |-> "jwtAuth",
              jwtAuth |-> "jwtFlowCount", jwtFlowCount |-> "jwtFlowLimit",
              jwtFlowLimit |-> "whiteList", whiteList |-> "blackList",
              blackList |-> "reverseProxy"]
      BY DEF FollowedBy
    <3>2. \A i \in 1 .. 10 : i = 1 \/ i = 2 \/ i = 3 \/ i = 4 \/ i = 5 \/ i = 6 \/ i = 7
                             \/ i = 8 \/ i = 9 \/ i = 10
      OBVIOUS
    <3>3. QED
      BY <1>1, <3>1, <3>2
  <2>3. ASSUME NEW x \in Stages \ {"reverseProxy"} PROVE After(p, x) = FollowedBy(p)[x]
    <3>1. PICK i \in 1 .. 10 : x = q[i]
      BY <2>1
    <3>2. i \in 1 .. 11
      OBVIOUS
    <3>3. QED
      BY <1>5, <2>2, <3>1, <3>2
  <2>4. QED
    BY <1>2, <2>3
<1>7. ASSUME NEW x \in Stages
      PROVE  /\ Precedes(p, "totalCount", x) <=> x \in PastTotal
             /\ Precedes(p, "serviceCount", x) <=> x \in PastService
  <2>1. PICK k \in 1 .. 11 : x = q[k]
    BY <1>1, StagesAre
  <2>2. Precedes(p, "totalCount", x) <=> 2 < k
    <3>1. \A i \in 1 .. 11 : q[i] = "totalCount" <=> i = 2
      BY <1>1, <1>3
    <3>2. \A i \in 1 .. 11 : q[i] = x <=> i = k
      BY <1>4, <2>1
    <3>3. Precedes(p, "totalCount", x) <=>
             \E i, j \in 1 .. 11 : i < j /\ q[i] = "totalCount" /\ q[j] = x
      BY <1>1 DEF Precedes, q
    <3>4. QED
      BY <3>1, <3>2, <3>3
  <2>3. Precedes(p, "serviceCount", x) <=> 3 < k
    <3>1. \A i \in 1 .. 11 : q[i] = "serviceCount" <=> i = 3
      BY <1>1, <1>3
    <3>2. \A i \in 1 .. 11 : q[i] = x <=> i = k
      BY <1>4, <2>1
    <3>3. Precedes(p, "serviceCount", x) <=>
             \E i, j \in 1 .. 11 : i < j /\ q[i] = "serviceCount" /\ q[j] = x
      BY <1>1 DEF Precedes, q
    <3>4. QED
      BY <3>1, <3>2, <3>3
  <2>4. /\ x \in PastTotal <=> k # 1 /\ k # 2
        /\ x \in PastService <=> k # 1 /\ k # 2 /\ k # 3
    <3>1. x # "accessMode" <=> k # 1
      BY <1>1, <1>3, <2>1
    <3>2. x # "totalCount" <=> k # 2
      BY <1>1, <1>3, <2>1
    <3>3. x # "serviceCount" <=> k # 3
      BY <1>1, <1>3, <2>1
    <3>4. QED
      BY <3>1, <3>2, <3>3 DEF PastTotal, PastService
  <2>5. QED
    BY <2>2, <2>3, <2>4
<1>8. QED
  BY <1>1, <1>2, <1>6, <1>7 DEF q

LEMMA GrpcTable ==
    ASSUME NEW p, p = "grpc"
    PROVE  /\ Chain(p)[1] = "totalCount"
           /\ \A x \in ChainStages(p) \ {"reverseProxy"} : After(p, x) = FollowedBy(p)[x]
           /\ \A x \in ChainStages(p) : /\ Precedes(p, "totalCount", x) <=> x \in PastTotal
                                        /\ Precedes(p, "serviceCount", x) <=> x \in PastService
<1> DEFINE q == Chain(p)
<1>1. /\ Len(q) = 10
      /\ q[1] = "totalCount"
      /\ q[2] = "serviceCount"
      /\ q[3] = "serviceLimit"
      /\ q[4] = "clientLimit"
      /\ q[5] = "jwtAuth"
      /\ q[6] = "jwtFlowCount"
      /\ q[7] = "jwtFlowLimit"
      /\ q[8] = "whiteList"
      /\ q[9] = "blackList"
      /\ q[10] = "reverseProxy"
  BY DEF Chain, GrpcChain, HttpChain
<1>2. ChainStages(p) = Stages \ {"accessMode"}
  BY DEF ChainStages
<1> HIDE DEF q
<1>3. \A i \in 1 .. 10 : i = 1 \/ i = 2 \/ i = 3 \/ i = 4 \/ i = 5 \/ i = 6 \/ i = 7
                             \/ i = 8 \/ i = 9 \/ i = 10
  OBVIOUS
<1>4. \A i \in 1 .. 10 : \A j \in 1 .. 10 : q[j] = q[i] => j = i
  BY <1>1, <1>3
<1>5. \A i \in 1 .. 10 : After(p, q[i]) = q[i + 1]
  <2>1. ASSUME NEW i \in 1 .. 10 PROVE After(p, Chain(p)[i]) = Chain(p)[i + 1]
    <3>1. Len(Chain(p)) = 10 /\ \A j \in 1 .. 10 : Chain(p)[j] = Chain(p)[i] => j = i
      BY <1>1, <1>4 DEF q
    <3>2. QED
      BY <3>1, AfterPlace
  <2>2. QED
    BY <2>1 DEF q
<1>6. \A x \in ChainStages(p) \ {"reverseProxy"} : After(p, x) = FollowedBy(p)[x]
  <2>1. \A x \in ChainStages(p) \ {"reverseProxy"} : \E i \in 1 .. 9 : x = q[i]
    BY <1>1, <1>2, StagesAre
  <2>2. \A i \in 1 .. 9 : q[i + 1] = FollowedBy(p)[q[i]]
    <3>1. FollowedBy(p) = [accessMode |-> "totalCount", totalCount |-> "serviceCount",
              serviceCount |-> "serviceLimit", serviceLimit |-> "clientLimit",
              clientLimit |-> "jwtAuth",
              jwtAuth |-> "jwtFlowCount", jwtFlowCount |-> "jwtFlowLimit",
              jwtFlowLimit |-> "whiteList", whiteList |-> "blackList",
              blackList |-> "reverseProxy"]
      BY DEF FollowedBy
    <3>2. \A i \in 1 .. 9 : i = 1 \/ i = 2 \/ i = 3 \/ i = 4 \/ i = 5 \/ i = 6 \/ i = 7
                             \/ i = 8 \/ i = 9
      OBVIOUS
    <3>3. QED
      BY <1>1, <3>1, <3>2
  <2>3. ASSUME NEW x \in ChainStages(p) \ {"reverseProxy"} PROVE After(p, x) = FollowedBy(p)[x]
    <3>1. PICK i \in 1 .. 9 : x = q[i]
      BY <2>1
    <3>2. i \in 1 .. 10
      OBVIOUS
    <3>3. QED
      BY <1>5, <2>2, <3>1, <3>2
  <2>4. QED
    BY <2>3
<1>7. ASSUME NEW x \in ChainStages(p)
      PROVE  /\ Precedes(p, "totalCount", x) <=> x \in PastTotal
             /\ Precedes(p, "serviceCount", x) <=> x \in PastService
  <2>1. PICK k \in 1 .. 10 : x = q[k]
    BY <1>1, <1>2, StagesAre
  <2>2. Precedes(p, "totalCount", x) <=> 1 < k
    <3>1. \A i \in 1 .. 10 : q[i] = "totalCount" <=> i = 1
      BY <1>1, <1>3
    <3>2. \A i \in 1 .. 10 : q[i] = x <=> i = k
      BY <1>4, <2>1
    <3>3. Precedes(p, "totalCount", x) <=>
             \E i, j \in 1 .. 10 : i < j /\ q[i] = "totalCount" /\ q[j] = x
      BY <1>1 DEF Precedes, q
    <3>4. QED
      BY <3>1, <3>2, <3>3
  <2>3. Precedes(p, "serviceCount", x) <=> 2 < k
    <3>1. \A i \in 1 .. 10 : q[i] = "serviceCount" <=> i = 2
      BY <1>1, <1>3
    <3>2. \A i \in 1 .. 10 : q[i] = x <=> i = k
      BY <1>4, <2>1
    <3>3. Precedes(p, "serviceCount", x) <=>
             \E i, j \in 1 .. 10 : i < j /\ q[i] = "serviceCount" /\ q[j] = x
      BY <1>1 DEF Precedes, q
    <3>4. QED
      BY <3>1, <3>2, <3>3
  <2>4. /\ x \in PastTotal <=> k # 1
        /\ x \in PastService <=> k # 1 /\ k # 2
    <3>1. x # "accessMode" /\ x \in Stages
      BY <1>2
    <3>2. x # "totalCount" <=> k # 1
      BY <1>1, <1>3, <2>1
    <3>3. x # "serviceCount" <=> k # 2
      BY <1>1, <1>3, <2>1
    <3>4. QED
      BY <3>1, <3>2, <3>3 DEF PastTotal, PastService
  <2>5. QED
    BY <2>2, <2>3, <2>4
<1>8. QED
  BY <1>1, <1>2, <1>6, <1>7 DEF q

LEMMA TcpTable ==
    ASSUME NEW p, p = "tcp"
    PROVE  /\ Chain(p)[1] = "totalCount"
           /\ \A x \in ChainStages(p) \ {"reverseProxy"} : After(p, x) = FollowedBy(p)[x]
           /\ \A x \in ChainStages(p) : /\ Precedes(p, "totalCount", x) <=> x \in PastTotal
                                        /\ Precedes(p, "serviceCount", x) <=> x \in PastService
<1> DEFINE q == Chain(p)
<1>1. /\ Len(q) = 7
      /\ q[1] = "totalCount"
      /\ q[2] = "serviceCount"
      /\ q[3] = "serviceLimit"
      /\ q[4] = "clientLimit"
      /\ q[5] = "whiteList"
      /\ q[6] = "blackList"
      /\ q[7] = "reverseProxy"
  BY DEF Chain, TcpChain
<1>2. ChainStages(p) = Stages \ {"accessMode", "jwtAuth", "jwtFlowCount", "jwtFlowLimit"}
  BY DEF ChainStages
<1> HIDE DEF q
<1>3. \A i \in 1 .. 7 : i = 1 \/ i = 2 \/ i = 3 \/ i = 4 \/ i = 5 \/ i = 6 \/ i = 7
  OBVIOUS
<1>4. \A i \in 1 .. 7 : \A j \in 1 .. 7 : q[j] = q[i] => j = i
  BY <1>1, <1>3
<1>5. \A i \in 1 .. 7 : After(p, q[i]) = q[i + 1]
  <2>1. ASSUME NEW i \in 1 .. 7 PROVE After(p, Chain(p)[i]) = Chain(p)[i + 1]
    <3>1. Len(Chain(p)) = 7 /\ \A j \in 1 .. 7 : Chain(p)[j] = Chain(p)[i] => j = i
      BY <1>1, <1>4 DEF q
    <3>2. QED
      BY <3>1, AfterPlace
  <2>2. QED
    BY <2>1 DEF q
<1>6. \A x \in ChainStages(p) \ {"reverseProxy"} : After(p, x) = FollowedBy(p)[x]
  <2>1. \A x \in ChainStages(p) \ {"reverseProxy"} : \E i \in 1 .. 6 : x = q[i]
    BY <1>1, <1>2, StagesAre
  <2>2. \A i \in 1 .. 6 : q[i + 1] = FollowedBy(p)[q[i]]
    <3>1. FollowedBy(p) = [accessMode |-> "totalCount", totalCount |-> "serviceCount",
              serviceCount |-> "serviceLimit", serviceLimit |-> "clientLimit",
              clientLimit |-> "whiteList",
              jwtAuth |-> "jwtFlowCount", jwtFlowCount |-> "jwtFlowLimit",
              jwtFlowLimit |-> "whiteList", whiteList |-> "blackList",
              blackList |-> "reverseProxy"]
      BY DEF FollowedBy
    <3>2. \A i \in 1 .. 6 : i = 1 \/ i = 2 \/ i = 3 \/ i = 4 \/ i = 5 \/ i = 6
      OBVIOUS
    <3>3. QED
      BY <1>1, <3>1, <3>2
  <2>3. ASSUME NEW x \in ChainStages(p) \ {"reverseProxy"} PROVE After(p, x) = FollowedBy(p)[x]
    <3>1. PICK i \in 1 .. 6 : x = q[i]
      BY <2>1
    <3>2. i \in 1 .. 7
      OBVIOUS
    <3>3. QED
      BY <1>5, <2>2, <3>1, <3>2
  <2>4. QED
    BY <2>3
<1>7. ASSUME NEW x \in ChainStages(p)
      PROVE  /\ Precedes(p, "totalCount", x) <=> x \in PastTotal
             /\ Precedes(p, "serviceCount", x) <=> x \in PastService
  <2>1. PICK k \in 1 .. 7 : x = q[k]
    BY <1>1, <1>2, StagesAre
  <2>2. Precedes(p, "totalCount", x) <=> 1 < k
    <3>1. \A i \in 1 .. 7 : q[i] = "totalCount" <=> i = 1
      BY <1>1, <1>3
    <3>2. \A i \in 1 .. 7 : q[i] = x <=> i = k
      BY <1>4, <2>1
    <3>3. Precedes(p, "totalCount", x) <=>
             \E i, j \in 1 .. 7 : i < j /\ q[i] = "totalCount" /\ q[j] = x
      BY <1>1 DEF Precedes, q
    <3>4. QED
      BY <3>1, <3>2, <3>3
  <2>3. Precedes(p, "serviceCount", x) <=> 2 < k
    <3>1. \A i \in 1 .. 7 : q[i] = "serviceCount" <=> i = 2
      BY <1>1, <1>3
    <3>2. \A i \in 1 .. 7 : q[i] = x <=> i = k
      BY <1>4, <2>1
    <3>3. Precedes(p, "serviceCount", x) <=>
             \E i, j \in 1 .. 7 : i < j /\ q[i] = "serviceCount" /\ q[j] = x
      BY <1>1 DEF Precedes, q
    <3>4. QED
      BY <3>1, <3>2, <3>3
  <2>4. /\ x \in PastTotal <=> k # 1
        /\ x \in PastService <=> k # 1 /\ k # 2
    <3>1. x # "accessMode" /\ x \in Stages
      BY <1>2
    <3>2. x # "totalCount" <=> k # 1
      BY <1>1, <1>3, <2>1
    <3>3. x # "serviceCount" <=> k # 2
      BY <1>1, <1>3, <2>1
    <3>4. QED
      BY <3>1, <3>2, <3>3 DEF PastTotal, PastService
  <2>5. QED
    BY <2>2, <2>3, <2>4
<1>8. QED
  BY <1>1, <1>2, <1>6, <1>7 DEF q

LEMMA ChainTable ==
    ASSUME NEW p \in Protocols
    PROVE  /\ Chain(p)[1] = IF p = "http" THEN "accessMode" ELSE "totalCount"
           /\ Chain(p)[1] \in ChainStages(p) /\ ChainStages(p) \subseteq Stages
           /\ \A x \in ChainStages(p) \ {"reverseProxy"} :
                 After(p, x) = FollowedBy(p)[x] /\ After(p, x) \in ChainStages(p)
           /\ \A x \in ChainStages(p) : /\ Precedes(p, "totalCount", x) <=> x \in PastTotal
                                        /\ Precedes(p, "serviceCount", x) <=> x \in PastService
<1>1. CASE p = "http"
  <2>1. \A x \in ChainStages(p) \ {"reverseProxy"} : FollowedBy(p)[x] \in ChainStages(p)
    BY <1>1, StagesAre DEF ChainStages, FollowedBy
  <2>2. ChainStages(p) = Stages
    BY <1>1 DEF ChainStages
  <2>3. QED
    BY <1>1, <2>1, <2>2, HttpTable, StagesAre
<1>2. CASE p = "grpc"
  <2>1. \A x \in ChainStages(p) \ {"reverseProxy"} : FollowedBy(p)[x] \in ChainStages(p)
    BY <1>2, StagesAre DEF ChainStages, FollowedBy
  <2>2. ChainStages(p) = Stages \ {"accessMode"}
    BY <1>2 DEF ChainStages
  <2>3. QED
    BY <1>2, <2>1, <2>2, GrpcTable, StagesAre
<1>3. CASE p = "tcp"
  <2>1. \A x \in ChainStages(p) \ {"reverseProxy"} : FollowedBy(p)[x] \in ChainStages(p)
    BY <1>3, StagesAre DEF ChainStages, FollowedBy
  <2>2. ChainStages(p) = Stages \ {"accessMode", "jwtAuth", "jwtFlowCount", "jwtFlowLimit"}
    BY <1>3 DEF ChainStages
  <2>3. QED
    BY <1>3, <2>1, <2>2, TcpTable, StagesAre
<1>4. QED
  BY <1>1, <1>2, <1>3 DEF Protocols

-----------------------------------------------------------------------------
(* Types.                                                                  *)

LEMMA IdsApart ==
    /\ AppIds \cap ChainCounters = {} /\ "none" \notin AppIds /\ "malformed" \notin AppIds
    /\ NoApp # Malformed /\ NoApp \notin AppRows /\ Malformed \notin AppRows
<1>1. AppIds \cap ChainCounters = {} /\ "none" \notin AppIds /\ "malformed" \notin AppIds
  BY AccessChainAssumption DEF AppIds, ChainCounters, Protocols
<1>2. NoApp.id = "none" /\ Malformed.id = "malformed" /\ \A a \in AppRows : a.id \in AppIds
  BY DEF NoApp, Malformed, AppRows
<1>3. QED
  BY <1>1, <1>2

LEMMA ScenarioTypes ==
    ASSUME ATypeOK
    PROVE  /\ scenario \in Scenarios /\ scenario.most \in Nat
           /\ scenario.arriving \subseteq Requests /\ scenario.arriving # {}
           /\ \A p \in Protocols : Service(p) \in Policy
           /\ \A a \in Apps : scenario.rows[a] \in AppRows /\ scenario.rows[a].id = a
           /\ \A r \in scenario.arriving : r.protocol # "http" => r.route = "service"
<1>1. scenario \in Scenarios /\ scenario \in Scenario
  BY AccessChainAssumption DEF ATypeOK
<1>2. scenario.services \in [Protocols -> Policy] /\ scenario.rows \in [Apps -> AppRows]
      /\ scenario.arriving \in SUBSET Requests /\ scenario.most \in Nat
  BY <1>1 DEF Scenario
<1>3. QED
  BY <1>1, <1>2, AccessChainAssumption DEF Service

LEMMA PolicyTypes ==
    ASSUME ATypeOK, NEW p \in Protocols
    PROVE  /\ Service(p).openAuth \in BOOLEAN
           /\ Service(p).serviceLimit \in Nat /\ Service(p).clientLimit \in Nat
<1>1. Service(p) \in Policy
  BY ScenarioTypes
<1>2. QED
  BY <1>1 DEF Policy

LEMMA RequestTypes ==
    ASSUME ATypeOK, NEW w \in Workers
    PROVE  /\ request[w] \in scenario.arriving /\ request[w] \in Requests
           /\ request[w].protocol \in Protocols /\ Protocol(w) \in Protocols
           /\ request[w].token \in Tokens /\ request[w].carried \in Carried
<1>1. request[w] \in scenario.arriving /\ request[w] \in Requests
  BY ScenarioTypes DEF ATypeOK
<1>2. QED
  BY <1>1 DEF Requests, Protocol

\* Keys of counters and of limiters differ in their first part.
LEMMA KeyKinds ==
    /\ NoKey \notin Keys /\ LimiterKeys \subseteq Keys
    /\ \A k \in LimiterKeys : Cache(k) = "limiter"
    /\ \A c \in Counters : /\ CounterKey(c) \in Keys \ LimiterKeys
                           /\ Cache(CounterKey(c)) = "counter"
    /\ \A k \in Keys : k \in LimiterKeys \/ Cache(k) = "counter"
    /\ Cache(NoKey) = "none"
<1>1. \A k \in LimiterKeys : k[1] = "service" \/ k[1] = "client" \/ k[1] = "app"
  BY DEF LimiterKeys, ServiceKey, ClientKey, AppKey
<1>2. NoKey[1] = "noKey"
  BY DEF NoKey
<1>3. \A c : CounterKey(c)[1] = "counter"
  BY DEF CounterKey
<1>4. \A k \in LimiterKeys : k # NoKey /\ Cache(k) = "limiter"
  BY <1>1, <1>2 DEF Cache
<1>5. \A c : CounterKey(c) # NoKey /\ Cache(CounterKey(c)) = "counter"
  BY <1>2, <1>3 DEF Cache
<1>6. Cache(NoKey) = "none"
  <2>1. ASSUME NEW k, k = NoKey PROVE Cache(k) = "none"
    BY <1>2, <2>1 DEF Cache
  <2>2. QED
    BY <2>1
<1>7. NoKey \notin Keys
  <2>1. \A k \in Keys : k \in LimiterKeys \/ \E c \in Counters : k = CounterKey(c)
    BY DEF Keys
  <2>2. QED
    BY <1>4, <1>5, <2>1
<1>8. \A k \in Keys : k \in LimiterKeys \/ Cache(k) = "counter"
  BY <1>5 DEF Keys
<1>9. ASSUME NEW c \in Counters PROVE CounterKey(c) \in Keys \ LimiterKeys
  <2>1. CounterKey(c) \in Keys
    BY DEF Keys
  <2>2. CounterKey(c) \notin LimiterKeys
    <3>1. "counter" # "limiter"
      OBVIOUS
    <3>2. QED
      BY <1>4, <1>5, <3>1
  <2>3. QED
    BY <2>1, <2>2
<1>10. LimiterKeys \subseteq Keys
  BY DEF Keys
<1>11. QED
  BY <1>4, <1>5, <1>6, <1>7, <1>8, <1>9, <1>10

LEMMA SeenTypes ==
    ASSUME NEW r \in Requests
    PROVE  Seen(r) \in SeenClients
<1>1. r.client \in Clients /\ r.stated \in Clients \cup {"none"} /\ r.protocol \in Protocols
  BY DEF Requests
<1>2. KnownAs(r) \in Clients
  BY <1>1 DEF KnownAs
<1>3. /\ \A c \in Clients : /\ Plain(c) \in SeenClients /\ GrpcSeen(c) \in SeenClients
                            /\ TcpSeen(c) \in SeenClients
  BY DEF SeenClients, Plain, GrpcSeen, TcpSeen, NoAddress
<1>4. r.protocol = "http" \/ r.protocol = "grpc" \/ r.protocol = "tcp"
  BY <1>1 DEF Protocols
<1>5. CASE r.protocol = "http"
  BY <1>2, <1>3, <1>5 DEF Seen
<1>6. CASE r.protocol = "grpc"
  BY <1>1, <1>3, <1>6 DEF Seen
<1>7. CASE r.protocol = "tcp"
  BY <1>1, <1>3, <1>7 DEF Seen
<1>8. QED
  BY <1>4, <1>5, <1>6, <1>7

\* The keys that requests ask for, and the rates the tables set for them.
LEMMA KeysAsked ==
    ASSUME NEW p \in Protocols, NEW a \in SeenClients
    PROVE  /\ ServiceKey(p) \in LimiterKeys /\ Rate(ServiceKey(p)) = Service(p).serviceLimit
           /\ ClientKey(p, a) \in LimiterKeys
           /\ Rate(ClientKey(p, a)) = Service(p).clientLimit
           /\ \A id \in AppIds : AppKey(id, a) \in LimiterKeys
           /\ \A id \in Apps : Rate(AppKey(id, a)) = scenario.rows[id].qps
<1>1. /\ ServiceKey(p)[1] = "service" /\ ServiceKey(p)[2] = p
      /\ ClientKey(p, a)[1] = "client" /\ ClientKey(p, a)[2] = p
      /\ \A id : AppKey(id, a)[1] = "app" /\ AppKey(id, a)[2] = id
  BY DEF ServiceKey, ClientKey, AppKey
<1>2. /\ ServiceKey(p) \in LimiterKeys /\ ClientKey(p, a) \in LimiterKeys
      /\ \A id \in AppIds : AppKey(id, a) \in LimiterKeys
  BY DEF LimiterKeys
<1>3. Rate(ServiceKey(p)) = Service(p).serviceLimit
  BY <1>1 DEF Rate
<1>4. Rate(ClientKey(p, a)) = Service(p).clientLimit
  BY <1>1 DEF Rate
<1>5. ASSUME NEW id \in Apps PROVE Rate(AppKey(id, a)) = scenario.rows[id].qps
  BY <1>1 DEF Rate
<1>6. QED
  BY <1>2, <1>3, <1>4, <1>5

LEMMA CarriedTypes ==
    ASSUME NEW a \in Carried
    PROVE  /\ a.qps \in Nat /\ a.qpd \in Nat
           /\ a.id \notin AppIds => a.qps = 0 /\ a.qpd = 0
           /\ a = NoApp \/ a = Malformed \/ a.id \in AppIds
<1>1. NoApp.qps = 0 /\ NoApp.qpd = 0 /\ Malformed.qps = 0 /\ Malformed.qpd = 0
  BY DEF NoApp, Malformed
<1>2. \A b \in AppRows : b.id \in AppIds /\ b.qps \in Nat /\ b.qpd \in Nat
  BY DEF AppRows
<1>3. QED
  BY <1>1, <1>2 DEF Carried

-----------------------------------------------------------------------------
(* How a request moves.                                                    *)

\* Limiters are never taken away, nor what they let through.
Grown == \A k \in LimiterKeys : \A i \in DOMAIN buckets[k] :
            /\ i \in DOMAIN buckets'[k]
            /\ buckets'[k][i].burst = buckets[k][i].burst
            /\ buckets[k][i].passed <= buckets'[k][i].passed

\* Nor are counts.
CountedGrows == \A c \in Counters : counted[c] <= counted'[c]

\* What the tables say of a request stays as long as the request does.
LEMMA SameRequest ==
    ASSUME scenario' = scenario, NEW w \in Workers, request'[w] = request[w]
    PROVE  /\ Protocol(w)' = Protocol(w)
           /\ ChainStages(request[w].protocol)' = ChainStages(request[w].protocol)
           /\ Seen(request[w])' = Seen(request[w])
           /\ White(request[w])' <=> White(request[w])
           /\ Black(request[w])' <=> Black(request[w])
           /\ TokenFine(request[w])' <=> TokenFine(request[w])
           /\ TokenOK(Service(request[w].protocol), request[w].token)' <=>
                 TokenOK(Service(request[w].protocol), request[w].token)
           /\ TenantOf(request[w])' = TenantOf(request[w])
           /\ Brought(request[w])' = Brought(request[w])
           /\ OwnKeys(request[w])' = OwnKeys(request[w])
<1>1. Protocol(w)' = Protocol(w) /\ Service(request[w].protocol)' = Service(request[w].protocol)
  BY DEF Protocol, Service
<1>2. ChainStages(request[w].protocol)' = ChainStages(request[w].protocol)
  BY DEF ChainStages
<1>3. Seen(request[w])' = Seen(request[w])
  BY DEF Seen, KnownAs
<1>4. White(request[w])' <=> White(request[w])
  BY <1>1, <1>3 DEF White, InList, Binds
<1>5. Black(request[w])' <=> Black(request[w])
  BY <1>1, <1>3 DEF Black, InList, Binds, BlackCounts
<1>6. TokenOK(Service(request[w].protocol), request[w].token)' <=>
         TokenOK(Service(request[w].protocol), request[w].token)
  BY <1>1 DEF TokenOK
<1>7. TokenFine(request[w])' <=> TokenFine(request[w])
  BY <1>6 DEF TokenFine
<1>8. TenantOf(request[w])' = TenantOf(request[w])
  BY DEF TenantOf
<1>9. Brought(request[w])' = Brought(request[w])
  BY DEF Brought
<1>10. OwnKeys(request[w])' = OwnKeys(request[w])
  BY <1>3, <1>8 DEF OwnKeys
<1>11. QED
  BY <1>1, <1>2, <1>3, <1>4, <1>5, <1>6, <1>7, <1>8, <1>9, <1>10

LEMMA LimiterTypes ==
    ASSUME ATypeOK, NEW k \in LimiterKeys
    PROVE  /\ buckets[k] \in Seq(Limiters) /\ Len(buckets[k]) \in Nat
           /\ DOMAIN buckets[k] = 1 .. Len(buckets[k])
           /\ \A i \in DOMAIN buckets[k] :
                 /\ buckets[k][i] \in Limiters
                 /\ buckets[k][i].burst \in Nat /\ buckets[k][i].tokens \in Nat
                 /\ buckets[k][i].passed \in Nat /\ buckets[k][i].refilled \in Nat
<1>1. buckets[k] \in Seq(Limiters)
  BY DEF ATypeOK
<1>2. \A i \in DOMAIN buckets[k] : buckets[k][i] \in Limiters
  BY <1>1
<1>3. \A lim \in Limiters : /\ lim.burst \in Nat /\ lim.tokens \in Nat
                            /\ lim.passed \in Nat /\ lim.refilled \in Nat
  BY DEF Limiters
<1>4. QED
  BY <1>1, <1>2, <1>3

LEMMA SpentStays ==
    ASSUME ATypeOK, ATypeOK', Grown, scenario' = scenario, NEW w \in Workers,
           request'[w] = request[w], Spent(request[w])
    PROVE  Spent(request[w])'
<1>1. PICK k \in OwnKeys(request[w]) : \E i \in DOMAIN buckets[k] :
         buckets[k][i].burst > 0 /\ buckets[k][i].passed >= buckets[k][i].burst
  BY DEF Spent
<1>2. PICK i \in DOMAIN buckets[k] :
         buckets[k][i].burst > 0 /\ buckets[k][i].passed >= buckets[k][i].burst
  BY <1>1
<1>3. k \in LimiterKeys /\ k \in OwnKeys(request[w])'
  BY SameRequest DEF OwnKeys
<1>4. /\ i \in DOMAIN buckets'[k]
      /\ buckets'[k][i].burst = buckets[k][i].burst
      /\ buckets[k][i].passed <= buckets'[k][i].passed
  BY <1>2, <1>3 DEF Grown
<1>5. /\ buckets[k][i].passed \in Nat /\ buckets[k][i].burst \in Nat
  BY <1>2, <1>3, LimiterTypes
<1>6. buckets'[k][i].passed \in Nat
  <2>1. buckets'[k] \in Seq(Limiters)
    BY <1>3 DEF ATypeOK
  <2>2. buckets'[k][i] \in Limiters
    BY <1>4, <2>1
  <2>3. QED
    BY <2>2 DEF Limiters
<1>7. buckets'[k][i].burst > 0 /\ buckets'[k][i].passed >= buckets'[k][i].burst
  <2> DEFINE b == buckets[k][i].burst
             p == buckets[k][i].passed
             q == buckets'[k][i].passed
  <2>1. b \in Nat /\ p \in Nat /\ q \in Nat /\ b > 0 /\ p >= b /\ p <= q
    BY <1>2, <1>4, <1>5, <1>6
  <2> HIDE DEF b, p, q
  <2>2. q >= b
    BY <2>1
  <2>3. QED
    BY <1>4, <2>1, <2>2 DEF b, p, q
<1>8. QED
  BY <1>3, <1>4, <1>7 DEF Spent

LEMMA ExceededStays ==
    ASSUME ATypeOK, ATypeOK', CountedGrows, scenario' = scenario, NEW w \in Workers,
           request'[w] = request[w], Exceeded(request[w])
    PROVE  Exceeded(request[w])'
<1> DEFINE t == TenantOf(request[w])
<1>1. t.id \in AppIds /\ t.qpd > 0 /\ counted[t.id] > t.qpd
  BY DEF Exceeded
<1>2. t.qpd \in Nat
  <2>1. request[w].token \in Apps => scenario.rows[request[w].token] \in Carried
    BY ScenarioTypes DEF Carried
  <2>2. request[w].carried \in Carried /\ NoApp \in Carried
    BY RequestTypes DEF Carried
  <2>3. t \in Carried
    BY <2>1, <2>2 DEF TenantOf
  <2>4. QED
    BY <2>3, CarriedTypes
<1>3. TenantOf(request[w])' = t
  BY SameRequest
<1>4. counted[t.id] \in Nat /\ counted'[t.id] \in Nat /\ counted[t.id] <= counted'[t.id]
  BY <1>1 DEF ATypeOK, Counters, CountedGrows
<1> HIDE DEF t
<1>5. counted'[t.id] > t.qpd
  <2> DEFINE b == counted[t.id]
             n == counted'[t.id]
             q == t.qpd
  <2>1. b \in Nat /\ n \in Nat /\ q \in Nat /\ b > q /\ b <= n
    BY <1>1, <1>2, <1>4
  <2> HIDE DEF b, n, q
  <2>2. n > q
    BY <2>1
  <2>3. QED
    BY <2>2 DEF n, q
<1>6. QED
  BY <1>1, <1>3, <1>5 DEF Exceeded

\* A request that is left alone.
LEMMA LeftAlone ==
    ASSUME ATypeOK, ATypeOK', NEW g \in Workers, AdmittedOK(g), RefusedOK(g),
           scenario' = scenario, at'[g] = at[g], request'[g] = request[g],
           app'[g] = app[g], answer'[g] = answer[g], Grown, CountedGrows
    PROVE  AdmittedOK(g)' /\ RefusedOK(g)'
<1>1. AdmittedOK(g)'
  BY SameRequest DEF AdmittedOK
<1>2. answer[g] = "overQuota" => Exceeded(request[g])'
  BY ExceededStays DEF RefusedOK
<1>3. answer[g] = "limited" => Spent(request[g])'
  BY SpentStays DEF RefusedOK
<1>4. /\ answer[g] \in {"invalidToken", "noApp"} =>
            request[g].protocol # "tcp"
            /\ ~ TokenOK(Service(request[g].protocol), request[g].token)
      /\ answer[g] = "notWhite" => ~ White(request[g])
      /\ answer[g] = "black" => Black(request[g])
      /\ answer[g] = "invalidApp" =>
            request[g].protocol = "grpc" /\ TenantOf(request[g]) = Malformed
  BY Zenon DEF RefusedOK
<1>5. RefusedOK(g)'
  BY <1>2, <1>3, <1>4, SameRequest DEF RefusedOK
<1>6. QED
  BY <1>1, <1>5

\* A request that passes a stage.
LEMMA PassedOn ==
    ASSUME ATypeOK, NEW w \in Workers, NEW stage, AdmittedOK(w), Proceed(w, stage),
           stage \in Stages \ {"reverseProxy"}, scenario' = scenario, request' = request,
           app'[w] = IF stage = "jwtAuth" THEN TenantOf(request[w]) ELSE app[w],
           stage = "accessMode" => request[w].route = "service",
           stage = "jwtAuth" => TokenFine(request[w]),
           stage = "whiteList" => White(request[w]),
           stage = "blackList" => ~ Black(request[w])
    PROVE  /\ AdmittedOK(w)' /\ RefusedOK(w)'
           /\ at' = [at EXCEPT ![w] = FollowedBy(Protocol(w))[stage]]
           /\ stage \in ChainStages(Protocol(w))
           /\ FollowedBy(Protocol(w))[stage] \in ChainStages(Protocol(w))
<1> DEFINE p == Protocol(w)
           next == FollowedBy(p)[stage]
<1>1. at[w] = stage /\ at' = [at EXCEPT ![w] = After(p, stage)] /\ answer' = answer
  BY DEF Proceed, replies
<1>2. stage \in ChainStages(p) /\ p \in Protocols /\ p = request[w].protocol
  BY <1>1, StagesAre, RequestTypes DEF AdmittedOK, Protocol
<1>3. After(p, stage) = next /\ next \in ChainStages(p) /\ next \in Stages
  BY <1>2, ChainTable
<1>4. at' = [at EXCEPT ![w] = next] /\ at'[w] = next
  BY <1>1, <1>3 DEF ATypeOK
<1>5. answer'[w] = "" /\ answer[w] = ""
  BY <1>1, StagesAre DEF AdmittedOK
<1>6. RefusedOK(w)'
  BY <1>5 DEF RefusedOK
<1>7. AdmittedOK(w)'
  <2>1. next \in PastTotal \cup {"totalCount"} => request[w].route = "service"
    BY <1>1, StagesAre DEF AdmittedOK, PastTotal
  <2>2. /\ next = "jwtFlowCount" <=> stage = "jwtAuth"
        /\ next \in PastToken => \/ stage \in PastToken \cup {"jwtAuth"}
                                 \/ stage = "clientLimit" /\ p = "tcp"
        /\ next \notin PastToken => stage \notin PastToken \cup {"jwtAuth"}
    BY <1>2, StagesAre DEF FollowedBy, PastToken, Protocols
  <2>3. next \in PastToken => TokenFine(request[w]) /\ app'[w] = TenantOf(request[w])
    <3>1. CASE stage = "clientLimit" /\ p = "tcp"
      <4>1. app[w] = Brought(request[w])
        BY <1>1, <3>1, StagesAre DEF AdmittedOK, PastToken
      <4>2. TokenFine(request[w]) /\ Brought(request[w]) = TenantOf(request[w])
        BY <1>2, <3>1 DEF TokenFine, Brought, TenantOf
      <4>3. QED
        BY <3>1, <4>1, <4>2
    <3>2. CASE stage = "jwtAuth"
      BY <3>2
    <3>3. CASE stage \in PastToken
      <4>1. stage # "jwtAuth"
        BY <3>3 DEF PastToken
      <4>2. QED
        BY <1>1, <3>3, <4>1 DEF AdmittedOK
    <3>4. QED
      BY <2>2, <3>1, <3>2, <3>3
  <2>4. next \notin PastToken => app'[w] = Brought(request[w])
    BY <1>1, <2>2 DEF AdmittedOK
  <2>5. next \in {"blackList", "reverseProxy"} => White(request[w])
    <3>1. next \in {"blackList", "reverseProxy"} => stage \in {"whiteList", "blackList"}
      BY StagesAre DEF FollowedBy
    <3>2. QED
      BY <1>1, <3>1 DEF AdmittedOK
  <2>6. next = "reverseProxy" => ~ Black(request[w])
    <3>1. next = "reverseProxy" => stage = "blackList"
      BY StagesAre DEF FollowedBy
    <3>2. QED
      BY <3>1
  <2> HIDE DEF next
  <2>7. at'[w] \in ChainStages(request[w].protocol)
    BY <1>2, <1>3, <1>4
  <2>8. QED
    BY <1>4, <1>5, <2>1, <2>3, <2>4, <2>5, <2>6, <2>7, SameRequest DEF AdmittedOK
<1>8. QED
  BY <1>2, <1>3, <1>4, <1>6, <1>7

\* A request that is refused, or served, at a stage.
LEMMA AnsweredAt ==
    ASSUME ATypeOK, NEW w \in Workers, NEW stage, NEW what, AdmittedOK(w),
           Reply(w, stage, what), stage \in Stages,
           scenario' = scenario, request' = request, app' = app,
           what = "forwarded" => stage = "reverseProxy",
           what \in {"invalidToken", "noApp"} => stage = "jwtAuth" /\ ~ TokenFine(request[w]),
           what = "notWhite" => ~ White(request[w]),
           what = "black" => Black(request[w]),
           what = "invalidApp" => stage = "jwtFlowCount" /\ app[w] = Malformed,
           what = "overQuota" => Exceeded(request[w])',
           what = "limited" => Spent(request[w])'
    PROVE  /\ AdmittedOK(w)' /\ RefusedOK(w)'
           /\ at' = [at EXCEPT ![w] = "answered"] /\ stage \in ChainStages(Protocol(w))
<1>1. at[w] = stage /\ at' = [at EXCEPT ![w] = "answered"]
      /\ answer' = [answer EXCEPT ![w] = what]
  BY DEF Reply
<1>2. at'[w] = "answered" /\ answer'[w] = what
  BY <1>1 DEF ATypeOK
<1>3. stage \in ChainStages(Protocol(w)) /\ Protocol(w) = request[w].protocol
  BY <1>1, StagesAre DEF AdmittedOK, Protocol
<1>4. AdmittedOK(w)'
  <2>1. "answered" \notin Stages /\ "answered" \notin PastTotal \cup {"totalCount"} \cup PastToken
    BY StagesAre DEF PastTotal, PastToken
  <2>2. "reverseProxy" \in PastTotal /\ "reverseProxy" \in PastToken
    BY StagesAre DEF PastTotal, PastToken
  <2>3. what = "forwarded" =>
           /\ request[w].route = "service"
           /\ TokenFine(request[w]) /\ app[w] = TenantOf(request[w])
           /\ White(request[w]) /\ ~ Black(request[w])
    BY <1>1, <2>2 DEF AdmittedOK
  <2>4. QED
    BY <1>2, <2>1, <2>3, SameRequest DEF AdmittedOK
<1>5. RefusedOK(w)'
  <2>1. ~ TokenFine(request[w]) =>
           request[w].protocol # "tcp" /\ ~ TokenOK(Service(request[w].protocol), request[w].token)
    BY DEF TokenFine
  <2>2. what = "invalidApp" => request[w].protocol = "grpc" /\ TenantOf(request[w]) = Malformed
    <3>1. SUFFICES ASSUME what = "invalidApp"
                   PROVE  request[w].protocol = "grpc" /\ TenantOf(request[w]) = Malformed
      OBVIOUS
    <3>2. app[w] = Malformed /\ app[w] = TenantOf(request[w])
      BY <1>1, <3>1 DEF AdmittedOK, PastToken
    <3>3. request[w].token \in Apps => scenario.rows[request[w].token] # Malformed
      BY ScenarioTypes, IdsApart
    <3>4. QED
      BY <3>2, <3>3, IdsApart DEF TenantOf
  <2>3. QED
    BY <1>2, <2>1, <2>2, SameRequest DEF RefusedOK
<1>6. QED
  BY <1>1, <1>3, <1>4, <1>5

-----------------------------------------------------------------------------
(* Counting.                                                               *)

One(condition) == IF condition THEN 1 ELSE 0
Member(c, cs) == IF c \in cs THEN 1 ELSE 0

\* Whether a request of p at a stage is one that counter c has counted, and
\* whether it is counted there.
Weigh(c, stage, p) == One(stage \in PastOf(c) /\ c \in {"total", p})
CountsAt(c, stage, p) ==
    One((stage = "totalCount" /\ c = "total") \/ (stage = "serviceCount" /\ c = p))

\* The counters that an answer at a stage is held against.
AnsweredFor(stage, p) == IF stage = "accessMode" THEN {} ELSE {"total", p}

LEMMA WeighTypes ==
    \A c, stage, p : Weigh(c, stage, p) \in Nat /\ CountsAt(c, stage, p) \in Nat
  BY DEF Weigh, CountsAt, One

LEMMA MemberTypes == \A c, cs : Member(c, cs) \in Nat
  BY DEF Member

\* Worker w moves, and nobody else does.
Only(w) == /\ scenario' = scenario
           /\ \A g \in Workers \ {w} :
                 /\ at'[g] = at[g] /\ request'[g] = request[g] /\ app'[g] = app[g]
                 /\ answer'[g] = answer[g] /\ making'[g] = making[g]

\* How many requests a counter has counted when one of them moves.
LEMMA MoveCount ==
    ASSUME ATypeOK, NEW w \in Workers, Only(w), NEW c
    PROVE  /\ Cardinality(In(c)) \in Nat /\ Cardinality(In(c)') \in Nat
           /\ Cardinality(In(c)') + Weigh(c, at[w], Protocol(w)) =
                 Cardinality(In(c)) + Weigh(c, at'[w], Protocol(w)')
<1> DEFINE A == In(c)
           B == In(c)'
           old == at[w] \in PastOf(c) /\ c \in {"total", Protocol(w)}
           new == at'[w] \in PastOf(c) /\ c \in {"total", Protocol(w)'}
<1>1. IsFiniteSet(Workers) /\ A \subseteq Workers /\ B \subseteq Workers
  BY AccessChainAssumption DEF In
<1>2. IsFiniteSet(A) /\ IsFiniteSet(B)
  BY <1>1, FS_Subset
<1>3. w \in A <=> old
  BY DEF In
<1>4. \A g \in Workers \ {w} : g \in B <=> g \in A
  BY DEF In, Only, Protocol
<1>5. w \in B <=> new
  BY DEF In
<1>6. Weigh(c, at[w], Protocol(w)) = One(old) /\ Weigh(c, at'[w], Protocol(w)') = One(new)
  BY DEF Weigh
<1> HIDE DEF A, B, old, new
<1>7. B = IF new THEN A \cup {w} ELSE A \ {w}
  BY <1>1, <1>4, <1>5
<1>8. /\ Cardinality(A) \in Nat /\ Cardinality(B) \in Nat
      /\ Cardinality(A \cup {w}) = IF w \in A THEN Cardinality(A) ELSE Cardinality(A) + 1
      /\ Cardinality(A \ {w}) = IF w \in A THEN Cardinality(A) - 1 ELSE Cardinality(A)
  BY <1>2, FS_CardinalityType, FS_AddElement, FS_RemoveElement
<1>9. Cardinality(B) + One(old) = Cardinality(A) + One(new)
  <2>1. CASE new
    <3>1. Cardinality(B) = IF old THEN Cardinality(A) ELSE Cardinality(A) + 1
      BY <1>3, <1>7, <1>8, <2>1
    <3>2. QED
      BY <1>8, <2>1, <3>1 DEF One
  <2>2. CASE ~ new
    <3>1. Cardinality(B) = IF old THEN Cardinality(A) - 1 ELSE Cardinality(A)
      BY <1>3, <1>7, <1>8, <2>2
    <3>2. QED
      BY <1>8, <2>2, <3>1 DEF One
  <2>3. QED
    BY <2>1, <2>2
<1>10. QED
  BY <1>6, <1>8, <1>9 DEF A, B

LEMMA Sums ==
    ASSUME NEW c \in Nat, NEW m \in Nat, NEW a \in Nat, NEW n \in Nat, NEW n1 \in Nat,
           NEW dc \in Nat, NEW dm \in Nat, NEW da \in Nat, NEW old \in Nat, NEW new \in Nat,
           c + m = a + n, n1 + old = n + new, dc + dm + old = da + new
    PROVE  (c + dc) + (m + dm) = (a + da) + n1
  OBVIOUS

\* What moves past a count is counted there, or is missed, or is answered.
LEMMA CountMoves ==
    ASSUME ATypeOK, CountInv, NEW w \in Workers, Only(w),
           \A c \in ChainCounters : \E dc, dm, da \in Nat :
              /\ counted'[c] = counted[c] + dc /\ missed'[c] = missed[c] + dm
              /\ answers'[c] = answers[c] + da
              /\ dc + dm + Weigh(c, at[w], Protocol(w)) = da + Weigh(c, at'[w], Protocol(w)')
    PROVE  CountInv'
<1>1. ASSUME NEW c \in ChainCounters
      PROVE  counted'[c] + missed'[c] = answers'[c] + Cardinality(In(c)')
  <2>1. PICK dc \in Nat, dm \in Nat, da \in Nat :
          /\ counted'[c] = counted[c] + dc /\ missed'[c] = missed[c] + dm
          /\ answers'[c] = answers[c] + da
          /\ dc + dm + Weigh(c, at[w], Protocol(w)) = da + Weigh(c, at'[w], Protocol(w)')
    OBVIOUS
  <2>2. counted[c] \in Nat /\ missed[c] \in Nat /\ answers[c] \in Nat
    BY DEF ATypeOK, Counters, ChainCounters
  <2>3. /\ Cardinality(In(c)) \in Nat /\ Cardinality(In(c)') \in Nat
        /\ Cardinality(In(c)') + Weigh(c, at[w], Protocol(w)) =
              Cardinality(In(c)) + Weigh(c, at'[w], Protocol(w)')
    BY MoveCount
  <2>4. counted[c] + missed[c] = answers[c] + Cardinality(In(c))
    BY DEF CountInv
  <2>5. Weigh(c, at[w], Protocol(w)) \in Nat /\ Weigh(c, at'[w], Protocol(w)') \in Nat
    BY WeighTypes
  <2>6. (counted[c] + dc) + (missed[c] + dm) = (answers[c] + da) + Cardinality(In(c)')
    BY <2>1, <2>2, <2>3, <2>4, <2>5, Sums
  <2>7. QED
    BY <2>1, <2>6
<1>2. QED
  BY <1>1 DEF CountInv

LEMMA PassWeights ==
    ASSUME NEW p \in Protocols, NEW stage \in ChainStages(p) \ {"reverseProxy"},
           NEW c \in ChainCounters
    PROVE  CountsAt(c, stage, p) + Weigh(c, stage, p) = Weigh(c, FollowedBy(p)[stage], p)
<1>1. stage \in Stages /\ p # "total"
  BY ChainTable DEF Protocols
<1> DEFINE next == FollowedBy(p)[stage]
<1>2. /\ stage \in PastTotal <=> stage \notin {"accessMode", "totalCount"}
      /\ stage \in PastService <=> stage \notin {"accessMode", "totalCount", "serviceCount"}
  BY <1>1 DEF PastTotal, PastService
<1>3. /\ next \in PastTotal <=> stage # "accessMode"
      /\ next \in PastService <=> stage \notin {"accessMode", "totalCount"}
  BY <1>1, StagesAre DEF PastTotal, PastService, FollowedBy
<1> HIDE DEF next
<1>4. CASE c = "total"
  <2>1. Weigh(c, stage, p) = One(stage \in PastTotal) /\ Weigh(c, next, p) = One(next \in PastTotal)
    BY <1>4 DEF Weigh, PastOf
  <2>2. CountsAt(c, stage, p) = One(stage = "totalCount")
    <3>1. c # p
      BY <1>1, <1>4
    <3>2. QED
      BY <1>4, <3>1 DEF CountsAt, One
  <2>3. QED
    BY <1>2, <1>3, <2>1, <2>2 DEF One, next
<1>5. CASE c # "total" /\ c = p
  <2>1. /\ Weigh(c, stage, p) = One(stage \in PastService)
        /\ Weigh(c, next, p) = One(next \in PastService)
    BY <1>5 DEF Weigh, PastOf
  <2>2. CountsAt(c, stage, p) = One(stage = "serviceCount")
    BY <1>5 DEF CountsAt, One
  <2>3. QED
    BY <1>2, <1>3, <2>1, <2>2 DEF One, next
<1>6. CASE c # "total" /\ c # p
  <2>1. Weigh(c, stage, p) = 0 /\ Weigh(c, next, p) = 0 /\ CountsAt(c, stage, p) = 0
    BY <1>6 DEF Weigh, CountsAt, One
  <2>2. QED
    BY <2>1 DEF next
<1>7. QED
  BY <1>4, <1>5, <1>6

LEMMA AnswerWeights ==
    ASSUME NEW p \in Protocols, NEW stage \in Stages, NEW c \in ChainCounters
    PROVE  Member(c, Uncounted(stage, p)) + Weigh(c, stage, p) =
              Member(c, AnsweredFor(stage, p)) + Weigh(c, "answered", p)
<1>1. p # "total" /\ "answered" \notin PastTotal /\ "answered" \notin PastService
  BY StagesAre DEF Protocols, PastTotal, PastService
<1>2. Weigh(c, "answered", p) = 0
  BY <1>1 DEF Weigh, One, PastOf
<1>3. /\ stage \in PastTotal <=> stage \notin {"accessMode", "totalCount"}
      /\ stage \in PastService <=> stage \notin {"accessMode", "totalCount", "serviceCount"}
  BY DEF PastTotal, PastService
<1>4. Uncounted(stage, p) = IF stage = "totalCount" THEN {"total", p}
                            ELSE IF stage = "serviceCount" THEN {p} ELSE {}
  BY DEF Uncounted
<1>5. CASE c = "total"
  <2>1. Weigh(c, stage, p) = One(stage \notin {"accessMode", "totalCount"})
    BY <1>3, <1>5 DEF Weigh, PastOf, One
  <2>2. c \in Uncounted(stage, p) <=> stage = "totalCount"
    BY <1>1, <1>4, <1>5
  <2>3. QED
    BY <1>2, <1>5, <2>1, <2>2 DEF One, Member, AnsweredFor
<1>6. CASE c # "total" /\ c = p
  <2>1. Weigh(c, stage, p) = One(stage \notin {"accessMode", "totalCount", "serviceCount"})
    BY <1>3, <1>6 DEF Weigh, PastOf, One
  <2>2. c \in Uncounted(stage, p) <=> stage \in {"totalCount", "serviceCount"}
    BY <1>1, <1>4, <1>6
  <2>3. QED
    BY <1>2, <1>6, <2>1, <2>2 DEF One, Member, AnsweredFor
<1>7. CASE c # "total" /\ c # p
  <2>1. Weigh(c, stage, p) = 0 /\ c \notin Uncounted(stage, p)
    BY <1>4, <1>7 DEF Weigh, One
  <2>2. QED
    BY <1>2, <1>7, <2>1 DEF Member, AnsweredFor
<1>8. QED
  BY <1>5, <1>6, <1>7

LEMMA PlusOne ==
    ASSUME NEW D, NEW counts \in [D -> Nat], NEW cs
    PROVE  /\ Plus(counts, cs) \in [D -> Nat]
           /\ \A c \in D : Plus(counts, cs)[c] = counts[c] + Member(c, cs)
<1>1. Plus(counts, cs) = [c \in D |-> counts[c] + Member(c, cs)]
  BY DEF Plus, Member
<1>2. \A c \in D : counts[c] + Member(c, cs) \in Nat
  BY DEF Member
<1>3. QED
  BY <1>1, <1>2

-----------------------------------------------------------------------------
(* A stage and its two ends.                                               *)

\* What is known of the other requests stays.
LEMMA OthersKept ==
    ASSUME AInv, ATypeOK', NEW w \in Workers, Only(w), Grown, CountedGrows,
           AdmittedOK(w)' /\ RefusedOK(w)'
    PROVE  RequestsOK'
<1>1. ASSUME NEW g \in Workers \ {w} PROVE AdmittedOK(g)' /\ RefusedOK(g)'
  <2>1. ATypeOK /\ AdmittedOK(g) /\ RefusedOK(g)
    BY DEF AInv, RequestsOK
  <2>2. QED
    BY <2>1, LeftAlone DEF Only
<1>2. QED
  BY <1>1 DEF RequestsOK

\* A request that passes a stage leaves what is known of all requests true.
LEMMA Passes ==
    ASSUME AInv, ATypeOK', NEW w \in Workers, NEW stage \in Stages \ {"reverseProxy"},
           Only(w), Proceed(w, stage), request' = request, Grown, CountedGrows,
           app'[w] = IF stage = "jwtAuth" THEN TenantOf(request[w]) ELSE app[w],
           stage = "accessMode" => request[w].route = "service",
           stage = "jwtAuth" => TokenFine(request[w]),
           stage = "whiteList" => White(request[w]),
           stage = "blackList" => ~ Black(request[w]),
           \A c \in ChainCounters : counted'[c] = counted[c] + CountsAt(c, stage, Protocol(w))
    PROVE  RequestsOK' /\ CountInv'
<1>1. ATypeOK /\ CountInv /\ AdmittedOK(w) /\ scenario' = scenario
  BY DEF AInv, RequestsOK, Only
<1> DEFINE p == Protocol(w)
<1>2. /\ AdmittedOK(w)' /\ RefusedOK(w)'
      /\ at' = [at EXCEPT ![w] = FollowedBy(p)[stage]] /\ stage \in ChainStages(p)
  BY <1>1, PassedOn
<1>3. at[w] = stage /\ at'[w] = FollowedBy(p)[stage] /\ p \in Protocols /\ Protocol(w)' = p
  BY <1>1, <1>2, RequestTypes DEF Proceed, ATypeOK, Protocol
<1>4. missed' = missed /\ answers' = answers
  BY DEF Proceed, replies
<1>5. CountInv'
  <2>1. ASSUME NEW c \in ChainCounters
        PROVE  \E dc, dm, da \in Nat :
                  /\ counted'[c] = counted[c] + dc /\ missed'[c] = missed[c] + dm
                  /\ answers'[c] = answers[c] + da
                  /\ dc + dm + Weigh(c, at[w], Protocol(w))
                        = da + Weigh(c, at'[w], Protocol(w)')
    <3>1. CountsAt(c, stage, p) + Weigh(c, stage, p) = Weigh(c, FollowedBy(p)[stage], p)
      BY <1>2, <1>3, PassWeights
    <3>2. /\ CountsAt(c, stage, p) \in Nat /\ Weigh(c, stage, p) \in Nat
          /\ Weigh(c, FollowedBy(p)[stage], p) \in Nat
      BY WeighTypes
    <3>3. missed[c] \in Nat /\ answers[c] \in Nat
      BY <1>1 DEF ATypeOK, ChainCounters
    <3>4. counted'[c] = counted[c] + CountsAt(c, stage, p)
      OBVIOUS
    <3>5. missed'[c] = missed[c] + 0 /\ answers'[c] = answers[c] + 0
      BY <1>4, <3>3
    <3>6. CountsAt(c, stage, p) + 0 + Weigh(c, stage, p) = 0 + Weigh(c, FollowedBy(p)[stage], p)
      BY <3>1, <3>2
    <3> HIDE DEF p
    <3>7. CountsAt(c, stage, p) + 0 + Weigh(c, at[w], Protocol(w))
             = 0 + Weigh(c, at'[w], Protocol(w)')
      BY <1>3, <3>6 DEF p
    <3>8. 0 \in Nat
      OBVIOUS
    <3>9. QED
      BY <3>2, <3>4, <3>5, <3>7, <3>8
  <2>2. QED
    BY <1>1, <2>1, CountMoves
<1>6. QED
  BY <1>2, <1>5, OthersKept

\* So does one that is answered at a stage.
LEMMA IsAnswered ==
    ASSUME AInv, ATypeOK', NEW w \in Workers, NEW stage \in Stages, NEW what,
           Only(w), Reply(w, stage, what), request' = request, app' = app,
           Grown, CountedGrows,
           what = "forwarded" => stage = "reverseProxy",
           what \in {"invalidToken", "noApp"} => stage = "jwtAuth" /\ ~ TokenFine(request[w]),
           what = "notWhite" => ~ White(request[w]),
           what = "black" => Black(request[w]),
           what = "invalidApp" => stage = "jwtFlowCount" /\ app[w] = Malformed,
           what = "overQuota" => Exceeded(request[w])',
           what = "limited" => Spent(request[w])',
           \A c \in ChainCounters :
              /\ counted'[c] = counted[c]
              /\ missed'[c] = missed[c] + Member(c, Uncounted(stage, Protocol(w)))
    PROVE  RequestsOK' /\ CountInv'
<1>1. ATypeOK /\ CountInv /\ AdmittedOK(w) /\ scenario' = scenario
  BY DEF AInv, RequestsOK, Only
<1> DEFINE p == Protocol(w)
<1>2. AdmittedOK(w)' /\ RefusedOK(w)' /\ at' = [at EXCEPT ![w] = "answered"]
  BY <1>1, AnsweredAt
<1>3. at[w] = stage /\ at'[w] = "answered" /\ p \in Protocols /\ Protocol(w)' = p
  BY <1>1, <1>2, RequestTypes DEF Reply, ATypeOK, Protocol
<1>4. CountInv'
  <2>1. ASSUME NEW c \in ChainCounters
        PROVE  \E dc, dm, da \in Nat :
                  /\ counted'[c] = counted[c] + dc /\ missed'[c] = missed[c] + dm
                  /\ answers'[c] = answers[c] + da
                  /\ dc + dm + Weigh(c, at[w], Protocol(w))
                        = da + Weigh(c, at'[w], Protocol(w)')
    <3> DEFINE dm == Member(c, Uncounted(stage, p))
               da == Member(c, AnsweredFor(stage, p))
    <3>1. dm + Weigh(c, stage, p) = da + Weigh(c, "answered", p)
      BY <1>3, AnswerWeights
    <3>2. /\ dm \in Nat /\ da \in Nat /\ Weigh(c, stage, p) \in Nat
          /\ Weigh(c, "answered", p) \in Nat
      BY WeighTypes, MemberTypes
    <3>3. /\ missed \in [ChainCounters -> Nat] /\ answers \in [ChainCounters -> Nat]
          /\ counted[c] \in Nat
      BY <1>1 DEF ATypeOK, ChainCounters, Counters
    <3>4. missed'[c] = missed[c] + dm
      OBVIOUS
    <3>5. answers'[c] = answers[c] + da
      <4>1. CASE stage = "accessMode"
        <5>1. answers' = answers /\ da = 0 /\ answers[c] \in Nat
          BY <3>3, <4>1 DEF Reply, Member, AnsweredFor
        <5>2. QED
          BY <5>1
      <4>2. CASE stage # "accessMode"
        <5>1. answers' = Plus(answers, AnsweredFor(stage, p))
          BY <4>2 DEF Reply, AnsweredFor
        <5>2. QED
          BY <3>3, <5>1, PlusOne
      <4>3. QED
        BY <4>1, <4>2
    <3> HIDE DEF dm, da
    <3>6. counted'[c] = counted[c] + 0
      BY <3>3
    <3> HIDE DEF p
    <3>7. 0 + dm + Weigh(c, at[w], Protocol(w)) = da + Weigh(c, at'[w], Protocol(w)')
      BY <1>3, <3>1, <3>2 DEF p
    <3>8. 0 \in Nat
      OBVIOUS
    <3>9. QED
      BY <3>2, <3>4, <3>5, <3>6, <3>7, <3>8
  <2>2. QED
    BY <1>1, <2>1, CountMoves
<1>5. QED
  BY <1>2, <1>4, OthersKept

-----------------------------------------------------------------------------
(* The caches and the limiters.                                            *)

\* What a step of w leaves of the caches and limiters that makes it nothing more.
CacheSound(w) ==
    /\ making' = [making EXCEPT ![w] = NoKey]
    /\ found' \in [Keys -> Nat] /\ buckets' \in [LimiterKeys -> Seq(Limiters)]
    /\ \A k \in LimiterKeys : found'[k] <= Len(buckets'[k])
    /\ crowded' = crowded /\ refills' = refills
    /\ Grown /\ BucketInv' /\ CacheInv'

\* What it leaves of the counts.
CountSound(w, stage) ==
    /\ counted' \in [Counters -> Nat] /\ CountedGrows
    /\ \A c \in ChainCounters : counted'[c] = counted[c] + CountsAt(c, stage, Protocol(w))

LEMMA BucketsSame ==
    ASSUME AInv, scenario' = scenario, buckets' = buckets
    PROVE  Grown /\ BucketInv'
<1>1. ATypeOK /\ BucketInv
  BY DEF AInv
<1>2. BucketInv'
  <2>1. ASSUME NEW k \in LimiterKeys, NEW i \in DOMAIN buckets[k]
        PROVE  SoundLimiter(k, buckets[k][i])'
    <3>1. SoundLimiter(k, buckets[k][i])
      BY <1>1 DEF BucketInv
    <3> DEFINE lim == buckets[k][i]
    <3>2. Rate(k)' = Rate(k)
      BY DEF Rate, Service
    <3>3. Forged(k, buckets[k][i].burst)' <=> Forged(k, buckets[k][i].burst)
      BY DEF Forged, Service
    <3>4. QED
      BY <3>1, <3>2, <3>3 DEF SoundLimiter, Burst
  <2>2. QED
    BY <2>1 DEF BucketInv
<1>3. Grown
  <2>1. ASSUME NEW k \in LimiterKeys, NEW i \in DOMAIN buckets[k]
        PROVE  buckets[k][i].passed <= buckets[k][i].passed
    <3>1. buckets[k][i].passed \in Nat
      BY <1>1, LimiterTypes
    <3>2. QED
      BY <3>1
  <2>2. QED
    BY <2>1 DEF Grown
<1>4. QED
  BY <1>2, <1>3

\* Who stops making a limiter does no harm.
LEMMA CacheLoses ==
    ASSUME AInv, crowded' = crowded,
           \A u \in Workers : making'[u] = making[u] \/ making'[u] = NoKey,
           \A k \in LimiterKeys : Len(buckets'[k]) = Len(buckets[k]) /\ found'[k] = found[k]
    PROVE  CacheInv'
<1>1. CacheInv /\ NoKey \notin LimiterKeys
  BY KeyKinds DEF AInv
<1>2. SUFFICES ASSUME "limiter" \notin crowded
               PROVE  /\ \A u, w \in Workers :
                           making'[u] \in LimiterKeys /\ making'[w] \in LimiterKeys => u = w
                      /\ \A w \in Workers :
                           making'[w] \in LimiterKeys => Len(buckets'[making'[w]]) = 0
                      /\ \A k \in LimiterKeys : /\ Len(buckets'[k]) <= 1
                                                /\ found'[k] = 0 => Len(buckets'[k]) = 0
  BY DEF CacheInv
<1>3. /\ \A u, w \in Workers : making[u] \in LimiterKeys /\ making[w] \in LimiterKeys => u = w
      /\ \A w \in Workers : making[w] \in LimiterKeys => Len(buckets[making[w]]) = 0
      /\ \A k \in LimiterKeys : /\ Len(buckets[k]) <= 1
                                /\ found[k] = 0 => Len(buckets[k]) = 0
  BY <1>1, <1>2 DEF CacheInv
<1>4. \A u \in Workers : making'[u] \in LimiterKeys => making'[u] = making[u]
  BY <1>1
<1>5. QED
  BY <1>3, <1>4

LEMMA CacheLeft ==
    ASSUME AInv, NEW w \in Workers, making[w] = NoKey, scenario' = scenario,
           UNCHANGED <<cache, limiters>>
    PROVE  CacheSound(w)
<1>1. /\ making' = making /\ found' = found /\ crowded' = crowded /\ buckets' = buckets
      /\ refills' = refills
  BY DEF cache, limiters
<1>2. making' = [making EXCEPT ![w] = NoKey]
  BY <1>1 DEF AInv, ATypeOK
<1>3. /\ found' \in [Keys -> Nat] /\ buckets' \in [LimiterKeys -> Seq(Limiters)]
      /\ \A k \in LimiterKeys : found'[k] <= Len(buckets'[k])
  BY <1>1 DEF AInv, ATypeOK
<1>4. Grown /\ BucketInv'
  BY <1>1, BucketsSame
<1>5. CacheInv'
  BY <1>1, CacheLoses
<1>6. QED
  BY <1>1, <1>2, <1>3, <1>4, <1>5 DEF CacheSound

LEMMA CountsLeft ==
    ASSUME AInv, counted' = counted, NEW w \in Workers,
           NEW stage, stage \notin {"totalCount", "serviceCount"}
    PROVE  CountSound(w, stage)
<1>1. counted \in [Counters -> Nat] /\ ChainCounters \subseteq Counters
  BY DEF AInv, ATypeOK, Counters, ChainCounters
<1>2. \A c \in Counters : counted[c] \in Nat
  BY <1>1
<1>3. CountedGrows
  <2>1. \A n \in Nat : n <= n
    OBVIOUS
  <2>2. QED
    BY <1>2, <2>1 DEF CountedGrows
<1>4. \A c \in ChainCounters : CountsAt(c, stage, Protocol(w)) = 0
  BY DEF CountsAt, One
<1>5. \A n \in Nat : n = n + 0
  OBVIOUS
<1>6. \A c \in ChainCounters : counted'[c] = counted[c] + CountsAt(c, stage, Protocol(w))
  BY <1>1, <1>2, <1>4, <1>5
<1>7. QED
  BY <1>1, <1>3, <1>6 DEF CountSound

LEMMA WantsSame ==
    ASSUME NEW g \in Workers, scenario' = scenario,
           at'[g] = at[g], request'[g] = request[g], app'[g] = app[g]
    PROVE  Wants(g)' = Wants(g)
<1>1. Protocol(g)' = Protocol(g) /\ Service(Protocol(g))' = Service(Protocol(g))
  BY DEF Protocol, Service
<1>2. Seen(request[g])' = Seen(request[g])
  BY SameRequest
<1>3. QED
  BY <1>1, <1>2 DEF Wants

LEMMA MakingKept ==
    ASSUME AInv, NEW w \in Workers, Only(w),
           making'[w] # NoKey => making'[w] \in Wants(w)'
    PROVE  MakingInv'
<1>1. ASSUME NEW g \in Workers \ {w}, making'[g] # NoKey PROVE making'[g] \in Wants(g)'
  <2>1. making'[g] = making[g] /\ Wants(g)' = Wants(g)
    BY WantsSame DEF Only
  <2>2. QED
    BY <1>1, <2>1 DEF AInv, MakingInv
<1>2. QED
  BY <1>1 DEF MakingInv

\* Who makes an item is in flight.
LEMMA MakersInFlight ==
    ASSUME AInv, NEW u \in Workers, making[u] # NoKey
    PROVE  InFlight(u) /\ making[u] \in Wants(u)
<1>1. making[u] \in Wants(u)
  BY DEF AInv, MakingInv
<1>2. at[u] \in {"totalCount", "serviceCount", "serviceLimit", "clientLimit", "jwtFlowCount",
                 "jwtFlowLimit"}
  BY <1>1 DEF Wants
<1>3. QED
  BY <1>1, <1>2, StagesAre DEF InFlight

LEMMA NothingMade ==
    ASSUME AInv, NEW w \in Workers, Wants(w) = {}
    PROVE  making[w] = NoKey
  BY MakersInFlight

\* It takes two requests to meet at a cache.
LEMMA MeetingOverlaps ==
    ASSUME AInv, NEW w \in Workers, InFlight(w), NEW k \in Keys,
           Cache(k) \in crowded \/ OthersMaking(w, Cache(k))
    PROVE  overlapped
<1>1. SUFFICES ASSUME ~ overlapped PROVE FALSE
  OBVIOUS
<1>2. crowded = {} /\ \A u \in Workers : InFlight(u) => u = w
  BY <1>1 DEF AInv, OverlapInv
<1>3. PICK u \in Workers \ {w} : Cache(making[u]) = Cache(k)
  BY <1>2 DEF OthersMaking
<1>4. making[u] # NoKey
  BY <1>3, KeyKinds
<1>5. QED
  BY <1>2, <1>3, <1>4, MakersInFlight

LEMMA OverlapKept ==
    ASSUME AInv, NEW w \in Workers, Only(w), InFlight(w), overlapped' = overlapped,
           ~ overlapped => crowded' = {} /\ \A c \in ChainCounters : missed'[c] = 0,
           missed'["grpc"] = 0
    PROVE  OverlapInv'
<1>1. OverlapInv
  BY DEF AInv
<1>2. SUFFICES ASSUME ~ overlapped, NEW u \in Workers, NEW v \in Workers,
                      InFlight(u)', InFlight(v)'
               PROVE  u = v
  BY DEF OverlapInv
<1>3. \A g \in Workers \ {w} : InFlight(g)' => InFlight(g)
  BY DEF Only, InFlight
<1>4. \A g \in Workers : InFlight(g) => g = w
  BY <1>1, <1>2 DEF OverlapInv
<1>5. QED
  BY <1>2, <1>3, <1>4

LEMMA ProceedTypes ==
    ASSUME ATypeOK, NEW w \in Workers, AdmittedOK(w), NEW stage \in Stages \ {"reverseProxy"},
           Proceed(w, stage)
    PROVE  /\ at' \in [Workers -> Stages \cup {"idle", "answered"}]
           /\ answer' = answer /\ answers' = answers /\ missed' = missed
           /\ InFlight(w) /\ \A g \in Workers \ {w} : at'[g] = at[g]
<1>1. /\ at[w] = stage /\ at' = [at EXCEPT ![w] = After(Protocol(w), stage)]
      /\ answer' = answer /\ answers' = answers /\ missed' = missed
  BY DEF Proceed, replies
<1>2. stage \in ChainStages(Protocol(w)) /\ Protocol(w) \in Protocols
  BY <1>1, StagesAre, RequestTypes DEF AdmittedOK, Protocol
<1>3. After(Protocol(w), stage) \in Stages
  BY <1>2, ChainTable
<1>4. QED
  BY <1>1, <1>3 DEF ATypeOK, InFlight

LEMMA ReplyTypes ==
    ASSUME ATypeOK, NEW w \in Workers, NEW stage \in Stages, NEW what \in Answers,
           Reply(w, stage, what)
    PROVE  /\ at' \in [Workers -> Stages \cup {"idle", "answered"}]
           /\ answer' \in [Workers -> Answers \cup {""}]
           /\ answers' \in [{"total"} \cup Protocols -> Nat]
           /\ InFlight(w) /\ \A g \in Workers \ {w} : at'[g] = at[g] /\ answer'[g] = answer[g]
<1>1. /\ at[w] = stage /\ at' = [at EXCEPT ![w] = "answered"]
      /\ answer' = [answer EXCEPT ![w] = what]
  BY DEF Reply
<1>2. answers' \in [{"total"} \cup Protocols -> Nat]
  <2>1. answers \in [{"total"} \cup Protocols -> Nat]
    BY DEF ATypeOK
  <2>2. Plus(answers, {"total", Protocol(w)}) \in [{"total"} \cup Protocols -> Nat]
    BY <2>1, PlusOne
  <2>3. answers' = answers \/ answers' = Plus(answers, {"total", Protocol(w)})
    BY DEF Reply
  <2>4. QED
    BY <2>1, <2>2, <2>3
<1>3. QED
  BY <1>1, <1>2 DEF ATypeOK, InFlight

-----------------------------------------------------------------------------
(* A step of a request, all together.                                      *)

Unaffected == UNCHANGED <<scenario, request, arrived, overlapped>>

LEMMA OnlyOne ==
    ASSUME AInv, NEW w \in Workers, Unaffected, making' = [making EXCEPT ![w] = NoKey],
           \A g \in Workers \ {w} :
              at'[g] = at[g] /\ answer'[g] = answer[g] /\ app'[g] = app[g]
    PROVE  Only(w) /\ making'[w] = NoKey /\ making' \in [Workers -> Keys \cup {NoKey}]
<1>1. making \in [Workers -> Keys \cup {NoKey}]
  BY DEF AInv, ATypeOK
<1>2. QED
  BY <1>1 DEF Only, Unaffected

LEMMA StepPasses ==
    ASSUME AInv, NEW w \in Workers, NEW stage \in Stages \ {"reverseProxy"},
           Proceed(w, stage), Unaffected, CacheSound(w), CountSound(w, stage),
           app' = IF stage = "jwtAuth" THEN [app EXCEPT ![w] = TenantOf(request[w])] ELSE app,
           stage = "accessMode" => request[w].route = "service",
           stage = "jwtAuth" => TokenFine(request[w]),
           stage = "whiteList" => White(request[w]),
           stage = "blackList" => ~ Black(request[w])
    PROVE  AInv'
<1>1. ATypeOK /\ AdmittedOK(w) /\ OverlapInv
  BY DEF AInv, RequestsOK
<1>2. /\ at' \in [Workers -> Stages \cup {"idle", "answered"}]
      /\ answer' = answer /\ answers' = answers /\ missed' = missed
      /\ InFlight(w) /\ \A g \in Workers \ {w} : at'[g] = at[g]
  BY <1>1, ProceedTypes
<1>3. /\ app' \in [Workers -> Carried]
      /\ app'[w] = IF stage = "jwtAuth" THEN TenantOf(request[w]) ELSE app[w]
      /\ \A g \in Workers \ {w} : app'[g] = app[g]
  <2>1. app \in [Workers -> Carried]
    BY <1>1 DEF ATypeOK
  <2>2. TenantOf(request[w]) \in Carried
    <3>1. request[w].token \in Apps => scenario.rows[request[w].token] \in Carried
      BY <1>1, ScenarioTypes DEF Carried
    <3>2. request[w].carried \in Carried /\ NoApp \in Carried
      BY <1>1, RequestTypes DEF Carried
    <3>3. QED
      BY <3>1, <3>2 DEF TenantOf
  <2>3. QED
    BY <2>1, <2>2
<1>4. Only(w) /\ making'[w] = NoKey /\ making' \in [Workers -> Keys \cup {NoKey}]
  BY <1>2, <1>3, OnlyOne DEF CacheSound
<1>5. ATypeOK'
  <2>1. /\ scenario' = scenario /\ request' = request /\ arrived' = arrived
        /\ overlapped' = overlapped /\ crowded' = crowded /\ refills' = refills
    BY DEF Unaffected, CacheSound
  <2>2. /\ found' \in [Keys -> Nat] /\ buckets' \in [LimiterKeys -> Seq(Limiters)]
        /\ \A k \in LimiterKeys : found'[k] <= Len(buckets'[k])
        /\ counted' \in [Counters -> Nat]
    BY DEF CacheSound, CountSound
  <2>3. QED
    BY <1>1, <1>2, <1>3, <1>4, <2>1, <2>2 DEF ATypeOK
<1>6. RequestsOK' /\ CountInv'
  BY <1>3, <1>4, <1>5, Passes DEF Unaffected, CacheSound, CountSound
<1>7. MakingInv'
  BY <1>4, MakingKept
<1>8. OverlapInv'
  BY <1>1, <1>2, <1>4, OverlapKept DEF Unaffected, CacheSound, OverlapInv
<1>9. QED
  BY <1>5, <1>6, <1>7, <1>8 DEF AInv, CacheSound

LEMMA StepReplies ==
    ASSUME AInv, NEW w \in Workers, NEW stage \in Stages, NEW what \in Answers,
           Reply(w, stage, what), Unaffected, CacheSound(w), app' = app,
           counted' \in [Counters -> Nat], CountedGrows,
           \A c \in ChainCounters : counted'[c] = counted[c],
           missed' = Plus(missed, Uncounted(stage, Protocol(w))),
           Uncounted(stage, Protocol(w)) # {} => overlapped /\ Protocol(w) # "grpc",
           what = "forwarded" => stage = "reverseProxy",
           what \in {"invalidToken", "noApp"} => stage = "jwtAuth" /\ ~ TokenFine(request[w]),
           what = "notWhite" => ~ White(request[w]),
           what = "black" => Black(request[w]),
           what = "invalidApp" => stage = "jwtFlowCount" /\ app[w] = Malformed,
           what = "overQuota" => Exceeded(request[w])',
           what = "limited" => Spent(request[w])'
    PROVE  AInv'
<1>1. ATypeOK /\ AdmittedOK(w) /\ OverlapInv
  BY DEF AInv, RequestsOK
<1>2. /\ at' \in [Workers -> Stages \cup {"idle", "answered"}]
      /\ answer' \in [Workers -> Answers \cup {""}]
      /\ answers' \in [{"total"} \cup Protocols -> Nat]
      /\ InFlight(w) /\ \A g \in Workers \ {w} : at'[g] = at[g] /\ answer'[g] = answer[g]
  BY <1>1, ReplyTypes
<1> DEFINE cs == Uncounted(stage, Protocol(w))
<1>3. /\ missed \in [ChainCounters -> Nat] /\ missed' \in [ChainCounters -> Nat]
      /\ \A c \in ChainCounters : missed'[c] = missed[c] + Member(c, cs)
  <2>1. missed \in [ChainCounters -> Nat]
    BY <1>1 DEF ATypeOK, ChainCounters
  <2>2. QED
    BY <2>1, PlusOne
<1>4. Only(w) /\ making'[w] = NoKey /\ making' \in [Workers -> Keys \cup {NoKey}]
  BY <1>2, OnlyOne DEF CacheSound
<1>5. ATypeOK'
  <2>1. /\ scenario' = scenario /\ request' = request /\ arrived' = arrived
        /\ overlapped' = overlapped /\ crowded' = crowded /\ refills' = refills
    BY DEF Unaffected, CacheSound
  <2>2. /\ found' \in [Keys -> Nat] /\ buckets' \in [LimiterKeys -> Seq(Limiters)]
        /\ \A k \in LimiterKeys : found'[k] <= Len(buckets'[k])
    BY DEF CacheSound
  <2>3. missed' \in [{"total"} \cup Protocols -> Nat]
    BY <1>3 DEF ChainCounters
  <2>4. QED
    BY <1>1, <1>2, <1>4, <2>1, <2>2, <2>3 DEF ATypeOK
<1>6. RequestsOK' /\ CountInv'
  BY <1>3, <1>4, <1>5, IsAnswered DEF Unaffected, CacheSound
<1>7. MakingInv'
  BY <1>4, MakingKept
<1>8. OverlapInv'
  <2>1. \A n \in Nat : n + 0 = n
    OBVIOUS
  <2>2. ASSUME NEW c \in ChainCounters, c \notin cs PROVE missed'[c] = missed[c]
    <3>1. Member(c, cs) = 0 /\ missed[c] \in Nat
      BY <1>3, <2>2 DEF Member
    <3>2. QED
      BY <1>3, <2>1, <3>1
  <2>3. ~ overlapped => crowded' = {} /\ \A c \in ChainCounters : missed'[c] = 0
    BY <1>1, <2>2 DEF OverlapInv, CacheSound
  <2>4. missed'["grpc"] = 0
    <3>1. "grpc" \notin cs
      <4>1. cs \subseteq {"total", Protocol(w)}
        BY DEF Uncounted
      <4>2. QED
        BY <4>1
    <3>2. missed["grpc"] = 0 /\ "grpc" \in ChainCounters
      BY <1>1 DEF OverlapInv, ChainCounters, Protocols
    <3>3. QED
      BY <2>2, <3>1, <3>2
  <2>5. QED
    BY <1>2, <1>4, <2>3, <2>4, OverlapKept DEF Unaffected
<1>9. QED
  BY <1>5, <1>6, <1>7, <1>8 DEF AInv, CacheSound

\* An answer that is none of a fault.
LEMMA StepAnswers ==
    ASSUME AInv, NEW w \in Workers, NEW stage \in Stages \ {"totalCount", "serviceCount"},
           NEW what \in Answers, Answer(w, stage, what), Unaffected, CacheSound(w), app' = app,
           counted' \in [Counters -> Nat], CountedGrows,
           \A c \in ChainCounters : counted'[c] = counted[c],
           what = "forwarded" => stage = "reverseProxy",
           what \in {"invalidToken", "noApp"} => stage = "jwtAuth" /\ ~ TokenFine(request[w]),
           what = "notWhite" => ~ White(request[w]),
           what = "black" => Black(request[w]),
           what = "invalidApp" => stage = "jwtFlowCount" /\ app[w] = Malformed,
           what = "overQuota" => Exceeded(request[w])',
           what = "limited" => Spent(request[w])'
    PROVE  AInv'
<1>1. Uncounted(stage, Protocol(w)) = {}
  BY DEF Uncounted
<1>2. missed' = Plus(missed, {})
  <2>1. missed' = missed /\ missed \in [ChainCounters -> Nat]
    BY DEF Answer, AInv, ATypeOK, ChainCounters
  <2>2. Plus(missed, {}) = [c \in ChainCounters |-> missed[c] + 0]
    BY <2>1 DEF Plus
  <2>3. \A c \in ChainCounters : missed[c] + 0 = missed[c]
    BY <2>1
  <2>4. QED
    BY <2>1, <2>2, <2>3
<1>3. Reply(w, stage, what)
  BY DEF Answer
<1>4. QED
  BY <1>1, <1>2, <1>3, StepReplies
-----------------------------------------------------------------------------
(* Counters and limiters that are looked for.                              *)

\* A request that finds none is about to make one.
LEMMA MissKeeps ==
    ASSUME AInv, NEW w \in Workers, NEW stage \in Stages, NEW k \in Keys,
           at[w] = stage => k \in Wants(w), Miss(w, stage, k)
    PROVE  AInv'
<1>1. /\ at[w] = stage /\ making[w] = NoKey
      /\ found[k] = 0 \/ Cache(k) \in crowded
      /\ making' = [making EXCEPT ![w] = k]
      /\ crowded' = crowded \cup (IF OthersMaking(w, Cache(k)) THEN {Cache(k)} ELSE {})
      /\ scenario' = scenario /\ request' = request /\ arrived' = arrived
      /\ overlapped' = overlapped /\ at' = at /\ app' = app /\ found' = found
      /\ buckets' = buckets /\ refills' = refills /\ counted' = counted
      /\ answer' = answer /\ answers' = answers /\ missed' = missed
  BY DEF Miss, given, limiters, replies
<1>2. ATypeOK /\ InFlight(w) /\ Cache(k) \in {"counter", "limiter"}
  BY <1>1, KeyKinds DEF AInv, InFlight
<1>3. making' \in [Workers -> Keys \cup {NoKey}] /\ making'[w] = k
      /\ \A u \in Workers \ {w} : making'[u] = making[u]
  BY <1>1, <1>2 DEF ATypeOK
<1>4. ATypeOK'
  <2>1. crowded' \subseteq {"counter", "limiter"}
    BY <1>1, <1>2 DEF ATypeOK
  <2>2. QED
    BY <1>1, <1>2, <1>3, <2>1 DEF ATypeOK
<1>5. Only(w)
  BY <1>1, <1>3 DEF Only
<1>6. Grown /\ BucketInv'
  BY <1>1, BucketsSame
<1>7. CountedGrows
  <2>1. \A n \in Nat : n <= n
    OBVIOUS
  <2>2. QED
    BY <1>1, <1>2, <2>1 DEF CountedGrows, ATypeOK
<1>8. RequestsOK'
  <2>1. AdmittedOK(w) /\ RefusedOK(w)
    BY DEF AInv, RequestsOK
  <2>2. AdmittedOK(w)' /\ RefusedOK(w)'
    BY <1>1, <1>2, <1>4, <1>6, <1>7, <2>1, LeftAlone
  <2>3. QED
    BY <1>4, <1>5, <1>6, <1>7, <2>2, OthersKept
<1>9. CountInv'
  <2>1. \A c : In(c)' = In(c)
    BY <1>1 DEF In, Protocol
  <2>2. QED
    BY <1>1, <2>1 DEF AInv, CountInv
<1>10. MakingInv'
  <2>1. Wants(w)' = Wants(w)
    BY <1>1, WantsSame
  <2>2. QED
    BY <1>1, <1>3, <1>5, <2>1, MakingKept
<1>11. CacheInv'
  <2>1. SUFFICES ASSUME "limiter" \notin crowded'
                 PROVE  /\ \A u, v \in Workers :
                             making'[u] \in LimiterKeys /\ making'[v] \in LimiterKeys => u = v
                        /\ \A u \in Workers :
                             making'[u] \in LimiterKeys => Len(buckets'[making'[u]]) = 0
                        /\ \A q \in LimiterKeys : /\ Len(buckets'[q]) <= 1
                                                  /\ found'[q] = 0 => Len(buckets'[q]) = 0
    BY DEF CacheInv
  <2>2. "limiter" \notin crowded
    BY <1>1, <2>1
  <2>3. /\ \A u, v \in Workers : making[u] \in LimiterKeys /\ making[v] \in LimiterKeys => u = v
        /\ \A u \in Workers : making[u] \in LimiterKeys => Len(buckets[making[u]]) = 0
        /\ \A q \in LimiterKeys : /\ Len(buckets[q]) <= 1
                                  /\ found[q] = 0 => Len(buckets[q]) = 0
    BY <2>2 DEF AInv, CacheInv
  <2>4. CASE k \in LimiterKeys
    <3>1. Cache(k) = "limiter"
      BY <2>4, KeyKinds
    <3>2. found[k] = 0 /\ ~ OthersMaking(w, "limiter")
      BY <1>1, <2>1, <2>2, <3>1
    <3>3. \A u \in Workers \ {w} : making[u] \notin LimiterKeys
      BY <3>2, KeyKinds DEF OthersMaking
    <3>4. QED
      BY <1>1, <1>3, <2>3, <2>4, <3>2, <3>3
  <2>5. CASE k \notin LimiterKeys
    BY <1>1, <1>3, <2>3, <2>5
  <2>6. QED
    BY <2>4, <2>5
<1>12. OverlapInv'
  <2>1. ~ overlapped => crowded' = {}
    <3>1. ~ overlapped => ~ OthersMaking(w, Cache(k)) /\ crowded = {}
      BY <1>2, MeetingOverlaps DEF AInv, OverlapInv
    <3>2. QED
      BY <1>1, <3>1
  <2>2. /\ ~ overlapped => \A c \in ChainCounters : missed'[c] = 0
        /\ missed'["grpc"] = 0
    BY <1>1 DEF AInv, OverlapInv
  <2>3. QED
    BY <1>1, <1>2, <1>5, <2>1, <2>2, OverlapKept
<1>13. QED
  BY <1>4, <1>6, <1>8, <1>9, <1>10, <1>11, <1>12 DEF AInv

\* One that meets an item that is not stored yet faults.
LEMMA FaultKeeps ==
    ASSUME AInv, NEW w \in Workers, NEW stage \in Stages, NEW k \in Keys, Fault(w, stage, k)
    PROVE  AInv'
<1>1. /\ Protocol(w) # "grpc" /\ making[w] = NoKey /\ at[w] = stage
      /\ Cache(k) \in crowded \/ OthersMaking(w, Cache(k))
      /\ Reply(w, stage, "error")
      /\ missed' = Plus(missed, Uncounted(stage, Protocol(w)))
      /\ Unaffected /\ app' = app /\ counted' = counted /\ UNCHANGED <<cache, limiters>>
      /\ scenario' = scenario
  BY DEF Fault, Reply, Unaffected, given
<1>2. overlapped
  BY <1>1, MeetingOverlaps DEF InFlight
<1>3. CacheSound(w)
  BY <1>1, CacheLeft
<1>4. /\ counted' \in [Counters -> Nat] /\ CountedGrows
      /\ \A c \in ChainCounters : counted'[c] = counted[c]
  <2>1. "accessMode" \notin {"totalCount", "serviceCount"}
    OBVIOUS
  <2>2. CountSound(w, "accessMode")
    BY <1>1, <2>1, CountsLeft
  <2>3. QED
    BY <1>1, <2>2 DEF CountSound
<1>5. "error" \in Answers
  BY DEF Answers
<1>6. QED
  BY <1>1, <1>2, <1>3, <1>4, <1>5, StepReplies

LEMMA IncreaseSound ==
    ASSUME AInv, NEW w \in Workers, NEW c \in Counters, Increase(w, c),
           scenario' = scenario, UNCHANGED limiters
    PROVE  /\ CacheSound(w)
           /\ counted' \in [Counters -> Nat] /\ CountedGrows
           /\ \A d \in Counters : counted'[d] = counted[d] + (IF d = c THEN 1 ELSE 0)
<1> DEFINE k == CounterKey(c)
<1>1. counted \in [Counters -> Nat] /\ counted' = [counted EXCEPT ![c] = @ + 1]
  BY DEF AInv, ATypeOK, Increase
<1>2. /\ counted' \in [Counters -> Nat]
      /\ \A d \in Counters : counted'[d] = counted[d] + (IF d = c THEN 1 ELSE 0)
  <2>1. \A n \in Nat : n + 1 \in Nat /\ n + 0 = n
    OBVIOUS
  <2>2. \A d \in Counters : counted[d] \in Nat
    BY <1>1
  <2>3. QED
    BY <1>1, <2>1, <2>2
<1>3. CountedGrows
  <2>1. \A n \in Nat : n <= n + 1 /\ n <= n + 0
    OBVIOUS
  <2>2. QED
    BY <1>1, <1>2, <2>1 DEF CountedGrows
<1>4. CASE Found(w, k)
  <2>1. making[w] = NoKey /\ UNCHANGED <<cache, limiters>>
    BY <1>4 DEF Found
  <2>2. QED
    BY <1>2, <1>3, <2>1, CacheLeft
<1>5. CASE Keep(w, k, 1)
  <2>1. k \in Keys \ LimiterKeys
    BY KeyKinds
  <2> HIDE DEF k
  <2>2. /\ making' = [making EXCEPT ![w] = NoKey] /\ crowded' = crowded
        /\ found' = [found EXCEPT ![k] = 1] \/ found' = found
        /\ buckets' = buckets /\ refills' = refills
    BY <1>5 DEF Keep, limiters
  <2>3. ATypeOK
    BY DEF AInv
  <2>4. found' \in [Keys -> Nat] /\ \A q \in LimiterKeys : found'[q] = found[q]
    <3>1. found \in [Keys -> Nat] /\ LimiterKeys \subseteq Keys /\ 1 \in Nat
      BY <2>3, KeyKinds DEF ATypeOK
    <3>2. k \in Keys /\ k \notin LimiterKeys
      BY <2>1
    <3>3. CASE found' = [found EXCEPT ![k] = 1]
      BY <3>1, <3>2, <3>3
    <3>4. CASE found' = found
      BY <3>1, <3>4
    <3>5. QED
      BY <2>2, <3>3, <3>4
  <2>5. /\ buckets' \in [LimiterKeys -> Seq(Limiters)]
        /\ \A q \in LimiterKeys : found'[q] <= Len(buckets'[q])
    BY <2>2, <2>3, <2>4 DEF ATypeOK
  <2>6. Grown /\ BucketInv'
    BY <2>2, BucketsSame
  <2>7. CacheInv'
    <3>1. \A u \in Workers : making'[u] = making[u] \/ making'[u] = NoKey
      BY <2>2, <2>3 DEF ATypeOK
    <3>2. QED
      BY <2>2, <2>4, <3>1, CacheLoses
  <2>8. QED
    BY <1>2, <1>3, <2>2, <2>4, <2>5, <2>6, <2>7 DEF CacheSound
<1>6. QED
  BY <1>4, <1>5 DEF Increase

LEMMA CountKeeps ==
    ASSUME AInv, NEW w \in Workers, NEW stage \in {"totalCount", "serviceCount"},
           NEW c \in Counters, c = IF stage = "totalCount" THEN "total" ELSE Protocol(w),
           Count(w, stage, c)
    PROVE  AInv'
<1>1. stage \in Stages \ {"reverseProxy"} /\ CounterKey(c) \in Keys
  BY StagesAre, KeyKinds
<1>2. at[w] = stage => CounterKey(c) \in Wants(w)
  BY DEF Wants
<1>3. CASE Increase(w, c) /\ Proceed(w, stage) /\ UNCHANGED <<given, app, limiters>>
  <2>1. Unaffected /\ app' = app /\ scenario' = scenario /\ UNCHANGED limiters
    BY <1>3 DEF Unaffected, given
  <2>2. /\ CacheSound(w)
        /\ counted' \in [Counters -> Nat] /\ CountedGrows
        /\ \A d \in Counters : counted'[d] = counted[d] + (IF d = c THEN 1 ELSE 0)
    BY <1>3, <2>1, IncreaseSound
  <2>3. CountSound(w, stage)
    <3>1. Protocol(w) \in Protocols /\ Protocol(w) # "total"
      BY RequestTypes DEF AInv, Protocols
    <3>2. \A d \in ChainCounters : CountsAt(d, stage, Protocol(w)) = IF d = c THEN 1 ELSE 0
      BY <3>1 DEF CountsAt, One
    <3>3. ChainCounters \subseteq Counters
      BY DEF ChainCounters, Counters
    <3>4. QED
      BY <2>2, <3>2, <3>3 DEF CountSound
  <2>4. stage # "jwtAuth" /\ stage # "accessMode" /\ stage # "whiteList" /\ stage # "blackList"
    OBVIOUS
  <2>5. QED
    BY <1>1, <1>3, <2>1, <2>2, <2>3, <2>4, StepPasses
<1>4. QED
  BY <1>1, <1>2, <1>3, MissKeeps, FaultKeeps DEF Count

LEMMA FlowCountKeeps ==
    ASSUME AInv, NEW w \in Workers, FlowCount(w)
    PROVE  AInv'
<1>1. "total" \in Counters /\ Protocol(w) \in Counters
  BY RequestTypes DEF AInv, Counters
<1>2. CASE Count(w, "totalCount", "total")
  BY <1>1, <1>2, CountKeeps
<1>3. CASE Count(w, "serviceCount", Protocol(w))
  BY <1>1, <1>3, CountKeeps
<1>4. QED
  BY <1>2, <1>3 DEF FlowCount

\* A middleware that looks for nothing.
LEMMA QuietPass ==
    ASSUME AInv, NEW w \in Workers,
           NEW stage \in Stages \ {"totalCount", "serviceCount", "reverseProxy"},
           Wants(w) = {}, Proceed(w, stage), UNCHANGED <<given, cache, limiters, counted>>,
           app' = IF stage = "jwtAuth" THEN [app EXCEPT ![w] = TenantOf(request[w])] ELSE app,
           stage = "accessMode" => request[w].route = "service",
           stage = "jwtAuth" => TokenFine(request[w]),
           stage = "whiteList" => White(request[w]),
           stage = "blackList" => ~ Black(request[w])
    PROVE  AInv'
<1>1. /\ Unaffected /\ scenario' = scenario /\ UNCHANGED <<cache, limiters>>
      /\ counted' = counted /\ making[w] = NoKey
  BY NothingMade DEF Unaffected, given
<1>2. CacheSound(w) /\ CountSound(w, stage)
  BY <1>1, CacheLeft, CountsLeft
<1>3. QED
  BY <1>1, <1>2, StepPasses

LEMMA QuietAnswer ==
    ASSUME AInv, NEW w \in Workers, NEW stage \in Stages \ {"totalCount", "serviceCount"},
           NEW what \in Answers \ {"overQuota", "limited"}, Wants(w) = {},
           Answer(w, stage, what), UNCHANGED <<given, cache, limiters, counted>>, app' = app,
           what = "forwarded" => stage = "reverseProxy",
           what \in {"invalidToken", "noApp"} => stage = "jwtAuth" /\ ~ TokenFine(request[w]),
           what = "notWhite" => ~ White(request[w]),
           what = "black" => Black(request[w]),
           what = "invalidApp" => stage = "jwtFlowCount" /\ app[w] = Malformed
    PROVE  AInv'
<1>1. /\ Unaffected /\ scenario' = scenario /\ UNCHANGED <<cache, limiters>>
      /\ counted' = counted /\ making[w] = NoKey
  BY NothingMade DEF Unaffected, given
<1>2. CacheSound(w)
  BY <1>1, CacheLeft
<1>3. /\ counted' \in [Counters -> Nat] /\ CountedGrows
      /\ \A c \in ChainCounters : counted'[c] = counted[c]
  <2>1. CountSound(w, stage)
    BY <1>1, CountsLeft
  <2>2. QED
    BY <1>1, <2>1 DEF CountSound
<1>4. QED
  BY <1>1, <1>2, <1>3, StepAnswers

LEMMA AccessModeKeeps ==
    ASSUME AInv, NEW w \in Workers, AccessMode(w)
    PROVE  AInv'
<1>1. UNCHANGED <<given, cache, limiters, counted>> /\ app' = app
  BY DEF AccessMode
<1>2. at[w] = "accessMode" => Wants(w) = {}
  BY DEF Wants
<1>3. "accessMode" \in Stages
  BY StagesAre
<1>4. CASE request[w].route = "service" /\ Proceed(w, "accessMode")
  <2>1. Wants(w) = {}
    BY <1>2, <1>4 DEF Proceed
  <2>2. QED
    BY <1>1, <1>3, <1>4, <2>1, QuietPass
<1>5. ASSUME NEW what \in {"notMatched", "error"}, Answer(w, "accessMode", what)
      PROVE  AInv'
  <2>1. Wants(w) = {}
    BY <1>2, <1>5 DEF Answer, Reply
  <2>2. what \in Answers \ {"overQuota", "limited"}
    BY <1>5 DEF Answers
  <2>3. QED
    BY <1>1, <1>3, <1>5, <2>1, <2>2, QuietAnswer
<1>6. QED
  BY <1>4, <1>5 DEF AccessMode

LEMMA JwtAuthKeeps ==
    ASSUME AInv, NEW w \in Workers, JwtAuth(w)
    PROVE  AInv'
<1> DEFINE token == request[w].token
           p == Protocol(w)
<1>1. UNCHANGED <<given, cache, limiters, counted>>
  BY DEF JwtAuth
<1>2. ATypeOK /\ AdmittedOK(w) /\ p \in Protocols /\ p = request[w].protocol
      /\ Service(p).openAuth \in BOOLEAN
  BY RequestTypes, PolicyTypes DEF AInv, RequestsOK, Protocol
<1>3. at[w] = "jwtAuth"
  BY DEF JwtAuth, Proceed, Answer, Reply
<1>4. Wants(w) = {} /\ "jwtAuth" \in Stages
  BY <1>3, StagesAre DEF Wants
<1>5. p # "tcp" /\ app[w] = Brought(request[w])
  BY <1>2, <1>3, <1>4, StagesAre DEF AdmittedOK, ChainStages, PastToken
<1>6. TokenFine(request[w]) <=> token # "invalid" /\ Admitted(p, token)
  BY <1>2, <1>5 DEF TokenFine, TokenOK, Admitted
<1>7. \/ token = "invalid" /\ Answer(w, "jwtAuth", "invalidToken") /\ app' = app
      \/ ~ Admitted(p, token) /\ Answer(w, "jwtAuth", "noApp") /\ app' = app
      \/ /\ token # "invalid" /\ Admitted(p, token) /\ Proceed(w, "jwtAuth")
         /\ app' = IF token \in Apps THEN [app EXCEPT ![w] = scenario.rows[token]] ELSE app
  BY DEF JwtAuth
<1>8. CASE token = "invalid" /\ Answer(w, "jwtAuth", "invalidToken") /\ app' = app
  BY <1>1, <1>4, <1>6, <1>8, QuietAnswer DEF Answers
<1>9. CASE ~ Admitted(p, token) /\ Answer(w, "jwtAuth", "noApp") /\ app' = app
  BY <1>1, <1>4, <1>6, <1>9, QuietAnswer DEF Answers
<1>10. CASE /\ token # "invalid" /\ Admitted(p, token) /\ Proceed(w, "jwtAuth")
            /\ app' = IF token \in Apps THEN [app EXCEPT ![w] = scenario.rows[token]] ELSE app
  <2>1. app' = [app EXCEPT ![w] = TenantOf(request[w])]
    <3>1. CASE token \in Apps
      BY <1>2, <1>5, <1>10, <3>1 DEF TenantOf
    <3>2. CASE token \notin Apps
      <4>1. TenantOf(request[w]) = Brought(request[w])
        BY <1>2, <1>5, <3>2 DEF TenantOf, Brought, Protocols
      <4>2. app' = app /\ app \in [Workers -> Carried]
        BY <1>2, <1>10, <3>2 DEF ATypeOK
      <4>3. QED
        BY <1>5, <4>1, <4>2
    <3>3. QED
      BY <3>1, <3>2
  <2>2. TokenFine(request[w])
    BY <1>6, <1>10
  <2>3. QED
    BY <1>1, <1>4, <1>10, <2>1, <2>2, QuietPass
<1>11. QED
  BY <1>7, <1>8, <1>9, <1>10

LEMMA WhiteListKeeps ==
    ASSUME AInv, NEW w \in Workers, WhiteList(w)
    PROVE  AInv'
<1>1. UNCHANGED <<given, cache, limiters, counted>> /\ app' = app
  BY DEF WhiteList
<1>2. at[w] = "whiteList" => Wants(w) = {}
  BY DEF Wants
<1>3. "whiteList" \in Stages
  BY StagesAre
<1>4. \/ ~ White(request[w]) /\ Answer(w, "whiteList", "notWhite")
      \/ White(request[w]) /\ Proceed(w, "whiteList")
  BY DEF WhiteList, White, Protocol
<1>5. Wants(w) = {}
  BY <1>2, <1>4 DEF Proceed, Answer, Reply
<1>6. CASE ~ White(request[w]) /\ Answer(w, "whiteList", "notWhite")
  BY <1>1, <1>3, <1>5, <1>6, QuietAnswer DEF Answers
<1>7. CASE White(request[w]) /\ Proceed(w, "whiteList")
  BY <1>1, <1>3, <1>5, <1>7, QuietPass
<1>8. QED
  BY <1>4, <1>6, <1>7

LEMMA BlackListKeeps ==
    ASSUME AInv, NEW w \in Workers, BlackList(w)
    PROVE  AInv'
<1>1. UNCHANGED <<given, cache, limiters, counted>> /\ app' = app
  BY DEF BlackList
<1>2. at[w] = "blackList" => Wants(w) = {}
  BY DEF Wants
<1>3. "blackList" \in Stages
  BY StagesAre
<1>4. \/ Black(request[w]) /\ Answer(w, "blackList", "black")
      \/ ~ Black(request[w]) /\ Proceed(w, "blackList")
  BY DEF BlackList, Black, Protocol
<1>5. Wants(w) = {}
  BY <1>2, <1>4 DEF Proceed, Answer, Reply
<1>6. CASE Black(request[w]) /\ Answer(w, "blackList", "black")
  BY <1>1, <1>3, <1>5, <1>6, QuietAnswer DEF Answers
<1>7. CASE ~ Black(request[w]) /\ Proceed(w, "blackList")
  BY <1>1, <1>3, <1>5, <1>7, QuietPass
<1>8. QED
  BY <1>4, <1>6, <1>7

LEMMA ReverseProxyKeeps ==
    ASSUME AInv, NEW w \in Workers, ReverseProxy(w)
    PROVE  AInv'
<1>1. UNCHANGED <<given, cache, limiters, counted>> /\ app' = app
  BY DEF ReverseProxy
<1>2. PICK what \in {"forwarded", "error"} : Answer(w, "reverseProxy", what)
  BY DEF ReverseProxy
<1>3. at[w] = "reverseProxy" /\ "reverseProxy" \in Stages
  BY <1>2, StagesAre DEF Answer, Reply
<1>4. Wants(w) = {}
  BY <1>3 DEF Wants
<1>5. what \in Answers \ {"overQuota", "limited"}
  BY <1>2 DEF Answers
<1>6. QED
  BY <1>1, <1>2, <1>3, <1>4, <1>5, QuietAnswer
-----------------------------------------------------------------------------
(* The limiters.                                                           *)

\* A limiter lets the request through, or has none left, which is why the request
\* is answered.
LEMMA AllowedOne ==
    ASSUME NEW k, NEW lim \in Limiters, SoundLimiter(k, lim)
    PROVE  /\ Takes(lim.tokens) =>
              /\ LetOneThrough(lim) \in Limiters /\ SoundLimiter(k, LetOneThrough(lim))
              /\ LetOneThrough(lim).burst = lim.burst
              /\ lim.passed <= LetOneThrough(lim).passed
           /\ ~ Takes(lim.tokens) => lim.burst > 0 /\ lim.passed >= lim.burst
<1> DEFINE b == lim.burst
           t == lim.tokens
           p == lim.passed
           r == lim.refilled
           new == LetOneThrough(lim)
<1>1. b \in Nat /\ t \in Nat /\ p \in Nat /\ r \in Nat
  BY DEF Limiters
<1>2. new = [burst |-> b, tokens |-> t - 1, passed |-> p + 1, refilled |-> r]
  <2>1. lim = [burst |-> b, tokens |-> t, passed |-> p, refilled |-> r]
    BY DEF Limiters
  <2>2. new = [lim EXCEPT !.tokens = t - 1, !.passed = p + 1]
    BY DEF LetOneThrough
  <2> HIDE DEF b, t, p, r, new
  <2>3. QED
    BY <2>1, <2>2
<1>3. Takes(lim.tokens) <=> t > 0
  BY DEF Takes
<1>4. t + p = b + r /\ b > 0 /\ (b = Burst(Rate(k)) \/ Forged(k, b))
  BY DEF SoundLimiter
<1> HIDE DEF b, t, p, r, new
<1>5. ASSUME t > 0
      PROVE  /\ t - 1 \in Nat /\ p + 1 \in Nat /\ p <= p + 1
             /\ (t - 1) + (p + 1) = b + r
  BY <1>1, <1>4, <1>5
<1>6. ASSUME ~ (t > 0) PROVE p >= b
  BY <1>1, <1>4, <1>6
<1>7. new.burst = b /\ new.tokens = t - 1 /\ new.passed = p + 1 /\ new.refilled = r
  BY <1>2
<1>8. t > 0 => new \in Limiters
  BY <1>1, <1>2, <1>5 DEF Limiters
<1>9. t > 0 => SoundLimiter(k, new)
  BY <1>4, <1>5, <1>7, Zenon DEF SoundLimiter
<1>10. t > 0 => p <= new.passed
  BY <1>5, <1>7, Zenon
<1>11. QED
  BY <1>3, <1>4, <1>6, <1>7, <1>8, <1>9, <1>10 DEF b, p, new

\* What Allow makes of the limiters of a key, one of which may be new.
LEMMA Allowed ==
    ASSUME AInv, NEW w \in Workers, NEW stage, NEW k \in LimiterKeys,
           k \in OwnKeys(request[w]), NEW made \in Seq(Limiters), NEW i \in 1 .. Len(made),
           Len(buckets[k]) <= Len(made),
           \A j \in 1 .. Len(buckets[k]) : made[j] = buckets[k][j],
           \A j \in 1 .. Len(made) : SoundLimiter(k, made[j]),
           Allow(w, stage, k, made, i)
    PROVE  /\ buckets' \in [LimiterKeys -> Seq(Limiters)] /\ Len(buckets'[k]) = Len(made)
           /\ \A q \in LimiterKeys \ {k} : buckets'[q] = buckets[q]
           /\ Grown /\ BucketInv'
           /\ \/ Proceed(w, stage)
              \/ Answer(w, stage, "limited") /\ Spent(request[w])'
<1>1. ATypeOK /\ BucketInv /\ scenario' = scenario /\ request' = request
  BY DEF AInv, Allow, given
<1>2. \A q, n : /\ Burst(Rate(q))' = Burst(Rate(q))
                /\ Forged(q, n)' <=> Forged(q, n)
  BY <1>1 DEF Rate, Service, Burst, Forged
<1>3. buckets \in [LimiterKeys -> Seq(Limiters)] /\ buckets[k] \in Seq(Limiters)
      /\ Len(buckets[k]) \in Nat /\ Len(made) \in Nat
  <2>1. buckets \in [LimiterKeys -> Seq(Limiters)]
    BY <1>1 DEF ATypeOK
  <2>2. QED
    BY <2>1
<1>4. \A j \in 1 .. Len(made) : made[j] \in Limiters
  OBVIOUS
<1> DEFINE lim == LetOneThrough(made[i])
           next == IF Takes(made[i].tokens) THEN [made EXCEPT ![i] = lim] ELSE made
<1>6. Takes(made[i].tokens) =>
         /\ lim \in Limiters /\ SoundLimiter(k, lim) /\ lim.burst = made[i].burst
         /\ made[i].passed <= lim.passed
  BY <1>4, AllowedOne
<1>7. ~ Takes(made[i].tokens) => made[i].burst > 0 /\ made[i].passed >= made[i].burst
  BY <1>4, AllowedOne
<1>8. buckets' = [buckets EXCEPT ![k] = next]
  <2>1. CASE Takes(made[i].tokens)
    <3>1. buckets' = [buckets EXCEPT ![k] = [made EXCEPT ![i] = lim]]
      BY <2>1 DEF Allow
    <3>2. QED
      BY <2>1, <3>1
  <2>2. CASE ~ Takes(made[i].tokens)
    <3>1. buckets' = [buckets EXCEPT ![k] = made]
      BY <2>2 DEF Allow
    <3>2. QED
      BY <2>2, <3>1
  <2>3. QED
    BY <2>1, <2>2
<1>9. /\ Takes(made[i].tokens) => Proceed(w, stage)
      /\ ~ Takes(made[i].tokens) => Answer(w, stage, "limited")
  BY DEF Allow
<1> HIDE DEF lim
<1>10. next \in Seq(Limiters) /\ Len(next) = Len(made)
  BY <1>3, <1>4, <1>6
<1>11. ASSUME NEW j \in 1 .. Len(made)
       PROVE  /\ SoundLimiter(k, next[j]) /\ next[j].burst = made[j].burst
              /\ made[j].passed <= next[j].passed
  <2>1. made[j].passed \in Nat /\ made[j].passed <= made[j].passed
    <3>1. made[j] \in Limiters
      BY <1>4
    <3>2. made[j].passed \in Nat
      BY <3>1 DEF Limiters
    <3>3. QED
      BY <3>2
  <2>2. CASE Takes(made[i].tokens) /\ j = i
    <3>1. next[j] = lim
      BY <2>2, <1>3
    <3>2. QED
      BY <1>6, <2>2, <3>1
  <2>3. CASE ~ (Takes(made[i].tokens) /\ j = i)
    <3>1. next[j] = made[j]
      BY <2>3, <1>3
    <3>2. QED
      BY <2>1, <3>1
  <2>4. QED
    BY <2>2, <2>3
<1>12. ~ Takes(made[i].tokens) => next = made
  OBVIOUS
<1> HIDE DEF next
<1>13. buckets'[k] = next /\ \A q \in LimiterKeys \ {k} : buckets'[q] = buckets[q]
  BY <1>3, <1>8
<1>14. buckets' \in [LimiterKeys -> Seq(Limiters)]
  BY <1>3, <1>8, <1>10
<1>15. Grown
  <2>1. ASSUME NEW q \in LimiterKeys, NEW j \in DOMAIN buckets[q]
        PROVE  /\ j \in DOMAIN buckets'[q] /\ buckets'[q][j].burst = buckets[q][j].burst
               /\ buckets[q][j].passed <= buckets'[q][j].passed
    <3>1. CASE q = k
      <4>1. j \in 1 .. Len(buckets[k]) /\ j \in 1 .. Len(made) /\ DOMAIN next = 1 .. Len(made)
        BY <1>3, <1>10, <3>1
      <4>2. QED
        BY <1>11, <1>13, <3>1, <4>1
    <3>2. CASE q # k
      <4>1. buckets[q][j].passed \in Nat
        BY <1>1, LimiterTypes
      <4>2. buckets[q][j].passed <= buckets[q][j].passed
        BY <4>1
      <4>3. QED
        BY <1>13, <3>2, <4>2
    <3>3. QED
      BY <3>1, <3>2
  <2>2. QED
    BY <2>1 DEF Grown
<1>16. BucketInv'
  <2>1. ASSUME NEW q \in LimiterKeys, NEW j \in DOMAIN buckets'[q]
        PROVE  SoundLimiter(q, buckets'[q][j])
    <3>1. CASE q = k
      <4>1. j \in 1 .. Len(made)
        BY <1>3, <1>10, <1>13, <3>1
      <4>2. QED
        BY <1>11, <1>13, <3>1, <4>1
    <3>2. CASE q # k
      BY <1>1, <1>13, <3>2 DEF BucketInv
    <3>3. QED
      BY <3>1, <3>2
  <2>2. QED
    BY <1>2, <2>1 DEF BucketInv, SoundLimiter
<1>17. ~ Takes(made[i].tokens) => Spent(request[w])'
  <2>1. i \in DOMAIN made
    BY <1>3
  <2>2. k \in OwnKeys(request[w])'
    BY <1>1, SameRequest
  <2>3. QED
    BY <1>7, <1>12, <1>13, <2>1, <2>2 DEF Spent
<1>18. QED
  BY <1>9, <1>10, <1>13, <1>14, <1>15, <1>16, <1>17

LimitStages == {"serviceLimit", "clientLimit", "jwtFlowLimit"}

\* What is left to show of a step that asks a limiter.
LEMMA LimitStep ==
    ASSUME AInv, NEW w \in Workers, NEW stage \in LimitStages, Unaffected, CacheSound(w),
           Proceed(w, stage) \/ (Answer(w, stage, "limited") /\ Spent(request[w])'),
           app' = app, counted' = counted
    PROVE  AInv'
<1>1. /\ stage \in Stages \ {"totalCount", "serviceCount", "reverseProxy"}
      /\ stage # "accessMode" /\ stage # "jwtAuth" /\ stage # "whiteList"
      /\ stage # "blackList"
  BY StagesAre DEF LimitStages
<1>2. CountSound(w, stage)
  BY <1>1, CountsLeft
<1>3. \A c \in ChainCounters : counted'[c] = counted[c]
  OBVIOUS
<1>4. CASE Proceed(w, stage)
  BY <1>1, <1>2, <1>4, StepPasses
<1>5. CASE Answer(w, stage, "limited") /\ Spent(request[w])'
  <2>1. "limited" \in Answers
    BY DEF Answers
  <2>2. QED
    BY <1>1, <1>2, <1>3, <1>5, <2>1, StepAnswers DEF CountSound
<1>6. QED
  BY <1>4, <1>5

LEMMA UseKeeps ==
    ASSUME AInv, NEW w \in Workers, NEW stage \in LimitStages, NEW k \in LimiterKeys,
           k \in OwnKeys(request[w]), Found(w, k), Allow(w, stage, k, buckets[k], found[k])
    PROVE  AInv'
<1>1. /\ found[k] > 0 /\ making[w] = NoKey /\ Unaffected /\ app' = app
      /\ making' = making /\ found' = found /\ crowded' = crowded /\ refills' = refills
      /\ counted' = counted
  BY DEF Found, Allow, Unaffected, given, cache
<1>2. ATypeOK /\ BucketInv
  BY DEF AInv
<1>3. buckets[k] \in Seq(Limiters) /\ found[k] \in Nat /\ found[k] <= Len(buckets[k])
      /\ Len(buckets[k]) \in Nat /\ DOMAIN buckets[k] = 1 .. Len(buckets[k])
  BY <1>2, LimiterTypes, KeyKinds DEF ATypeOK
<1>4. found[k] \in 1 .. Len(buckets[k]) /\ Len(buckets[k]) <= Len(buckets[k])
  BY <1>1, <1>3
<1>5. \A j \in 1 .. Len(buckets[k]) : SoundLimiter(k, buckets[k][j])
  BY <1>2, <1>3 DEF BucketInv
<1>6. /\ buckets' \in [LimiterKeys -> Seq(Limiters)] /\ Len(buckets'[k]) = Len(buckets[k])
      /\ \A q \in LimiterKeys \ {k} : buckets'[q] = buckets[q]
      /\ Grown /\ BucketInv'
      /\ Proceed(w, stage) \/ (Answer(w, stage, "limited") /\ Spent(request[w])')
  BY <1>3, <1>4, <1>5, Allowed
<1>7. \A q \in LimiterKeys : Len(buckets'[q]) = Len(buckets[q])
  BY <1>6
<1>8. CacheSound(w)
  <2>1. CacheInv'
    BY <1>1, <1>7, CacheLoses
  <2>2. making' = [making EXCEPT ![w] = NoKey]
    BY <1>1, <1>2 DEF ATypeOK
  <2>3. found' \in [Keys -> Nat] /\ \A q \in LimiterKeys : found'[q] <= Len(buckets'[q])
    BY <1>1, <1>2, <1>7 DEF ATypeOK
  <2>4. QED
    BY <1>1, <1>6, <2>1, <2>2, <2>3 DEF CacheSound
<1>9. QED
  BY <1>1, <1>6, <1>8, LimitStep

LEMMA MakeKeeps ==
    ASSUME AInv, NEW w \in Workers, NEW stage \in LimitStages, NEW k \in LimiterKeys,
           k \in OwnKeys(request[w]), NEW qps \in Nat \ {0},
           Burst(qps) = Burst(Rate(k)) \/ Forged(k, Burst(qps)),
           Keep(w, k, Len(buckets[k]) + 1),
           Allow(w, stage, k, Append(buckets[k], NewLimiter(qps)), Len(buckets[k]) + 1)
    PROVE  AInv'
<1> DEFINE n == Len(buckets[k]) + 1
           made == Append(buckets[k], NewLimiter(qps))
<1>1. /\ making[w] = k /\ making' = [making EXCEPT ![w] = NoKey] /\ Unaffected
      /\ app' = app /\ crowded' = crowded /\ refills' = refills /\ counted' = counted
  BY DEF Keep, Allow, Unaffected, given
<1>2. \/ found' = [found EXCEPT ![k] = n]
      \/ Cache(k) \in crowded /\ found' = found
  BY DEF Keep
<1>3. ATypeOK /\ BucketInv /\ CacheInv /\ k \in Keys /\ Cache(k) = "limiter"
  BY KeyKinds DEF AInv
<1>4. found \in [Keys -> Nat] /\ found[k] <= Len(buckets[k])
      /\ making \in [Workers -> Keys \cup {NoKey}]
  BY <1>3 DEF ATypeOK
<1>5. buckets[k] \in Seq(Limiters) /\ Len(buckets[k]) \in Nat
      /\ DOMAIN buckets[k] = 1 .. Len(buckets[k])
  BY <1>3, LimiterTypes
<1>6. NewLimiter(qps) \in Limiters /\ SoundLimiter(k, NewLimiter(qps))
  <2> DEFINE b == Burst(qps)
  <2>1. b \in Nat /\ b > 0 /\ b + 0 = b
    BY DEF Burst
  <2>2. NewLimiter(qps) = [burst |-> b, tokens |-> b, passed |-> 0, refilled |-> 0]
    BY DEF NewLimiter
  <2>3. b = Burst(Rate(k)) \/ Forged(k, b)
    OBVIOUS
  <2> HIDE DEF b
  <2>4. QED
    BY <2>1, <2>2, <2>3 DEF Limiters, SoundLimiter
<1>7. /\ made \in Seq(Limiters) /\ Len(made) = n /\ made[n] = NewLimiter(qps)
      /\ \A j \in 1 .. Len(buckets[k]) : made[j] = buckets[k][j]
  BY <1>5, <1>6
<1>8. n \in Nat /\ n # 0 /\ n \in 1 .. n /\ Len(buckets[k]) <= n
      /\ \A j \in 1 .. n : j = n \/ j \in 1 .. Len(buckets[k])
  BY <1>5
<1>9. Allow(w, stage, k, made, n)
  OBVIOUS
<1> HIDE DEF made
<1>10. \A j \in 1 .. n : SoundLimiter(k, made[j])
  <2>1. ASSUME NEW j \in 1 .. Len(buckets[k]) PROVE SoundLimiter(k, made[j])
    BY <1>3, <1>5, <1>7 DEF BucketInv
  <2> HIDE DEF n
  <2>2. QED
    BY <1>6, <1>7, <1>8, <2>1
<1> HIDE DEF n
<1>11. /\ buckets' \in [LimiterKeys -> Seq(Limiters)] /\ Len(buckets'[k]) = n
       /\ \A q \in LimiterKeys \ {k} : buckets'[q] = buckets[q]
       /\ Grown /\ BucketInv'
       /\ Proceed(w, stage) \/ (Answer(w, stage, "limited") /\ Spent(request[w])')
  <2>1. /\ made \in Seq(Limiters) /\ n \in 1 .. Len(made) /\ Len(buckets[k]) <= Len(made)
        /\ \A j \in 1 .. Len(buckets[k]) : made[j] = buckets[k][j]
        /\ \A j \in 1 .. Len(made) : SoundLimiter(k, made[j])
    BY <1>7, <1>8, <1>10
  <2>2. /\ buckets' \in [LimiterKeys -> Seq(Limiters)] /\ Len(buckets'[k]) = Len(made)
        /\ \A q \in LimiterKeys \ {k} : buckets'[q] = buckets[q]
        /\ Grown /\ BucketInv'
        /\ Proceed(w, stage) \/ (Answer(w, stage, "limited") /\ Spent(request[w])')
    BY <1>9, <2>1, Allowed
  <2>3. QED
    BY <1>7, <2>2
<1>12. making'[w] = NoKey /\ \A u \in Workers \ {w} : making'[u] = making[u]
  <2>1. making' = [making EXCEPT ![w] = NoKey] /\ making \in [Workers -> Keys \cup {NoKey}]
    BY <1>1, <1>4
  <2>2. QED
    BY <2>1
<1>13. /\ found' \in [Keys -> Nat]
       /\ \A q \in Keys \ {k} : found'[q] = found[q]
       /\ found'[k] = n \/ (found'[k] = found[k] /\ "limiter" \in crowded)
  <2>1. CASE found' = [found EXCEPT ![k] = n]
    BY <1>3, <1>4, <1>8, <2>1
  <2>2. CASE Cache(k) \in crowded /\ found' = found
    BY <1>3, <1>4, <2>2
  <2>3. QED
    BY <1>2, <2>1, <2>2
<1>14. \A q \in LimiterKeys : found'[q] <= Len(buckets'[q])
  <2>1. found[k] <= n /\ n <= n
    <3> DEFINE m == Len(buckets[k])
    <3>1. found[k] \in Nat /\ m \in Nat /\ found[k] <= m /\ n = m + 1
      BY <1>3, <1>4, <1>5 DEF n
    <3> HIDE DEF m
    <3>2. QED
      BY <3>1
  <2>2. \A q \in LimiterKeys : found[q] <= Len(buckets[q]) /\ q \in Keys
    BY <1>3, KeyKinds DEF ATypeOK
  <2>3. QED
    BY <1>11, <1>13, <2>1, <2>2
<1>15. CacheInv'
  <2> SUFFICES ASSUME "limiter" \notin crowded PROVE CacheInv'
    BY <1>1 DEF CacheInv
  <2>1. \A u \in Workers \ {w} : making[u] \notin LimiterKeys
    BY <1>1, <1>3 DEF CacheInv
  <2>2. \A u \in Workers : making'[u] \notin LimiterKeys
    BY <1>12, <2>1, KeyKinds
  <2>3. Len(buckets[k]) = 0
    BY <1>1, <1>3 DEF CacheInv
  <2>4. n = 1
    BY <2>3 DEF n
  <2>5. ASSUME NEW q \in LimiterKeys
        PROVE  Len(buckets'[q]) <= 1 /\ (found'[q] = 0 => Len(buckets'[q]) = 0)
    <3>1. CASE q = k
      <4>1. Len(buckets'[q]) = 1 /\ found'[q] # 0
        BY <1>11, <1>13, <2>4, <3>1
      <4>2. QED
        BY <4>1
    <3>2. CASE q # k
      <4>1. buckets'[q] = buckets[q] /\ found'[q] = found[q]
        BY <1>11, <1>13, <3>2, KeyKinds
      <4>2. QED
        BY <1>3, <4>1 DEF CacheInv
    <3>3. QED
      BY <3>1, <3>2
  <2>6. QED
    BY <2>2, <2>5 DEF CacheInv
<1>16. CacheSound(w)
  BY <1>1, <1>11, <1>13, <1>14, <1>15 DEF CacheSound
<1>17. QED
  BY <1>1, <1>11, <1>16, LimitStep

LEMMA LimitKeeps ==
    ASSUME AInv, NEW w \in Workers, NEW stage \in LimitStages, NEW k \in LimiterKeys,
           NEW qps \in Nat \ {0}, at[w] = stage => k \in OwnKeys(request[w]) /\ k \in Wants(w),
           at[w] = stage => Burst(qps) = Burst(Rate(k)) \/ Forged(k, Burst(qps)),
           Limit(w, stage, k, qps)
    PROVE  AInv'
<1>1. stage \in Stages /\ k \in Keys
  BY StagesAre, KeyKinds DEF LimitStages
<1>2. CASE Miss(w, stage, k)
  BY <1>1, <1>2, MissKeeps
<1>3. CASE Fault(w, stage, k)
  BY <1>1, <1>3, FaultKeeps
<1>4. CASE Found(w, k) /\ Allow(w, stage, k, buckets[k], found[k])
  <2>1. at[w] = stage
    BY <1>4 DEF Allow, Proceed, Answer, Reply
  <2>2. QED
    BY <1>4, <2>1, UseKeeps
<1>5. CASE /\ Keep(w, k, Len(buckets[k]) + 1)
           /\ Allow(w, stage, k, Append(buckets[k], NewLimiter(qps)), Len(buckets[k]) + 1)
  <2>1. at[w] = stage
    BY <1>5 DEF Allow, Proceed, Answer, Reply
  <2>2. QED
    BY <1>5, <2>1, MakeKeeps
<1>6. QED
  BY <1>2, <1>3, <1>4, <1>5 DEF Limit

\* Without a limit there is nothing to ask.
LEMMA NoLimitKeeps ==
    ASSUME AInv, NEW w \in Workers, NEW stage \in LimitStages,
           at[w] = stage => Wants(w) = {}, GoOn(w, stage)
    PROVE  AInv'
<1>1. /\ stage \in Stages \ {"totalCount", "serviceCount", "reverseProxy"}
      /\ stage # "accessMode" /\ stage # "jwtAuth" /\ stage # "whiteList"
      /\ stage # "blackList"
  BY StagesAre DEF LimitStages
<1>2. /\ Proceed(w, stage) /\ app' = app /\ UNCHANGED <<given, cache, limiters, counted>>
  BY DEF GoOn
<1>3. Wants(w) = {}
  BY <1>2 DEF Proceed
<1>4. QED
  BY <1>1, <1>2, <1>3, QuietPass

LEMMA FlowLimitKeeps ==
    ASSUME AInv, NEW w \in Workers, FlowLimit(w)
    PROVE  AInv'
<1> DEFINE p == Protocol(w)
           a == Seen(request[w])
           s == ServiceKey(p)
           c == ClientKey(p, a)
<1>1. p \in Protocols /\ p = request[w].protocol /\ a \in SeenClients
  BY RequestTypes, SeenTypes DEF AInv, Protocol
<1>2. /\ s \in LimiterKeys /\ Rate(s) = Service(p).serviceLimit
      /\ c \in LimiterKeys /\ Rate(c) = Service(p).clientLimit
      /\ Service(p).serviceLimit \in Nat /\ Service(p).clientLimit \in Nat
  BY <1>1, KeysAsked, PolicyTypes DEF AInv
<1>3. s \in OwnKeys(request[w]) /\ c \in OwnKeys(request[w])
  BY <1>1, <1>2 DEF OwnKeys
<1>4. "serviceLimit" \in LimitStages /\ "clientLimit" \in LimitStages
  BY DEF LimitStages
<1>5. /\ at[w] = "serviceLimit" => Wants(w) = If(Service(p).serviceLimit > 0, s)
      /\ at[w] = "clientLimit" => Wants(w) = If(Service(p).clientLimit > 0, c)
  BY DEF Wants
<1>6. \/ LimitIfSet(w, "serviceLimit", s, Service(p).serviceLimit)
      \/ LimitIfSet(w, "clientLimit", c, Service(p).clientLimit)
  BY DEF FlowLimit
<1> DEFINE m == Service(p).serviceLimit
           n == Service(p).clientLimit
<1>7. CASE LimitIfSet(w, "serviceLimit", s, m)
  <2>1. CASE m > 0
    <3>1. m \in Nat \ {0} /\ Limit(w, "serviceLimit", s, m) /\ Burst(m) = Burst(Rate(s))
      BY <1>2, <1>7, <2>1 DEF LimitIfSet
    <3>2. at[w] = "serviceLimit" => s \in Wants(w)
      BY <1>5, <2>1 DEF If
    <3> HIDE DEF m, s
    <3>3. QED
      BY <1>2, <1>3, <1>4, <3>1, <3>2, LimitKeeps
  <2>2. CASE ~ (m > 0)
    BY <1>4, <1>5, <1>7, <2>2, NoLimitKeeps DEF LimitIfSet, If
  <2>3. QED
    BY <2>1, <2>2
<1>8. CASE LimitIfSet(w, "clientLimit", c, n)
  <2>1. CASE n > 0
    <3>1. n \in Nat \ {0} /\ Limit(w, "clientLimit", c, n) /\ Burst(n) = Burst(Rate(c))
      BY <1>2, <1>8, <2>1 DEF LimitIfSet
    <3>2. at[w] = "clientLimit" => c \in Wants(w)
      BY <1>5, <2>1 DEF If
    <3> HIDE DEF n, c
    <3>3. QED
      BY <1>2, <1>3, <1>4, <3>1, <3>2, LimitKeeps
  <2>2. CASE ~ (n > 0)
    BY <1>4, <1>5, <1>8, <2>2, NoLimitKeeps DEF LimitIfSet, If
  <2>3. QED
    BY <2>1, <2>2
<1>9. QED
  BY <1>6, <1>7, <1>8

LEMMA JwtFlowCountKeeps ==
    ASSUME AInv, NEW w \in Workers, JwtFlowCount(w)
    PROVE  AInv'
<1> DEFINE id == app[w].id
           qpd == app[w].qpd
           stage == "jwtFlowCount"
<1>1. ATypeOK /\ AdmittedOK(w) /\ app[w] \in Carried
  BY DEF AInv, RequestsOK, ATypeOK
<1>2. /\ stage \in Stages \ {"totalCount", "serviceCount", "reverseProxy"}
      /\ stage # "accessMode" /\ stage # "jwtAuth" /\ stage # "whiteList"
      /\ stage # "blackList" /\ stage \in PastToken
  BY StagesAre DEF PastToken
<1>3. at[w] = stage => Wants(w) = If(id \in AppIds, CounterKey(id))
  BY DEF Wants
<1>4. id \in AppIds => id \in Counters /\ CounterKey(id) \in Keys /\ id \notin ChainCounters
  BY KeyKinds, IdsApart DEF Counters
<1>5. at[w] = stage /\ id \notin AppIds => Wants(w) = {}
  BY <1>3 DEF If
<1>6. CASE app[w] = NoApp /\ GoOn(w, stage)
  <2>1. id \notin AppIds
    BY <1>6, IdsApart DEF NoApp
  <2>2. /\ Proceed(w, stage) /\ app' = app /\ UNCHANGED <<given, cache, limiters, counted>>
        /\ at[w] = stage
    BY <1>6 DEF GoOn, Proceed
  <2>3. QED
    BY <1>2, <1>5, <2>1, <2>2, QuietPass
<1>7. CASE /\ app[w] = Malformed /\ Answer(w, stage, "invalidApp")
           /\ UNCHANGED <<given, app, cache, limiters, counted>>
  <2>1. id \notin AppIds
    BY <1>7, IdsApart DEF Malformed
  <2>2. at[w] = stage /\ "invalidApp" \in Answers \ {"overQuota", "limited"}
    BY <1>7 DEF Answer, Reply, Answers
  <2>3. QED
    BY <1>2, <1>5, <1>7, <2>1, <2>2, QuietAnswer
<1>8. CASE /\ id \in AppIds
           /\ Miss(w, stage, CounterKey(id)) \/ Fault(w, stage, CounterKey(id))
  <2>1. at[w] = stage => CounterKey(id) \in Wants(w)
    BY <1>3, <1>8 DEF If
  <2>2. QED
    BY <1>2, <1>4, <1>8, <2>1, MissKeeps, FaultKeeps
<1>9. ASSUME id \in AppIds, Increase(w, id), NEW total \in 0 .. counted[id] + 1,
             UNCHANGED <<given, app, limiters>>,
             \/ qpd > 0 /\ total > qpd /\ Answer(w, stage, "overQuota")
             \/ Proceed(w, stage)
      PROVE  AInv'
  <2>1. /\ Unaffected /\ app' = app /\ scenario' = scenario /\ request' = request
        /\ UNCHANGED limiters
    BY <1>9 DEF Unaffected, given
  <2>2. /\ CacheSound(w)
        /\ counted' \in [Counters -> Nat] /\ CountedGrows
        /\ \A d \in Counters : counted'[d] = counted[d] + (IF d = id THEN 1 ELSE 0)
    BY <1>4, <1>9, <2>1, IncreaseSound
  <2>3. \A c \in ChainCounters : counted'[c] = counted[c]
    <3>1. ASSUME NEW c \in ChainCounters PROVE counted'[c] = counted[c]
      <4>1. c \in Counters /\ c # id
        BY <1>4, <1>9 DEF ChainCounters, Counters
      <4>2. counted[c] \in Nat /\ counted'[c] = counted[c] + 0
        BY <1>1, <2>2, <4>1 DEF ATypeOK
      <4>3. QED
        BY <4>2
    <3>2. QED
      BY <3>1
  <2>4. CASE Proceed(w, stage)
    <3>1. \A c \in ChainCounters : CountsAt(c, stage, Protocol(w)) = 0 /\ counted[c] \in Nat
      BY <1>1 DEF CountsAt, One, ATypeOK, ChainCounters, Counters
    <3>2. \A n \in Nat : n + 0 = n
      OBVIOUS
    <3>3. \A c \in ChainCounters : counted'[c] = counted[c] + CountsAt(c, stage, Protocol(w))
      BY <2>3, <3>1, <3>2
    <3>4. CountSound(w, stage)
      BY <2>2, <3>3 DEF CountSound
    <3>5. QED
      BY <1>2, <2>1, <2>2, <2>4, <3>4, StepPasses
  <2>5. CASE qpd > 0 /\ total > qpd /\ Answer(w, stage, "overQuota")
    <3>1. at[w] = stage
      BY <2>5 DEF Answer, Reply
    <3>2. app[w] = TenantOf(request[w])
      BY <1>1, <1>2, <3>1 DEF AdmittedOK
    <3>3. TenantOf(request[w])' = app[w]
      BY <2>1, <3>2, SameRequest
    <3>4. counted'[id] > qpd
      <4> DEFINE n == counted[id]
                 m == counted'[id]
      <4>1. n \in Nat /\ qpd \in Nat /\ total \in 0 .. n + 1 /\ total > qpd /\ m = n + 1
        BY <1>1, <1>4, <1>9, <2>2, <2>5, CarriedTypes DEF ATypeOK
      <4> HIDE DEF n, m, qpd
      <4>2. QED
        BY <4>1 DEF m
    <3>5. Exceeded(request[w])'
      BY <1>9, <2>5, <3>3, <3>4 DEF Exceeded
    <3>6. "overQuota" \in Answers
      BY DEF Answers
    <3>7. QED
      BY <1>2, <2>1, <2>2, <2>3, <2>5, <3>5, <3>6, StepAnswers
  <2>6. QED
    BY <1>9, <2>4, <2>5
<1>10. QED
  BY <1>6, <1>7, <1>8, <1>9 DEF JwtFlowCount

LEMMA JwtFlowLimitKeeps ==
    ASSUME AInv, NEW w \in Workers, JwtFlowLimit(w)
    PROVE  AInv'
<1> DEFINE id == app[w].id
           qps == app[w].qps
           r == request[w]
           a == Seen(r)
           k == AppKey(id, a)
           stage == "jwtFlowLimit"
<1>1. ATypeOK /\ AdmittedOK(w) /\ app[w] \in Carried /\ r \in Requests /\ a \in SeenClients
      /\ r \in scenario.arriving /\ r.token \in Tokens
  BY RequestTypes, SeenTypes DEF AInv, RequestsOK, ATypeOK
<1>2. stage \in LimitStages
  BY DEF LimitStages
<1>3. at[w] = stage => Wants(w) = If(qps > 0, k)
  BY DEF Wants
<1>4. CASE qps > 0
  <2>1. qps \in Nat \ {0} /\ id \in AppIds
    BY <1>1, <1>4, CarriedTypes
  <2>2. /\ \A q \in AppIds : AppKey(q, a) \in LimiterKeys
        /\ \A q \in Apps : Rate(AppKey(q, a)) = scenario.rows[q].qps
    BY <1>1, KeysAsked DEF Protocols
  <2>3. k \in LimiterKeys
    BY <2>1, <2>2
  <2>4. ASSUME at[w] = stage
        PROVE  /\ k \in OwnKeys(r) /\ k \in Wants(w)
               /\ Burst(qps) = Burst(Rate(k)) \/ Forged(k, Burst(qps))
    <3>1. TokenFine(r) /\ app[w] = TenantOf(r)
      BY <1>1, <2>4 DEF AdmittedOK, PastToken
    <3>2. k \in OwnKeys(r)
      BY <2>3, <3>1 DEF OwnKeys
    <3>3. k \in Wants(w)
      BY <1>3, <1>4, <2>4 DEF If
    <3>4. CASE r.protocol # "tcp" /\ r.token \in Apps
      <4>1. app[w] = scenario.rows[r.token] /\ id = r.token
        BY <1>1, <3>1, <3>4, ScenarioTypes DEF TenantOf
      <4>2. Rate(k) = qps
        BY <2>2, <3>4, <4>1
      <4>3. QED
        BY <3>2, <3>3, <4>2
    <3>5. CASE r.protocol = "grpc" /\ r.token \notin Apps
      <4>1. app[w] = r.carried
        BY <3>1, <3>5 DEF TenantOf
      <4>2. r.token # "invalid" /\ ~ Service("grpc").openAuth
        BY <3>1, <3>5 DEF TokenFine, TokenOK
      <4>3. k[1] = "app" /\ k[2] = id
        BY DEF AppKey
      <4>4. Forged(k, Burst(qps))
        BY <1>1, <3>5, <4>1, <4>2, <4>3 DEF Forged
      <4>5. QED
        BY <3>2, <3>3, <4>4
    <3>6. CASE ~ (r.protocol # "tcp" /\ r.token \in Apps)
               /\ ~ (r.protocol = "grpc" /\ r.token \notin Apps)
      <4>1. app[w] = NoApp
        BY <3>1, <3>6 DEF TenantOf
      <4>2. QED
        BY <1>4, <4>1 DEF NoApp
    <3>7. QED
      BY <3>4, <3>5, <3>6
  <2>5. Limit(w, stage, k, qps)
    BY <1>4 DEF JwtFlowLimit, LimitIfSet
  <2> HIDE DEF k, qps, stage
  <2>6. QED
    BY <1>2, <2>1, <2>3, <2>4, <2>5, LimitKeeps
<1>5. CASE ~ (qps > 0)
  BY <1>2, <1>3, <1>5, NoLimitKeeps DEF JwtFlowLimit, LimitIfSet, If
<1>6. QED
  BY <1>4, <1>5

\* Time gives a limiter a token back.
LEMMA RefillKeeps ==
    ASSUME AInv, NEW k \in LimiterKeys, NEW i \in 1 .. Len(buckets[k]), Refill(k, i)
    PROVE  AInv'
<1> DEFINE old == buckets[k][i]
           b == old.burst
           t == old.tokens
           p == old.passed
           r == old.refilled
           new == Refilled(old)
<1>1. /\ refills < MaxRefills /\ refills' = refills + 1
      /\ buckets' = [buckets EXCEPT ![k] = [buckets[k] EXCEPT ![i] = new]]
      /\ scenario' = scenario /\ at' = at /\ request' = request /\ app' = app
      /\ answer' = answer /\ arrived' = arrived /\ overlapped' = overlapped
      /\ making' = making /\ found' = found /\ crowded' = crowded
      /\ counted' = counted /\ answers' = answers /\ missed' = missed
  BY DEF Refill, given, cache, replies
<1>2. ATypeOK /\ BucketInv
  BY DEF AInv
<1>3. buckets \in [LimiterKeys -> Seq(Limiters)] /\ buckets[k] \in Seq(Limiters)
      /\ old \in Limiters /\ DOMAIN buckets[k] = 1 .. Len(buckets[k])
  <2>1. buckets \in [LimiterKeys -> Seq(Limiters)] /\ buckets[k] \in Seq(Limiters)
    BY <1>2 DEF ATypeOK
  <2>2. QED
    BY <2>1
<1>4. /\ b \in Nat /\ t \in Nat /\ p \in Nat /\ r \in Nat /\ t + p = b + r /\ b > 0
      /\ b = Burst(Rate(k)) \/ Forged(k, b)
  <2>1. SoundLimiter(k, old)
    BY <1>2, <1>3 DEF BucketInv
  <2>2. QED
    BY <1>3, <2>1 DEF Limiters, SoundLimiter
<1>5. new = [burst |-> b, tokens |-> t + 1, passed |-> p, refilled |-> r + 1]
  <2>1. old = [burst |-> b, tokens |-> t, passed |-> p, refilled |-> r]
    BY <1>3 DEF Limiters
  <2>2. new = [old EXCEPT !.tokens = t + 1, !.refilled = r + 1]
    BY DEF Refilled
  <2> HIDE DEF b, t, p, r, new, old
  <2>3. QED
    BY <2>1, <2>2
<1> HIDE DEF b, t, p, r, new
<1>6. new.burst = b /\ new.tokens = t + 1 /\ new.passed = p /\ new.refilled = r + 1
  BY <1>5
<1>7. /\ new \in Limiters /\ SoundLimiter(k, new)
      /\ new.burst = old.burst /\ old.passed <= new.passed
  <2>1. t + 1 \in Nat /\ r + 1 \in Nat /\ (t + 1) + p = b + (r + 1) /\ p <= p
    BY <1>4
  <2>2. new \in Limiters
    BY <1>4, <1>5, <2>1 DEF Limiters
  <2>3. SoundLimiter(k, new)
    BY <1>4, <1>6, <2>1, Zenon DEF SoundLimiter
  <2>4. QED
    BY <1>6, <2>1, <2>2, <2>3 DEF p, b
<1>8. /\ buckets' \in [LimiterKeys -> Seq(Limiters)] /\ buckets'[k][i] = new
      /\ \A q \in LimiterKeys : Len(buckets'[q]) = Len(buckets[q])
      /\ \A q \in LimiterKeys : DOMAIN buckets'[q] = DOMAIN buckets[q]
      /\ \A q \in LimiterKeys : \A j \in DOMAIN buckets[q] :
            q # k \/ j # i => buckets'[q][j] = buckets[q][j]
  <2> DEFINE next == [buckets[k] EXCEPT ![i] = new]
  <2>1. /\ next \in Seq(Limiters) /\ Len(next) = Len(buckets[k]) /\ next[i] = new
        /\ DOMAIN next = DOMAIN buckets[k]
        /\ \A j \in DOMAIN buckets[k] : j # i => next[j] = buckets[k][j]
    BY <1>3, <1>7
  <2>2. buckets' = [buckets EXCEPT ![k] = next]
    BY <1>1
  <2> HIDE DEF next
  <2>3. buckets'[k] = next /\ \A q \in LimiterKeys \ {k} : buckets'[q] = buckets[q]
    BY <1>3, <2>2
  <2>4. buckets' \in [LimiterKeys -> Seq(Limiters)]
    BY <1>3, <2>1, <2>2
  <2>5. QED
    BY <2>1, <2>3, <2>4
<1>9. ATypeOK'
  <2>1. refills' \in 0 .. MaxRefills
    <3>1. refills \in 0 .. MaxRefills /\ MaxRefills \in Nat
      BY <1>2, AccessChainAssumption DEF ATypeOK
    <3>2. QED
      BY <1>1, <3>1
  <2>2. \A q \in LimiterKeys : found'[q] <= Len(buckets'[q])
    BY <1>1, <1>2, <1>8 DEF ATypeOK
  <2>3. QED
    BY <1>1, <1>2, <1>8, <2>1, <2>2 DEF ATypeOK
<1>10. Grown
  <2>1. ASSUME NEW q \in LimiterKeys, NEW j \in DOMAIN buckets[q]
        PROVE  /\ buckets'[q][j].burst = buckets[q][j].burst
               /\ buckets[q][j].passed <= buckets'[q][j].passed
    <3>1. CASE q = k /\ j = i
      BY <1>7, <1>8, <3>1
    <3>2. CASE ~ (q = k /\ j = i)
      <4>1. buckets[q][j].passed \in Nat
        BY <1>2, LimiterTypes
      <4>2. buckets[q][j].passed <= buckets[q][j].passed
        BY <4>1
      <4>3. QED
        BY <1>8, <3>2, <4>2
    <3>3. QED
      BY <3>1, <3>2
  <2>2. QED
    BY <1>8, <2>1 DEF Grown
<1>11. BucketInv'
  <2>1. ASSUME NEW q \in LimiterKeys, NEW j \in DOMAIN buckets'[q]
        PROVE  SoundLimiter(q, buckets'[q][j])
    <3>1. CASE q = k /\ j = i
      BY <1>7, <1>8, <3>1
    <3>2. CASE ~ (q = k /\ j = i)
      BY <1>2, <1>8, <3>2 DEF BucketInv
    <3>3. QED
      BY <3>1, <3>2
  <2>2. \A q, n : /\ Burst(Rate(q))' = Burst(Rate(q))
                  /\ Forged(q, n)' <=> Forged(q, n)
    BY <1>1 DEF Rate, Service, Burst, Forged
  <2>3. QED
    BY <2>1, <2>2 DEF BucketInv, SoundLimiter
<1>12. RequestsOK'
  <2>1. CountedGrows
    <3>1. \A n \in Nat : n <= n
      OBVIOUS
    <3>2. QED
      BY <1>1, <1>2, <3>1 DEF CountedGrows, ATypeOK
  <2>2. ASSUME NEW g \in Workers PROVE AdmittedOK(g)' /\ RefusedOK(g)'
    <3>1. AdmittedOK(g) /\ RefusedOK(g)
      BY DEF AInv, RequestsOK
    <3>2. QED
      BY <1>1, <1>2, <1>9, <1>10, <2>1, <3>1, LeftAlone
  <2>3. QED
    BY <2>2 DEF RequestsOK
<1>13. CountInv' /\ MakingInv' /\ OverlapInv'
  <2>1. \A c : In(c)' = In(c)
    BY <1>1 DEF In, Protocol
  <2>2. \A g \in Workers : Wants(g)' = Wants(g)
    BY <1>1, WantsSame
  <2>3. \A g : InFlight(g)' <=> InFlight(g)
    BY <1>1 DEF InFlight
  <2>4. CountInv'
    BY <1>1, <2>1 DEF AInv, CountInv
  <2>5. MakingInv'
    BY <1>1, <2>2 DEF AInv, MakingInv
  <2>6. OverlapInv'
    BY <1>1, <2>3 DEF AInv, OverlapInv
  <2>7. QED
    BY <2>4, <2>5, <2>6
<1>14. CacheInv'
  BY <1>1, <1>8, KeyKinds, CacheLoses
<1>15. QED
  BY <1>9, <1>11, <1>12, <1>13, <1>14 DEF AInv

\* A request arrives in the place of one that was answered.
LEMMA ArriveKeeps ==
    ASSUME AInv, NEW w \in Workers, NEW r \in scenario.arriving, Arrive(w, r)
    PROVE  AInv'
<1> DEFINE first == Chain(r.protocol)[1]
<1>1. /\ ~ InFlight(w) /\ arrived < scenario.most
      /\ at' = [at EXCEPT ![w] = first] /\ request' = [request EXCEPT ![w] = r]
      /\ app' = [app EXCEPT ![w] = Brought(r)] /\ answer' = [answer EXCEPT ![w] = ""]
      /\ arrived' = arrived + 1
      /\ overlapped' = (overlapped \/ \E u \in Workers \ {w} : InFlight(u))
      /\ scenario' = scenario /\ making' = making /\ found' = found /\ crowded' = crowded
      /\ buckets' = buckets /\ refills' = refills /\ counted' = counted
      /\ answers' = answers /\ missed' = missed
  BY DEF Arrive, Brought, cache, limiters
<1>2. ATypeOK /\ CountInv /\ OverlapInv /\ at[w] \notin Stages
  BY <1>1 DEF AInv, InFlight
<1>3. /\ r \in Requests /\ r.protocol \in Protocols /\ r.carried \in Carried
      /\ r.protocol # "http" => r.route = "service"
  <2>1. r \in Requests /\ (r.protocol # "http" => r.route = "service")
    BY <1>2, ScenarioTypes
  <2>2. QED
    BY <2>1 DEF Requests
<1>4. /\ first = IF r.protocol = "http" THEN "accessMode" ELSE "totalCount"
      /\ first \in ChainStages(r.protocol) /\ first \in Stages
  BY <1>3, ChainTable
<1> HIDE DEF first
<1>5. Brought(r) \in Carried
  BY <1>3 DEF Brought, Carried
<1>6. /\ at' \in [Workers -> Stages \cup {"idle", "answered"}] /\ at'[w] = first
      /\ request' \in [Workers -> scenario.arriving] /\ request'[w] = r
      /\ app' \in [Workers -> Carried] /\ app'[w] = Brought(r)
      /\ answer' \in [Workers -> Answers \cup {""}] /\ answer'[w] = ""
      /\ \A g \in Workers \ {w} : /\ at'[g] = at[g] /\ request'[g] = request[g]
                                  /\ app'[g] = app[g] /\ answer'[g] = answer[g]
  BY <1>1, <1>2, <1>4, <1>5 DEF ATypeOK
<1>7. arrived' \in 0 .. scenario.most
  <2> DEFINE m == scenario.most
  <2>1. arrived \in 0 .. m /\ m \in Nat /\ arrived < m
    BY <1>1, <1>2, ScenarioTypes DEF ATypeOK
  <2> HIDE DEF m
  <2>2. arrived + 1 \in 0 .. m
    BY <2>1
  <2>3. QED
    BY <1>1, <2>2 DEF m
<1>8. ATypeOK'
  BY <1>1, <1>2, <1>6, <1>7 DEF ATypeOK
<1>9. Grown /\ BucketInv'
  BY <1>1, BucketsSame
<1>10. CountedGrows
  <2>1. \A n \in Nat : n <= n
    OBVIOUS
  <2>2. QED
    BY <1>1, <1>2, <2>1 DEF CountedGrows, ATypeOK
<1>11. AdmittedOK(w)' /\ RefusedOK(w)'
  <2>1. /\ first \notin PastTotal /\ first \notin PastToken
        /\ first # "blackList" /\ first # "reverseProxy" /\ first # "answered"
    BY <1>4 DEF PastTotal, PastToken
  <2>2. first = "totalCount" => r.route = "service"
    BY <1>3, <1>4
  <2>3. ChainStages(r.protocol)' = ChainStages(r.protocol) /\ Brought(r)' = Brought(r)
    BY DEF ChainStages, Brought
  <2>4. AdmittedOK(w)'
    BY <1>4, <1>6, <2>1, <2>2, <2>3 DEF AdmittedOK
  <2>5. RefusedOK(w)'
    BY <1>6 DEF RefusedOK
  <2>6. QED
    BY <2>4, <2>5
<1>12. RequestsOK'
  <2>1. ASSUME NEW g \in Workers \ {w} PROVE AdmittedOK(g)' /\ RefusedOK(g)'
    <3>1. AdmittedOK(g) /\ RefusedOK(g)
      BY DEF AInv, RequestsOK
    <3>2. QED
      BY <1>1, <1>2, <1>6, <1>8, <1>9, <1>10, <3>1, LeftAlone
  <2>2. QED
    BY <1>11, <2>1 DEF RequestsOK
<1>13. CountInv'
  <2>1. /\ at[w] \notin PastTotal /\ at[w] \notin PastService
        /\ first \notin PastTotal /\ first \notin PastService
    BY <1>2, <1>4 DEF PastTotal, PastService
  <2>2. ASSUME NEW c \in ChainCounters PROVE In(c)' = In(c)
    <3>1. \A g \in Workers : g \in In(c)' <=> g \in In(c)
      BY <1>6, <2>1 DEF In, PastOf, Protocol
    <3>2. In(c) \subseteq Workers /\ In(c)' \subseteq Workers
      BY DEF In
    <3>3. QED
      BY <3>1, <3>2
  <2>3. QED
    BY <1>1, <1>2, <2>2 DEF CountInv
<1>14. MakingInv'
  <2>1. Wants(w) = {}
    BY <1>2, StagesAre DEF Wants
  <2>2. making[w] = NoKey
    BY <2>1, NothingMade
  <2>3. ASSUME NEW g \in Workers \ {w} PROVE Wants(g)' = Wants(g)
    BY <1>1, <1>6, WantsSame
  <2>4. QED
    BY <1>1, <2>2, <2>3 DEF AInv, MakingInv
<1>15. CacheInv'
  BY <1>1, CacheLoses
<1>16. OverlapInv'
  <2>1. \A g \in Workers \ {w} : InFlight(g)' <=> InFlight(g)
    BY <1>6 DEF InFlight
  <2>2. overlapped => overlapped'
    BY <1>1
  <2>3. ~ overlapped' => \A u \in Workers \ {w} : ~ InFlight(u)'
    BY <1>1, <2>1
  <2>4. ~ overlapped' => \A u, v \in Workers : InFlight(u)' /\ InFlight(v)' => u = v
    BY <2>3
  <2>5. QED
    BY <1>1, <1>2, <2>2, <2>4 DEF OverlapInv
<1>17. QED
  BY <1>8, <1>9, <1>12, <1>13, <1>14, <1>15, <1>16 DEF AInv
-----------------------------------------------------------------------------
(* The invariant.                                                          *)

LEMMA ChainInit == AInit => AInv
<1> SUFFICES ASSUME AInit PROVE AInv
  OBVIOUS
<1>1. /\ scenario \in Scenarios /\ scenario \in Scenario /\ scenario.arriving # {}
      /\ scenario.most \in Nat /\ MaxRefills \in Nat
  <2>1. scenario \in Scenarios /\ scenario \in Scenario /\ scenario.arriving # {}
    BY AccessChainAssumption DEF AInit
  <2>2. QED
    BY <2>1, AccessChainAssumption DEF Scenario
<1>2. /\ at = [w \in Workers |-> "idle"]
      /\ request = [w \in Workers |-> CHOOSE r \in scenario.arriving : TRUE]
      /\ app = [w \in Workers |-> NoApp] /\ answer = [w \in Workers |-> ""]
      /\ making = [w \in Workers |-> NoKey]
      /\ found = [k \in Keys |-> 0] /\ buckets = [k \in LimiterKeys |-> <<>>]
      /\ counted = [c \in Counters |-> 0]
      /\ arrived = 0 /\ refills = 0 /\ crowded = {} /\ overlapped = FALSE
      /\ answers = [c \in ChainCounters |-> 0] /\ missed = [c \in ChainCounters |-> 0]
  BY DEF AInit, ChainCounters
<1>3. \A k \in LimiterKeys : /\ buckets[k] = <<>> /\ Len(buckets[k]) = 0
                             /\ DOMAIN buckets[k] = {} /\ buckets[k] \in Seq(Limiters)
                             /\ found[k] = 0
  <2>1. /\ Len(<<>>) = 0 /\ <<>> \in Seq(Limiters) /\ DOMAIN <<>> = {}
    <3>1. Len(<<>>) = 0 /\ <<>> \in Seq(Limiters)
      OBVIOUS
    <3>2. \A s \in Seq(Limiters) : Len(s) = 0 => DOMAIN s = {}
      OBVIOUS
    <3>3. QED
      BY <3>1, <3>2
  <2>2. \A k \in LimiterKeys : k \in Keys /\ buckets[k] = <<>>
    BY <1>2, KeyKinds
  <2>3. \A k \in Keys : found[k] = 0
    BY <1>2
  <2>4. QED
    BY <2>1, <2>2, <2>3
<1>4. \A w \in Workers : ~ InFlight(w) /\ at[w] = "idle" /\ answer[w] = "" /\ making[w] = NoKey
  BY <1>2, StagesAre DEF InFlight
<1>5. ATypeOK
  <2>1. /\ at \in [Workers -> Stages \cup {"idle", "answered"}]
        /\ request \in [Workers -> scenario.arriving]
        /\ app \in [Workers -> Carried] /\ answer \in [Workers -> Answers \cup {""}]
        /\ making \in [Workers -> Keys \cup {NoKey}]
    BY <1>1, <1>2 DEF Carried
  <2>2. /\ buckets \in [LimiterKeys -> Seq(Limiters)] /\ found \in [Keys -> Nat]
        /\ \A k \in LimiterKeys : found[k] <= Len(buckets[k])
    <3>1. DOMAIN buckets = LimiterKeys /\ buckets = [k \in LimiterKeys |-> buckets[k]]
      BY <1>2
    <3>2. buckets \in [LimiterKeys -> Seq(Limiters)]
      BY <1>3, <3>1
    <3>3. 0 \in Nat /\ 0 <= 0
      OBVIOUS
    <3>4. found \in [Keys -> Nat]
      BY <1>2, <3>3
    <3>5. \A k \in LimiterKeys : found[k] <= Len(buckets[k])
      BY <1>3, <3>3
    <3>6. QED
      BY <3>2, <3>4, <3>5
  <2>3. /\ counted \in [Counters -> Nat] /\ answers \in [{"total"} \cup Protocols -> Nat]
        /\ missed \in [{"total"} \cup Protocols -> Nat]
    <3>1. 0 \in Nat
      OBVIOUS
    <3>2. /\ counted \in [Counters -> Nat] /\ answers \in [ChainCounters -> Nat]
          /\ missed \in [ChainCounters -> Nat]
      BY <1>2, <3>1
    <3>3. QED
      BY <3>2 DEF ChainCounters
  <2>4. /\ arrived \in 0 .. scenario.most /\ refills \in 0 .. MaxRefills
        /\ crowded \subseteq {"counter", "limiter"} /\ overlapped \in BOOLEAN
    <3>1. \A n \in Nat : 0 \in 0 .. n
      OBVIOUS
    <3>2. QED
      BY <1>1, <1>2, <3>1
  <2>5. QED
    BY <1>1, <2>1, <2>2, <2>3, <2>4 DEF ATypeOK
<1>6. RequestsOK
  <2>1. ASSUME NEW w \in Workers PROVE AdmittedOK(w) /\ RefusedOK(w)
    <3>1. "idle" \notin PastTotal /\ "idle" \notin PastToken /\ "idle" \notin Stages
      BY StagesAre DEF PastTotal, PastToken
    <3>2. AdmittedOK(w)
      BY <1>4, <3>1 DEF AdmittedOK
    <3>3. RefusedOK(w)
      BY <1>4 DEF RefusedOK
    <3>4. QED
      BY <3>2, <3>3
  <2>2. QED
    BY <2>1 DEF RequestsOK
<1>7. CountInv
  <2>1. ASSUME NEW c \in ChainCounters
        PROVE  counted[c] + missed[c] = answers[c] + Cardinality(In(c))
    <3>1. In(c) = {}
      BY <1>4, StagesAre DEF In, PastOf, PastTotal, PastService
    <3>2. Cardinality(In(c)) = 0
      BY <3>1, FS_EmptySet
    <3>3. counted[c] = 0 /\ missed[c] = 0 /\ answers[c] = 0
      BY <1>2 DEF Counters, ChainCounters
    <3>4. QED
      BY <3>2, <3>3
  <2>2. QED
    BY <2>1 DEF CountInv
<1>8. BucketInv /\ MakingInv
  BY <1>3, <1>4 DEF BucketInv, MakingInv
<1>9. CacheInv
  <2>1. \A w \in Workers : making[w] \notin LimiterKeys
    BY <1>4, KeyKinds
  <2>2. \A k \in LimiterKeys : Len(buckets[k]) <= 1 /\ Len(buckets[k]) = 0
    <3>1. 0 <= 1
      OBVIOUS
    <3>2. QED
      BY <1>3, <3>1
  <2>3. QED
    BY <2>1, <2>2 DEF CacheInv
<1>10. OverlapInv
  BY <1>2, <1>4 DEF OverlapInv, ChainCounters, Protocols
<1>11. QED
  BY <1>5, <1>6, <1>7, <1>8, <1>9, <1>10 DEF AInv

\* Nothing but the variables is spoken of.
LEMMA ChainStutters ==
    ASSUME AInv, UNCHANGED avars
    PROVE  AInv'
<1>1. /\ scenario' = scenario /\ request' = request /\ arrived' = arrived
      /\ overlapped' = overlapped /\ at' = at /\ app' = app /\ making' = making
      /\ found' = found /\ crowded' = crowded /\ buckets' = buckets /\ refills' = refills
      /\ counted' = counted /\ answer' = answer /\ answers' = answers /\ missed' = missed
  BY DEF avars, given, cache, limiters, replies
<1>2. ATypeOK /\ CacheInv
  BY DEF AInv
<1>3. ATypeOK'
  BY <1>1, <1>2 DEF ATypeOK
<1>4. Grown /\ BucketInv'
  BY <1>1, BucketsSame
<1>5. CountedGrows
  <2>1. \A n \in Nat : n <= n
    OBVIOUS
  <2>2. QED
    BY <1>1, <1>2, <2>1 DEF CountedGrows, ATypeOK
<1>6. RequestsOK'
  <2>1. ASSUME NEW g \in Workers PROVE AdmittedOK(g)' /\ RefusedOK(g)'
    <3>1. AdmittedOK(g) /\ RefusedOK(g)
      BY DEF AInv, RequestsOK
    <3>2. QED
      BY <1>1, <1>2, <1>3, <1>4, <1>5, <3>1, LeftAlone
  <2>2. QED
    BY <2>1 DEF RequestsOK
<1>7. CountInv' /\ MakingInv' /\ OverlapInv' /\ CacheInv'
  <2>1. \A c : In(c)' = In(c)
    BY <1>1 DEF In, Protocol
  <2>2. \A g \in Workers : Wants(g)' = Wants(g)
    BY <1>1, WantsSame
  <2>3. \A g : InFlight(g)' <=> InFlight(g)
    BY <1>1 DEF InFlight
  <2>4. CountInv'
    BY <1>1, <2>1 DEF AInv, CountInv
  <2>5. MakingInv'
    BY <1>1, <2>2 DEF AInv, MakingInv
  <2>6. OverlapInv'
    BY <1>1, <2>3 DEF AInv, OverlapInv
  <2>7. CacheInv'
    BY <1>1, <1>2 DEF CacheInv
  <2>8. QED
    BY <2>4, <2>5, <2>6, <2>7
<1>8. QED
  BY <1>3, <1>4, <1>6, <1>7 DEF AInv

LEMMA ChainNext == AInv /\ [ANext]_avars => AInv'
<1> SUFFICES ASSUME AInv, [ANext]_avars PROVE AInv'
  OBVIOUS
<1>1. ASSUME NEW w \in Workers, Step(w) PROVE AInv'
  <2>1. CASE \E r \in scenario.arriving : Arrive(w, r)
    BY <2>1, ArriveKeeps
  <2>2. CASE AccessMode(w)
    BY <2>2, AccessModeKeeps
  <2>3. CASE FlowCount(w)
    BY <2>3, FlowCountKeeps
  <2>4. CASE FlowLimit(w)
    BY <2>4, FlowLimitKeeps
  <2>5. CASE JwtAuth(w)
    BY <2>5, JwtAuthKeeps
  <2>6. CASE JwtFlowCount(w)
    BY <2>6, JwtFlowCountKeeps
  <2>7. CASE JwtFlowLimit(w)
    BY <2>7, JwtFlowLimitKeeps
  <2>8. CASE WhiteList(w)
    BY <2>8, WhiteListKeeps
  <2>9. CASE BlackList(w)
    BY <2>9, BlackListKeeps
  <2>10. CASE ReverseProxy(w)
    BY <2>10, ReverseProxyKeeps
  <2>11. QED
    BY <1>1, <2>1, <2>2, <2>3, <2>4, <2>5, <2>6, <2>7, <2>8, <2>9, <2>10 DEF Step
<1>2. ASSUME NEW k \in LimiterKeys, NEW i \in 1 .. Len(buckets[k]), Refill(k, i) PROVE AInv'
  BY <1>2, RefillKeeps
<1>3. CASE UNCHANGED avars
  BY <1>3, ChainStutters
<1>4. QED
  BY <1>1, <1>2, <1>3 DEF ANext

LEMMA ChainInv == ASpec => []AInv
  BY ChainInit, ChainNext, PTL DEF ASpec

\* The variables of the chains keep their types: no limiter goes below zero, and
\* the limiter found is one that was made.
THEOREM ChainTypesCorrect == ASpec => []ATypeOK
<1>1. AInv => ATypeOK
  BY DEF AInv
<1>2. QED
  BY <1>1, ChainInv, PTL

\* An address that is seen as it is is looked up in the lists as it is.
LEMMA InListPlain ==
    ASSUME NEW r, SeenAsIs(r), NEW list
    PROVE  InList(Seen(r), list) <=> KnownAs(r) \in list
<1>1. \A a, b : Plain(a) = Plain(b) <=> a = b
  BY DEF Plain
<1>2. QED
  BY <1>1 DEF InList, SeenAsIs

LEMMA ListsSay ==
    ASSUME NEW r, SeenAsIs(r)
    PROVE  LET s == Service(r.protocol) IN
           /\ ~ White(r) \/ Black(r) => s.openAuth /\ ~ OnLists(s, KnownAs(r))
           /\ White(r) /\ ~ Black(r) /\ s.openAuth => OnLists(s, KnownAs(r))
<1>1. \A list : InList(Seen(r), list) <=> KnownAs(r) \in list
  BY InListPlain
<1>2. QED
  BY <1>1 DEF White, Black, Binds, BlackCounts, OnLists

\* Over HTTP, gRPC and TCP, whatever the lists, the tokens, the headers and the
\* order in which requests get on: what reaches an upstream is for a service, has
\* a token its service accepts where tokens are read, is known by an address on
\* the lists, which over HTTP the client may state itself, and was held to the
\* limits of its own tenant, who over gRPC and without a token is whom it claims.
THEOREM ForwardedAdmitted == ASpec => []ForwardedIsAdmitted
<1>1. AInv => ForwardedIsAdmitted
  <2> SUFFICES ASSUME AInv, NEW w \in Workers, answer[w] = "forwarded"
               PROVE  LET r == request[w]
                          s == Service(r.protocol) IN
                      /\ r.route = "service"
                      /\ r.protocol # "tcp" => TokenOK(s, r.token)
                      /\ s.openAuth /\ SeenAsIs(r) => OnLists(s, KnownAs(r))
                      /\ app[w] = TenantOf(r)
    BY DEF ForwardedIsAdmitted
  <2>1. /\ request[w].route = "service"
        /\ TokenFine(request[w]) /\ app[w] = TenantOf(request[w])
        /\ White(request[w]) /\ ~ Black(request[w])
    BY DEF AInv, RequestsOK, AdmittedOK
  <2>2. QED
    BY <2>1, ListsSay DEF TokenFine
<1>2. QED
  BY <1>1, ChainInv, PTL

\* And what is refused has the cause it names: the token, the lists, more requests
\* counted for its tenant than the quota, or a limiter of its own that has let
\* through its burst.  Quota and tenant are those of the token's row, or, over
\* gRPC without one, those the request's metadata claim.
THEOREM RefusalsForCause == ASpec => []RefusedForCause
<1>1. AInv => RefusedForCause
  <2> SUFFICES ASSUME AInv, NEW w \in Workers
               PROVE  LET r == request[w]
                          s == Service(r.protocol)
                          tenant == TenantOf(r) IN
                      /\ answer[w] \in {"invalidToken", "noApp"} =>
                            r.protocol # "tcp" /\ ~ TokenOK(s, r.token)
                      /\ answer[w] \in {"notWhite", "black"} /\ SeenAsIs(r) =>
                            s.openAuth /\ ~ OnLists(s, KnownAs(r))
                      /\ answer[w] = "invalidApp" => r.protocol = "grpc" /\ tenant = Malformed
                      /\ answer[w] = "overQuota" =>
                            tenant.qpd > 0 /\ counted[tenant.id] > tenant.qpd
                      /\ answer[w] = "limited" => Spent(r)
    BY Zenon DEF RefusedForCause, Spent
  <2> DEFINE r == request[w]
             s == Service(r.protocol)
  <2>1. /\ answer[w] \in {"invalidToken", "noApp"} =>
              r.protocol # "tcp" /\ ~ TokenOK(s, r.token)
        /\ answer[w] = "notWhite" => ~ White(r)
        /\ answer[w] = "black" => Black(r)
        /\ answer[w] = "invalidApp" => r.protocol = "grpc" /\ TenantOf(r) = Malformed
        /\ answer[w] = "overQuota" => Exceeded(r)
        /\ answer[w] = "limited" => Spent(r)
    BY Zenon DEF AInv, RequestsOK, RefusedOK
  <2>2. answer[w] \in {"notWhite", "black"} /\ SeenAsIs(r) =>
           s.openAuth /\ ~ OnLists(s, KnownAs(r))
    <3>1. answer[w] \in {"notWhite", "black"} => ~ White(r) \/ Black(r)
      BY <2>1
    <3>2. QED
      BY <3>1, ListsSay
  <2>3. answer[w] = "overQuota" =>
           TenantOf(r).qpd > 0 /\ counted[TenantOf(r).id] > TenantOf(r).qpd
    BY <2>1 DEF Exceeded
  <2>4. QED
    BY <2>1, <2>2, <2>3
<1>2. QED
  BY <1>1, ChainInv, PTL

\* No limiter lets through more than its burst and what time gave back; its burst
\* is the one the tables set for the key, whichever protocol made it, or, for the
\* key of a tenant, one that a gRPC request without a token has brought along; and
\* a limit has a second limiter only if two requests once made some at a time.
THEOREM LimitsHold == ASpec => []LimitHolds
<1>1. AInv => LimitHolds
  <2> SUFFICES ASSUME AInv, NEW k \in LimiterKeys
               PROVE  /\ Len(buckets[k]) > 1 => "limiter" \in crowded
                      /\ \A i \in DOMAIN buckets[k] :
                            LET lim == buckets[k][i] IN
                            /\ lim.passed <= lim.burst + lim.refilled
                            /\ lim.burst = Burst(Rate(k)) \/ Forged(k, lim.burst)
    BY DEF LimitHolds
  <2>1. ATypeOK /\ BucketInv /\ CacheInv
    BY DEF AInv
  <2>2. Len(buckets[k]) > 1 => "limiter" \in crowded
    <3>1. "limiter" \notin crowded => Len(buckets[k]) <= 1
      BY <2>1 DEF CacheInv
    <3>2. Len(buckets[k]) \in Nat
      BY <2>1, LimiterTypes
    <3>3. QED
      BY <3>1, <3>2
  <2>3. ASSUME NEW i \in DOMAIN buckets[k]
        PROVE  LET lim == buckets[k][i] IN
               /\ lim.passed <= lim.burst + lim.refilled
               /\ lim.burst = Burst(Rate(k)) \/ Forged(k, lim.burst)
    <3> DEFINE lim == buckets[k][i]
               t == lim.tokens
               p == lim.passed
               r == lim.refilled
               b == lim.burst
    <3>1. t \in Nat /\ p \in Nat /\ r \in Nat /\ b \in Nat
      BY <2>1, LimiterTypes
    <3>2. SoundLimiter(k, lim)
      BY <2>1 DEF BucketInv
    <3>3. t + p = b + r /\ (b = Burst(Rate(k)) \/ Forged(k, b))
      BY <3>2 DEF SoundLimiter
    <3> HIDE DEF t, p, r, b
    <3>4. p <= b + r
      BY <3>1, <3>3
    <3>5. QED
      BY <3>3, <3>4 DEF p, b, r
  <2>4. QED
    BY <2>2, <2>3
<1>2. QED
  BY <1>1, ChainInv, PTL

\* Every request that reaches a service is counted once, in total and for the
\* service, however many are in flight and whatever becomes of them, but those
\* whose look for a counter faulted; and none does unless requests overlapped, nor
\* ever over gRPC, where a fault would end the process.
THEOREM CountsAreRight == ASpec => []CountsAddUp
<1>1. AInv => CountsAddUp
  <2> SUFFICES ASSUME AInv PROVE CountsAddUp
    OBVIOUS
  <2>1. ATypeOK /\ CountInv /\ OverlapInv
    BY DEF AInv
  <2>2. ASSUME NEW c \in ChainCounters PROVE Past(c) = In(c)
    <3>1. ASSUME NEW w \in Workers PROVE w \in Past(c) <=> w \in In(c)
      <4> DEFINE p == Protocol(w)
      <4>1. p \in Protocols /\ p = request[w].protocol
        BY <2>1, RequestTypes DEF Protocol
      <4>2. at[w] \in ChainStages(p) \cup {"idle", "answered"}
        BY <4>1 DEF AInv, RequestsOK, AdmittedOK
      <4>3. InFlight(w) <=> at[w] \in ChainStages(p)
        BY <4>1, <4>2, ChainTable, StagesAre DEF InFlight
      <4>4. PastOf(c) \subseteq Stages
        BY DEF PastOf, PastTotal, PastService
      <4>5. at[w] \in ChainStages(p) =>
               (Precedes(p, CountStage(c), at[w]) <=> at[w] \in PastOf(c))
        <5>1. \A x \in ChainStages(p) :
                 /\ Precedes(p, "totalCount", x) <=> x \in PastTotal
                 /\ Precedes(p, "serviceCount", x) <=> x \in PastService
          BY <4>1, ChainTable
        <5>2. CASE c = "total"
          BY <5>1, <5>2 DEF CountStage, PastOf
        <5>3. CASE c # "total"
          BY <5>1, <5>3 DEF CountStage, PastOf
        <5>4. QED
          BY <5>2, <5>3
      <4>6. w \in Past(c) <=> /\ InFlight(w) /\ c \in {"total", p}
                              /\ Precedes(p, CountStage(c), at[w])
        BY DEF Past, Precedes
      <4>7. w \in In(c) <=> at[w] \in PastOf(c) /\ c \in {"total", p}
        BY DEF In
      <4>8. at[w] \in PastOf(c) => InFlight(w)
        BY <4>4 DEF InFlight
      <4>9. QED
        BY <4>3, <4>5, <4>6, <4>7, <4>8
    <3>2. Past(c) \subseteq Workers /\ In(c) \subseteq Workers
      BY DEF Past, In
    <3>3. QED
      BY <3>1, <3>2
  <2>3. ASSUME NEW c \in ChainCounters
        PROVE  /\ counted[c] + missed[c] = answers[c] + Cardinality(Past(c))
               /\ missed[c] > 0 => overlapped /\ c # "grpc"
    <3>1. counted[c] + missed[c] = answers[c] + Cardinality(Past(c))
      BY <2>1, <2>2 DEF CountInv
    <3>2. ~ overlapped \/ c = "grpc" => missed[c] = 0
      BY <2>1 DEF OverlapInv
    <3>3. ~ (0 > 0)
      OBVIOUS
    <3>4. QED
      BY <3>1, <3>2, <3>3
  <2>4. QED
    BY <2>3 DEF CountsAddUp, ChainCounters
<1>2. QED
  BY <1>1, ChainInv, PTL
=============================================================================
