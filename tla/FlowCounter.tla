---------------------------- MODULE FlowCounter ----------------------------
(***************************************************************************)
(* RedisFlowCountService (public/redis_flow_count.go): one counter of one  *)
(* process, its ticker goroutine, and the tenant's daily quota that        *)
(* HTTPJwtFlowCountMiddleware reads off it.                                *)
(*                                                                         *)
(* Increase adds from a goroutine of its own.  Once a second the ticker    *)
(* loads the count, stores 0 over it, sends the loaded number to Redis on  *)
(* a fresh connection it closes without reading a reply, reads the day's   *)
(* total on another one, and samples it into TotalCount and QPS.           *)
(* Other processes, and the duplicates that a raced GetCounter leaves in   *)
(* this one, add to the same Redis keys (CountElsewhere).                  *)
(*                                                                         *)
(* AfterStoreKept, OverQuotaSoon and OverQuotaLate are faulty variants.    *)
(***************************************************************************)
EXTENDS Integers, Sequences, SequencesExt

CONSTANTS
    Qpd,          \* the tenant's requests per day; 0 means unlimited
    \* The rest bounds the model.
    MaxRequests,  \* calls of Increase
    MaxElsewhere, \* counts other processes add
    MaxFailures,  \* failed Redis calls
    MaxRestarts,  \* restarts of the process
    MaxFlying,    \* rounds of the ticker that Redis is behind
    MaxDay,       \* midnights
    MaxElapsed    \* seconds on the clock between two samples

ASSUME FlowCounterAssumption ==
    /\ Qpd \in Nat /\ MaxRequests \in Nat /\ MaxElsewhere \in Nat
    /\ MaxFailures \in Nat /\ MaxRestarts \in Nat /\ MaxFlying \in Nat
    /\ MaxDay \in Nat /\ MaxElapsed \in Nat

VARIABLES
    requests,     \* history: calls of Increase
    adding,       \* goroutines of Increase that have not added yet
    tickerCount,  \* TickerCount
    local,        \* the ticker's local tickerCount
    day,          \* today
    keyDay,       \* the day of dayKey in the current round of the ticker
    redis,        \* redis[d]: the number under the key of day d
    exists,       \* the days whose key exists
    flying,       \* INCRBYs written to a socket, not executed yet
    sent,         \* history: the counts written to sockets so far
    totalRead,    \* the local totalCount
    totalCount,   \* TotalCount
    sampleDay,    \* history: the day TotalCount was sampled from
    qps,          \* QPS
    unixSet,      \* Unix # 0
    elapsed,      \* now - Unix in seconds, up to MaxElapsed
    elsewhere, failures, restarts,
    refused,      \* history: requests refused for the quota
    raced,        \* history: a request was counted between lines 36 and 37
    pc            \* where the ticker goroutine is

counting == <<requests, adding, tickerCount, refused>>
sampling == <<totalCount, sampleDay, qps, unixSet, elapsed>>
store == <<day, redis, exists, flying>>
events == <<elsewhere, failures, restarts, raced>>
vars == <<counting, sampling, store, events, local, keyDay, sent, totalRead, pc>>

Days == 0 .. MaxDay

Init ==
    /\ requests = 0 /\ adding = 0 /\ tickerCount = 0 /\ refused = 0
    /\ totalCount = 0 /\ sampleDay = 0 /\ qps = 0
    /\ unixSet = FALSE /\ elapsed = 0
    /\ day = 0 /\ redis = [d \in Days |-> 0] /\ exists = {} /\ flying = <<>>
    /\ elsewhere = 0 /\ failures = 0 /\ restarts = 0 /\ raced = FALSE
    /\ local = 0 /\ keyDay = 0 /\ sent = 0 /\ totalRead = 0
    /\ pc = "wait"

OverQuotaSoon == Qpd > 0 /\ totalCount >= Qpd
OverQuotaLate == Qpd > 0 /\ totalCount > Qpd + 1
OverQuota == Qpd > 0 /\ totalCount > Qpd

\* A request of the tenant: Increase starts a goroutine, then the quota is
\* compared with the last sample.  A refused request counts too.
Increase ==
    /\ requests < MaxRequests
    /\ requests' = requests + 1
    /\ adding' = adding + 1
    /\ refused' = IF OverQuota THEN refused + 1 ELSE refused
    /\ UNCHANGED <<tickerCount, sampling, store, events, local, keyDay, sent,
                   totalRead, pc>>

AddOne ==
    /\ adding > 0
    /\ adding' = adding - 1
    /\ tickerCount' = tickerCount + 1
    /\ raced' = (raced \/ pc = "store")
    /\ UNCHANGED <<requests, refused, sampling, store, elsewhere, failures,
                   restarts, local, keyDay, sent, totalRead, pc>>

\* Line 36.
Load ==
    /\ pc = "wait" /\ pc' = "store"
    /\ local' = tickerCount
    /\ UNCHANGED <<counting, sampling, store, events, keyDay, sent, totalRead>>

\* Lines 37 to 41: whatever was added since line 36 is overwritten.
AfterStoreKept(n) == n
AfterStore(n) == 0
DayKey(d) == d

Store ==
    /\ pc = "store" /\ pc' = "send"
    /\ tickerCount' = AfterStore(tickerCount)
    /\ keyDay' = DayKey(day)
    /\ UNCHANGED <<requests, adding, refused, sampling, store, events, local,
                   sent, totalRead>>

\* Lines 42 to 50.  The error of Flush is dropped and no reply is read: all the
\* ticker learns of is a connection it could not open.
Send ==
    /\ pc = "send" /\ pc' = "read"
    /\ Len(flying) < MaxFlying
    /\ flying' = Append(flying, <<keyDay, local>>)
    /\ sent' = sent + local
    /\ UNCHANGED <<counting, sampling, day, redis, exists, events, local,
                   keyDay, totalRead>>

\* No connection: the loop continues, and the loaded count is gone.
NoConnection ==
    /\ pc \in {"send", "read"} /\ pc' = "wait"
    /\ failures < MaxFailures /\ failures' = failures + 1
    /\ UNCHANGED <<counting, sampling, store, elsewhere, restarts, raced, local,
                   keyDay, sent, totalRead>>

\* Redis executes what it received, one connection before or after another.
Deliver ==
    \E i \in 1 .. Len(flying) :
        /\ redis' = [redis EXCEPT ![flying[i][1]] = @ + flying[i][2]]
        /\ exists' = exists \cup {flying[i][1]}
        /\ flying' = RemoveAt(flying, i)
        /\ UNCHANGED <<counting, sampling, day, events, local, keyDay, sent,
                       totalRead, pc>>

\* A flush that failed, or a connection cut before Redis read from it.
LoseFlying ==
    /\ failures < MaxFailures /\ failures' = failures + 1
    /\ \E i \in 1 .. Len(flying) : flying' = RemoveAt(flying, i)
    /\ UNCHANGED <<counting, sampling, day, redis, exists, elsewhere, restarts,
                   raced, local, keyDay, sent, totalRead, pc>>

\* Lines 52 to 56.  A key that does not exist is an error.
Read ==
    /\ pc = "read"
    /\ pc' = IF keyDay \in exists THEN "sample" ELSE "wait"
    /\ totalRead' = IF keyDay \in exists THEN redis[keyDay] ELSE 0
    /\ UNCHANGED <<counting, sampling, store, events, local, keyDay, sent>>

\* Lines 57 to 67.  The first round only starts the clock; Go's division of
\* integers drops the fraction.
Growth(total, before) == total - before
Quotient(n, d) == IF n >= 0 THEN n \div d ELSE -((-n) \div d)

Sample ==
    /\ pc = "sample" /\ pc' = "wait"
    /\ IF unixSet /\ elapsed > 0
       THEN /\ totalCount' = totalRead
            /\ sampleDay' = keyDay
            /\ qps' = Quotient(Growth(totalRead, totalCount), elapsed)
       ELSE UNCHANGED <<totalCount, sampleDay, qps>>
    /\ unixSet' = TRUE
    /\ elapsed' = 0
    /\ UNCHANGED <<counting, store, events, local, keyDay, sent, totalRead>>

ClockTick ==
    /\ unixSet /\ elapsed < MaxElapsed
    /\ elapsed' = elapsed + 1
    /\ UNCHANGED <<counting, totalCount, sampleDay, qps, unixSet, store, events,
                   local, keyDay, sent, totalRead, pc>>

Midnight ==
    /\ day < MaxDay
    /\ day' = day + 1
    /\ UNCHANGED <<counting, sampling, redis, exists, flying, events, local,
                   keyDay, sent, totalRead, pc>>

CountElsewhere ==
    /\ elsewhere < MaxElsewhere
    /\ elsewhere' = elsewhere + 1
    /\ redis' = [redis EXCEPT ![day] = @ + 1]
    /\ exists' = exists \cup {day}
    /\ UNCHANGED <<counting, sampling, day, flying, failures, restarts, raced,
                   local, keyDay, sent, totalRead, pc>>

\* The process is replaced: a new counter, and the counts it had not sent gone.
Restart ==
    /\ restarts < MaxRestarts /\ restarts' = restarts + 1
    /\ adding' = 0 /\ tickerCount' = 0
    /\ totalCount' = 0 /\ sampleDay' = 0 /\ qps' = 0
    /\ unixSet' = FALSE /\ elapsed' = 0
    /\ local' = 0 /\ keyDay' = 0 /\ totalRead' = 0
    /\ pc' = "wait"
    /\ UNCHANGED <<requests, refused, store, elsewhere, failures, raced, sent>>

Ticker == Load \/ Store \/ Send \/ Read \/ Sample

Next ==
    \/ Increase \/ AddOne \/ Ticker \/ NoConnection \/ Deliver \/ LoseFlying
    \/ ClockTick \/ Midnight \/ CountElsewhere \/ Restart

Spec == Init /\ [][Next]_vars

\* The goroutines keep running, Redis executes what it received, and the
\* clock goes on.
FairSpec ==
    /\ Spec
    /\ WF_vars(Ticker) /\ WF_vars(AddOne) /\ WF_vars(Deliver)
    /\ WF_vars(ClockTick)
-----------------------------------------------------------------------------
TypeOK ==
    /\ requests \in Nat /\ adding \in Nat /\ tickerCount \in Nat
    /\ local \in Nat /\ sent \in Nat /\ refused \in Nat
    /\ totalRead \in Nat /\ totalCount \in Nat /\ qps \in Int
    /\ elapsed \in 0 .. MaxElapsed /\ unixSet \in BOOLEAN
    /\ day \in Days /\ sampleDay \in Days /\ keyDay \in Days
    /\ redis \in [Days -> Nat] /\ exists \subseteq Days
    /\ flying \in Seq(Days \X Nat)
    /\ elsewhere \in Nat /\ failures \in Nat /\ restarts \in Nat
    /\ raced \in BOOLEAN
    /\ pc \in {"wait", "store", "send", "read", "sample"}

\* What is on its way: counts that a goroutine, the counter or the ticker holds.
Held == adding + tickerCount + (IF pc = "send" THEN local ELSE 0)

Undisturbed == ~raced /\ failures = 0 /\ restarts = 0

\* No request is ever counted twice (the reset, lines 36 and 37), and unless an
\* Increase slipped in between the two lines, Redis failed or the process was
\* restarted, none is lost.
CountsOnce ==
    /\ sent + Held <= requests
    /\ Undisturbed => sent + Held = requests

\* The rate may be negative for one reason only: the sample before was taken
\* from the key of another day (lines 62 to 65).
NegativeRateOnlyAtMidnight ==
    [][qps' # qps /\ qps' < 0 => sampleDay' # sampleDay]_vars

\* A request is refused only if the day of the last sample really counted more
\* than Qpd requests (http_jwt_flow_count.go, line 27).
RefusedForCause == [][refused' # refused => redis[sampleDay] > Qpd]_vars

\* Once today's key counts more than Qpd requests the quota bites, in bounded
\* trouble, or the day ends first.
QuotaEnforced ==
    \A d \in Days :
        day = d /\ Qpd > 0 /\ redis[d] > Qpd ~> OverQuota \/ day # d
=============================================================================
