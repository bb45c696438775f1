----------------------------- MODULE Balancers -----------------------------
(***************************************************************************)
(* The balancer that LoadBanlanceFactorWithConf (load_balance/factory.go)  *)
(* makes for a service, and the requests that ask it for an address: round *)
(* robin (module RoundRobin), random, or consistent hashing.  Weighted     *)
(* round robin, the fourth kind, is module WeightRoundRobin.               *)
(*                                                                         *)
(* RandomBalance has round robin's shape, with curIndex drawn anew.  Get   *)
(* of ConsistentHashBanlance searches keys outside its lock and indexes it *)
(* inside; Update clears keys and hashMap outside.  An empty balancer's    *)
(* error ends the gateway when a TCP connection asks (log.Fatal), and only *)
(* the request when an HTTP request does.                                  *)
(***************************************************************************)
EXTENDS RoundRobin, FiniteSets, SequencesExt, FiniteSetsExt

CONSTANTS Replicas,       \* the virtual nodes of an address
          HashOf(_, _),   \* the hash of a virtual node
          KeyHashes       \* the hashes of the requests' keys

ASSUME BalancersAssumption ==
    /\ KeyHashes \subseteq Nat /\ Replicas \in Nat \ {0}
    /\ \A a \in 1 .. MaxLen : \A i \in 1 .. Replicas : HashOf(a, i) \in Nat

VARIABLES
    kind,       \* the kind the factory was asked for
    proxy,      \* who asks: the TCP or the HTTP proxy
    nodes, at,  \* rss and curIndex of RandomBalance
    keys,       \* ConsistentHashBanlance.keys
    hashMap,    \* hash -> address
    adding,     \* Add holds the write lock: keys are appended, not yet sorted
    query,      \* of a request: its hash, the bounds of its search, its index, its key
    listed,     \* what conf.GetConf() answered last
    cleared,    \* Update has cleared keys, not yet hashMap
    ended,      \* the requests whose log.Fatal has ended the process
    met         \* history: the requests in progress that met an Update

vars2 == <<nodes, at, keys, hashMap, adding, query, listed, cleared, ended>>
all   == <<vars, vars2, kind, proxy, met>>
rr    == <<curIndex, rss, lens, tmp, picked>>    \* what round robin alone uses

NoQuery == [hash |-> 0, lo |-> 0, hi |-> 0, key |-> 0]

\* Active addresses come in the order of the service's list.
Lists == {l \in UNION {[1 .. n -> 1 .. MaxLen] : n \in 0 .. MaxLen} :
             \A i, j \in DOMAIN l : i < j => l[i] < l[j]}

NodeHashes(a) == {HashOf(a, i) : i \in 1 .. Replicas}
WithHashes(s, a) == s \o [i \in 1 .. Replicas |-> HashOf(a, i)]
WithNode(m, a) == [h \in NodeHashes(a) \cup DOMAIN m |-> IF h \in NodeHashes(a) THEN a ELSE m[h]]
Empty == [h \in {} |-> 0]

\* In place i is the number that fewer than i are below, and i or more not above.
Below(s, x) == Cardinality({j \in DOMAIN s : s[j] < x})
NotAbove(s, x) == Cardinality({j \in DOMAIN s : s[j] <= x})
Sorted(s) == [i \in DOMAIN s |-> CHOOSE x \in ToSet(s) : Below(s, x) < i /\ i <= NotAbove(s, x)]

\* The keys, before they are sorted, and the map after an Add of each of a list.
AfterAdds(l) ==
    LET added[n \in 0 .. Len(l)] ==
            IF n = 0 THEN <<<<>>, Empty>>
            ELSE <<WithHashes(added[n - 1][1], l[n]), WithNode(added[n - 1][2], l[n])>>
    IN added[Len(l)]

BInit ==
    /\ Init
    /\ kind \in {"random", "round robin", "hash"} /\ proxy \in {"tcp", "http"}
    /\ kind # "hash" => proxy = "http"
    /\ kind # "round robin" => rss = <<>>
    /\ \E l \in IF kind = "round robin" THEN {<<>>} ELSE Lists :
          /\ nodes = IF kind = "random" THEN l ELSE <<>>
          /\ keys = IF kind = "hash" THEN Sorted(AfterAdds(l)[1]) ELSE <<>>
          /\ hashMap = IF kind = "hash" THEN AfterAdds(l)[2] ELSE Empty
          /\ listed = l
    /\ at = 0 /\ adding = FALSE /\ cleared = FALSE /\ ended = {}
    /\ query = [t \in Threads |-> NoQuery]
    /\ met = {}

-----------------------------------------------------------------------------
(* RandomBalance.                                                          *)

\* Next: an empty list is answered with "" ...
RandomEnter(t) ==
    /\ Go(t, "idle", IF nodes = <<>> THEN "idle" ELSE "intn")
    /\ UNCHANGED <<rr, pending, updating, updates, vars2>>

\* ... rand.Intn panics for an empty list, and its draw goes to a field ...
Intn(t) ==
    /\ Go(t, "intn", IF nodes = <<>> THEN "panic" ELSE "take")
    /\ at' \in IF nodes = <<>> THEN {at} ELSE 0 .. Len(nodes) - 1
    /\ UNCHANGED <<rr, pending, updating, updates, nodes, keys, hashMap, adding, query,
                   listed, cleared, ended>>

\* ... that is read again to index the list.
RandomTake(t) ==
    /\ Go(t, "take", IF at < Len(nodes) THEN "idle" ELSE "panic")
    /\ UNCHANGED <<rr, pending, updating, updates, vars2>>

-----------------------------------------------------------------------------
(* ConsistentHashBanlance.Get.                                             *)

Ask(t, q) == query' = [query EXCEPT ![t] = q]

\* IsEmpty: an error, in place of an address.
HashEnter(t) ==
    /\ \E h \in KeyHashes : Ask(t, [NoQuery EXCEPT !.hash = h])
    /\ Go(t, "idle", IF keys = <<>> THEN "error" ELSE "search")
    /\ UNCHANGED <<rr, pending, updating, updates, nodes, at, keys, hashMap, adding, listed,
                   cleared, ended>>

\* It is log.Fatal in tcp_reverse_proxy.go, and a panic that the middleware
\* recovers, as for "", in http_reverse_proxy.go.
HandleError(t) ==
    /\ IF proxy = "tcp"
         THEN pc[t] = "error" /\ ended' = {t} /\ UNCHANGED pc
         ELSE Go(t, "error", "idle") /\ UNCHANGED ended
    /\ Ask(t, NoQuery)
    /\ UNCHANGED <<rr, pending, updating, updates, nodes, at, keys, hashMap, adding, listed,
                   cleared>>

\* sort.Search takes the length first ...
Search(t) ==
    /\ Go(t, "search", "probe")
    /\ Ask(t, [query[t] EXCEPT !.hi = Len(keys)])
    /\ UNCHANGED <<rr, pending, updating, updates, nodes, at, keys, hashMap, adding, listed,
                   cleared, ended>>

\* ... and reads one key after the other, as keys are then.
Probe(t) ==
    LET q   == query[t]
        mid == (q.lo + q.hi) \div 2
    IN /\ q.lo < q.hi
       /\ Go(t, "probe", IF mid < Len(keys) THEN "probe" ELSE "panic")
       /\ Ask(t, IF mid >= Len(keys) THEN NoQuery
                 ELSE IF keys[mid + 1] >= q.hash THEN [q EXCEPT !.hi = mid]
                 ELSE [q EXCEPT !.lo = mid + 1])
       /\ UNCHANGED <<rr, pending, updating, updates, nodes, at, keys, hashMap, adding, listed,
                      cleared, ended>>

\* Behind the last key comes the first one.  Faulty variant: the ring is open.
Open(i, n) == i
FirstAgain(i, n) == IF i = n THEN 0 ELSE i

Found(t) ==
    /\ query[t].lo = query[t].hi
    /\ Go(t, "probe", "lock")
    /\ Ask(t, [query[t] EXCEPT !.lo = FirstAgain(@, Len(keys)), !.hi = 0])
    /\ UNCHANGED <<rr, pending, updating, updates, nodes, at, keys, hashMap, adding, listed,
                   cleared, ended>>

RLock(t) ==
    /\ ~ adding
    /\ Go(t, "lock", "index")
    /\ UNCHANGED <<rr, pending, updating, updates, vars2>>

Index(t) ==
    LET i == query[t].lo + 1
    IN /\ Go(t, "index", IF i \in DOMAIN keys THEN "lookup" ELSE "panic")
       /\ Ask(t, IF i \in DOMAIN keys THEN [query[t] EXCEPT !.key = keys[i], !.lo = 0] ELSE NoQuery)
       /\ UNCHANGED <<rr, pending, updating, updates, nodes, at, keys, hashMap, adding, listed,
                      cleared, ended>>

\* hashMap[...], 0 for a hash that is not there.
Answer(t) == IF query[t].key \in DOMAIN hashMap THEN hashMap[query[t].key] ELSE 0

Lookup(t) ==
    /\ Go(t, "lookup", "idle")
    /\ Ask(t, NoQuery)
    /\ UNCHANGED <<rr, pending, updating, updates, nodes, at, keys, hashMap, adding, listed,
                   cleared, ended>>

HashRequest(t) ==
    HashEnter(t) \/ HandleError(t) \/ Search(t) \/ Probe(t) \/ Found(t) \/ RLock(t) \/ Index(t) \/ Lookup(t)

-----------------------------------------------------------------------------
(* Update, called by the health checker.                                   *)

GetConf ==
    /\ ~ updating /\ updates < Updates
    /\ updating' = TRUE /\ updates' = updates + 1
    /\ pending' \in Lists /\ listed' = pending'

RandomUpdate ==
    /\ GetConf
    /\ nodes' = <<>>
    /\ UNCHANGED <<rr, pc, at, keys, hashMap, adding, query, cleared, ended>>

RandomAdd ==
    /\ updating /\ pending # <<>>
    /\ nodes' = Append(nodes, Head(pending)) /\ pending' = Tail(pending)
    /\ UNCHANGED <<rr, pc, updating, updates, at, keys, hashMap, adding, query, listed, cleared, ended>>

\* c.keys = nil; c.hashMap = map[uint32]string{}
ClearKeys ==
    /\ GetConf
    /\ keys' = <<>> /\ cleared' = TRUE
    /\ UNCHANGED <<rr, pc, nodes, at, hashMap, adding, query, ended>>

ClearMap ==
    /\ cleared
    /\ hashMap' = Empty /\ cleared' = FALSE
    /\ UNCHANGED <<rr, pc, pending, updating, updates, nodes, at, keys, adding, query, listed, ended>>

Readers == {t \in Threads : pc[t] \in {"index", "lookup"}}

\* Add under the lock: the keys of the virtual nodes, then the sort.
HashAdd ==
    /\ updating /\ ~ cleared /\ pending # <<>> /\ ~ adding /\ Readers = {}
    /\ adding' = TRUE
    /\ keys' = WithHashes(keys, Head(pending))
    /\ hashMap' = WithNode(hashMap, Head(pending))
    /\ pending' = Tail(pending)
    /\ UNCHANGED <<rr, pc, updating, updates, nodes, at, query, listed, cleared, ended>>

Sort ==
    /\ adding
    /\ adding' = FALSE /\ keys' = Sorted(keys)
    /\ UNCHANGED <<rr, pc, pending, updating, updates, nodes, at, hashMap, query, listed, cleared, ended>>

UpdateEnds == ~ cleared /\ ~ adding /\ UpdateReturns /\ UNCHANGED vars2

-----------------------------------------------------------------------------
RandomNext ==
    \/ \E t \in Threads : RandomEnter(t) \/ Intn(t) \/ RandomTake(t)
    \/ \E t \in Threads : Recover(t) /\ UNCHANGED vars2
    \/ RandomUpdate \/ RandomAdd \/ UpdateEnds

HashNext ==
    \/ \E t \in Threads : HashRequest(t)
    \/ \E t \in Threads : Recover(t) /\ UNCHANGED vars2
    \/ ClearKeys \/ ClearMap \/ HashAdd \/ Sort \/ UpdateEnds

\* A request meets the Updates in progress between its first and last step.
Meets ==
    met' = {t \in Threads : pc'[t] # "idle" /\ (t \in met \/ updating)}

BNext ==
    /\ ended = {}
    /\ \/ kind = "round robin" /\ Next /\ UNCHANGED vars2
       \/ /\ (kind = "random" /\ RandomNext) \/ (kind = "hash" /\ HashNext)
          /\ calm' = (~updating' /\ (calm \/ Quiet'))
          /\ UNCHANGED steady
    /\ Meets
    /\ UNCHANGED <<kind, proxy>>

Ended == ended # {} /\ UNCHANGED all

BSpec ==
    /\ BInit /\ [][BNext \/ Ended]_all
    /\ \A t \in Threads : WF_all(BNext /\ kind = "round robin" /\ Request(t))
    /\ WF_all(BNext /\ kind = "round robin" /\ (Add \/ UpdateReturns))

-----------------------------------------------------------------------------
\* The address that owns a hash on the ring of a list: that of the next
\* virtual node; of two nodes with one hash, that of the later address.
Owner(l, h) ==
    LET ring  == UNION {NodeHashes(l[i]) : i \in DOMAIN l}
        after == {x \in ring : x >= h}
        next  == Min(IF after = {} THEN ring ELSE after)
    IN Max({a \in ToSet(l) : next \in NodeHashes(a)})

\* The step that ends a consistent-hash Get: an answer, an error handled, a panic.
GetEnds(t) ==
    /\ kind = "hash" /\ pc[t] \notin {"idle", "panic"}
    /\ pc'[t] \in {"idle", "panic"} \/ t \in ended'

\* A consistent-hash Get that meets no Update answers the owner of its key,
\* and fails only for a service without an active address: the search never
\* leaves keys, and unlike round robin's the damage is over with the Update.
AnswersOwner ==
    [][\A t \in Threads :
         GetEnds(t) /\ t \notin met /\ ~ updating =>
            IF listed = <<>> THEN pc[t] = "error"
            ELSE Answer(t) = Owner(listed, query[t].hash) /\ pc[t] = "lookup"]_all
=============================================================================
