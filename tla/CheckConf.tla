------------------------------ MODULE CheckConf ------------------------------
(***************************************************************************)
(* Active health checking of one service's upstream addresses and how its  *)
(* results reach the balancer: reverse_proxy/load_balance/check_config.go, *)
(* factory.go and the Update methods of the balancers.                     *)
(*                                                                         *)
(* Two goroutines share the configuration and the balancer without a lock: *)
(* the builder, inside LoadBanlanceFactorWithConf, attaches the balancer   *)
(* and fills it for the first time; the watcher, already started by        *)
(* NewLoadBalanceCheckConf, dials every address in rounds and pushes each  *)
(* change of activeList into the balancer.  A balancer rebuilds its list   *)
(* in place: clear, read the configuration, append address by address.     *)
(*                                                                         *)
(* The order of activeList is not modelled beyond "already sorted or not", *)
(* weights and the address format not at all: no property is about them.   *)
(*                                                                         *)
(* ErrAfterOkKept, ToleratedOneLess and NotifiedNever are faulty variants  *)
(* of the definitions that follow them.                                    *)
(***************************************************************************)
EXTENDS Naturals, Sequences, FiniteSets

CONSTANTS Ips,        \* keys of confIpWeight
          MaxErrNum   \* DefaultCheckMaxErrNum

ASSUME CheckConfAssumption ==
    /\ IsFiniteSet(Ips)
    /\ MaxErrNum \in Nat \ {0}

VARIABLES
    errNum,      \* confIpErrNum; a missing key reads as 0
    checked,     \* addresses dialled in this round
    changed,     \* changedList of this round, as a set
    activeList,  \* activeList, as a set
    inOrder,     \* the array of activeList is sorted
    attached,    \* the balancer is among the observers
    rss,         \* the balancer's address list
    pc,          \* pc["builder"] and pc["watcher"]
    list,        \* list[u]: what GetConf returned to u and is not added yet
    seen,        \* seen[u]: rss as the append in progress of u read it
    hist,        \* history: the last MaxErrNum dial results of an address
    raced        \* history: the two goroutines met in the unlocked data

vars == <<errNum, checked, changed, activeList, inOrder, attached, rss,
          pc, list, seen, hist, raced>>

Updaters == {"builder", "watcher"}
Updating == {"reset", "getconf", "add", "append"}

\* Elements of a sequence.
Elems(s) == {s[i] : i \in 1 .. Len(s)}

\* The builder is inside Update while the watcher sorts, publishes or updates.
Overlap ==
    /\ pc["builder"] \in Updating
    /\ pc["watcher"] \in Updating \cup {"sort", "notify"}
-----------------------------------------------------------------------------
\* NewLoadBalanceCheckConf: all configured addresses are active, in the
\* arbitrary order of a map iteration, and the watcher runs.
Init ==
    /\ errNum = [ip \in Ips |-> 0]
    /\ checked = {} /\ changed = {}
    /\ activeList = Ips
    /\ inOrder \in BOOLEAN
    /\ attached = FALSE
    /\ rss = <<>>
    /\ pc = [u \in Updaters |-> IF u = "builder" THEN "attach" ELSE "probe"]
    /\ list = [u \in Updaters |-> <<>>]
    /\ seen = [u \in Updaters |-> <<>>]
    /\ hist = [ip \in Ips |-> [i \in 1 .. MaxErrNum |-> TRUE]]
    /\ raced = FALSE
-----------------------------------------------------------------------------
\* The error count of an address after a dial that succeeded.
ErrAfterOkKept(n) == n
ErrAfterOk(n) == 0

\* The error count after a failed dial, saturated at the threshold: nothing
\* distinguishes larger counts.
ErrAfterFail(n) == IF n < MaxErrNum THEN n + 1 ELSE n

\* Whether an address with error count n stays in the list.
ToleratedOneLess(n) == n + 1 < MaxErrNum
Tolerated(n) == n < MaxErrNum

\* One iteration of the watcher's inner loop: dial an address, count, decide.
\* The map iteration visits the addresses in any order; whether the upstream
\* accepts the connection is up to the environment.
Probe(ip, ok) ==
    /\ pc["watcher"] = "probe"
    /\ ip \notin checked
    /\ checked' = checked \cup {ip}
    /\ LET n == IF ok THEN ErrAfterOk(errNum[ip])
                       ELSE ErrAfterFail(errNum[ip])
       IN /\ errNum' = [errNum EXCEPT ![ip] = n]
          /\ changed' = IF Tolerated(n) THEN changed \cup {ip} ELSE changed
    /\ hist' = [hist EXCEPT ![ip] = [i \in 1 .. MaxErrNum |->
                    IF i = 1 THEN ok ELSE hist[ip][i - 1]]]
    /\ UNCHANGED <<activeList, inOrder, attached, rss, pc, list, seen>>

\* All addresses dialled: sort.Strings(s.activeList) begins, in place.
RoundEnds ==
    /\ pc["watcher"] = "probe"
    /\ checked = Ips
    /\ pc' = [pc EXCEPT !["watcher"] = "sort"]
    /\ UNCHANGED <<errNum, checked, changed, activeList, inOrder,
                   attached, rss, list, seen, hist>>

\* The sort ends and the two sorted lists are compared; UpdateConf publishes
\* a list that differs.
Publish ==
    /\ pc["watcher"] = "sort"
    /\ IF changed = activeList
       THEN /\ inOrder' = TRUE
            /\ pc' = [pc EXCEPT !["watcher"] = "sleep"]
            /\ UNCHANGED activeList
       ELSE /\ activeList' = changed
            /\ inOrder' = TRUE
            /\ pc' = [pc EXCEPT !["watcher"] = "notify"]
    /\ UNCHANGED <<errNum, checked, changed, attached, rss, list, seen,
                   hist>>

\* UpdateConf calls Update on the observers there are.
NotifiedNever == FALSE
Notified == attached

Notify ==
    /\ pc["watcher"] = "notify"
    /\ pc' = [pc EXCEPT !["watcher"] = IF Notified THEN "reset" ELSE "sleep"]
    /\ UNCHANGED <<errNum, checked, changed, activeList, inOrder,
                   attached, rss, list, seen, hist>>

\* time.Sleep is over: the next round starts with an empty changedList.
FreshList == {}

Wake ==
    /\ pc["watcher"] = "sleep"
    /\ pc' = [pc EXCEPT !["watcher"] = "probe"]
    /\ checked' = {} /\ changed' = FreshList
    /\ UNCHANGED <<errNum, activeList, inOrder, attached, rss, list,
                   seen, hist>>

\* LoadBanlanceFactorWithConf: SetConf and Attach, then Update.
Attach ==
    /\ pc["builder"] = "attach"
    /\ attached' = TRUE
    /\ pc' = [pc EXCEPT !["builder"] = "reset"]
    /\ UNCHANGED <<errNum, checked, changed, activeList, inOrder, rss,
                   list, seen, hist>>
-----------------------------------------------------------------------------
\* Update of the balancer, run by u: r.rss = nil.
ResetRss(u) ==
    /\ pc[u] = "reset"
    /\ rss' = <<>>
    /\ pc' = [pc EXCEPT ![u] = "getconf"]
    /\ UNCHANGED <<errNum, checked, changed, activeList, inOrder,
                   attached, list, seen, hist>>

\* What GetConf may return: the active addresses, each once.  The builder can
\* read the array while the watcher's sort moves its elements; then it gets
\* as many addresses, but any of them at each place.
ConfLists(u) ==
    LET all == [1 .. Cardinality(activeList) -> activeList]
        torn == u = "builder" /\ pc["watcher"] = "sort" /\ ~inOrder
    IN IF torn THEN all ELSE {s \in all : Elems(s) = activeList}

GetConf(u) ==
    /\ pc[u] = "getconf"
    /\ \E s \in ConfLists(u) : list' = [list EXCEPT ![u] = s]
    /\ pc' = [pc EXCEPT ![u] = "add"]
    /\ UNCHANGED <<errNum, checked, changed, activeList, inOrder,
                   attached, rss, seen, hist>>

\* r.rss = append(r.rss, addr) reads r.rss ...
AddReads(u) ==
    /\ pc[u] = "add"
    /\ list[u] # <<>>
    /\ seen' = [seen EXCEPT ![u] = rss]
    /\ pc' = [pc EXCEPT ![u] = "append"]
    /\ UNCHANGED <<errNum, checked, changed, activeList, inOrder,
                   attached, rss, list, hist>>

\* ... and writes it.
AddWrites(u) ==
    /\ pc[u] = "append"
    /\ rss' = Append(seen[u], Head(list[u]))
    /\ list' = [list EXCEPT ![u] = Tail(@)]
    /\ seen' = [seen EXCEPT ![u] = <<>>]
    /\ pc' = [pc EXCEPT ![u] = "add"]
    /\ UNCHANGED <<errNum, checked, changed, activeList, inOrder,
                   attached, hist>>

\* Update returns: the balancer is built, or the watcher goes to sleep.
UpdateReturns(u) ==
    /\ pc[u] = "add"
    /\ list[u] = <<>>
    /\ pc' = [pc EXCEPT ![u] = IF u = "builder" THEN "done" ELSE "sleep"]
    /\ UNCHANGED <<errNum, checked, changed, activeList, inOrder,
                   attached, rss, list, seen, hist>>

Update(u) ==
    ResetRss(u) \/ GetConf(u) \/ AddReads(u) \/ AddWrites(u) \/ UpdateReturns(u)

WatchConf ==
    (\E ip \in Ips, ok \in BOOLEAN : Probe(ip, ok)) \/ RoundEnds \/ Publish \/ Notify \/ Wake

Step ==
    \/ WatchConf
    \/ Attach
    \/ \E u \in Updaters : Update(u)

Next == Step /\ raced' = (raced \/ Overlap')

Spec == Init /\ [][Next]_vars

\* Both goroutines keep running (dialling times out after 5 seconds); nothing
\* is assumed about the upstreams.
FairSpec ==
    /\ Spec
    /\ WF_vars(Next /\ (WatchConf \/ Update("watcher")))
    /\ WF_vars(Next /\ (Attach \/ Update("builder")))
-----------------------------------------------------------------------------
TypeOK ==
    /\ errNum \in [Ips -> 0 .. MaxErrNum]
    /\ checked \subseteq Ips /\ changed \subseteq checked
    /\ activeList \subseteq Ips
    /\ inOrder \in BOOLEAN /\ attached \in BOOLEAN /\ raced \in BOOLEAN
    /\ rss \in Seq(Ips)
    /\ pc \in [Updaters -> Updating \cup {"attach", "probe", "sort", "notify",
                                         "sleep", "done"}]
    /\ list \in [Updaters -> Seq(Ips)]
    /\ seen \in [Updaters -> Seq(Ips)]
    /\ hist \in [Ips -> [1 .. MaxErrNum -> BOOLEAN]]

\* Between two rounds an address is out of the list exactly when its last
\* MaxErrNum dials all failed: one success brings it back, fewer failures in
\* a row never remove it (check_config.go 58-73).
EvictedIffFailing ==
    pc["watcher"] = "sleep" =>
        \A ip \in Ips : ip \notin activeList <=>
                            \A i \in 1 .. MaxErrNum : ~hist[ip][i]

\* The balancer is built and no push is under way: it holds exactly the active
\* addresses, each once.
ListenerAgrees ==
    pc["builder"] = "done" /\ pc["watcher"] \in {"probe", "sort", "sleep"} =>
        Elems(rss) = activeList /\ Len(rss) = Cardinality(activeList)

\* When the builder filled the balancer without meeting the watcher, every
\* push is complete, and the balancer agrees with the health checker from then
\* on, although it rebuilds its list in several unlocked steps.
AgreesUnlessRaced == ~raced => ListenerAgrees

\* Fail-over and recovery of the addresses requests are sent to, unless the
\* race left the balancer with a list of its own ("the configuration was
\* updated: the listeners are updated too", comments at check_config.go 48 and
\* 85): an address whose dials fail from some time on is eventually no longer in
\* the balancer, one whose dials succeed is, whatever happens to the others.  A
\* rebuild clears the list, so a healthy address is in it again and again only.
TrafficFollowsHealth ==
    [](~raced) => \A ip \in Ips :
        /\ <>[](~hist[ip][1]) => <>[](ip \notin Elems(rss))
        /\ <>[](hist[ip][1]) => []<>(ip \in Elems(rss))
=============================================================================
