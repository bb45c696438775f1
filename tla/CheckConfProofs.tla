--------------------------- MODULE CheckConfProofs ---------------------------
(***************************************************************************)
(* Proofs about CheckConf for every set of addresses and every threshold.  *)
(*                                                                         *)
(* RoundInv explains the watcher: an error count of k or more means that   *)
(* the last k dials failed, and changedList holds the dialled addresses    *)
(* whose count is below the threshold.  AgreeInv explains the rebuild: as  *)
(* long as the goroutines have not met, what is in rss and what the        *)
(* updater still has to add make up the active addresses.                  *)
(***************************************************************************)
EXTENDS CheckConf, FiniteSetTheorems, TLAPS

\* Where the watcher stands behind the publication of its round.
Published == {"notify", "sleep"} \cup Updating

ErrCountsFailures ==
    \A ip \in Ips : \A k \in 1 .. MaxErrNum :
        errNum[ip] >= k <=> \A i \in 1 .. k : ~hist[ip][i]

RoundInv ==
    /\ pc["watcher"] \in Published \cup {"probe", "sort"}
    /\ changed = {ip \in checked : errNum[ip] < MaxErrNum}
    /\ pc["watcher"] # "probe" => checked = Ips
    /\ pc["watcher"] \in Published => activeList = changed

\* What updater u has put into rss and what it still holds are the active
\* addresses.
Filling(u) ==
    /\ pc[u] = "getconf" => rss = <<>>
    /\ pc[u] \in {"add", "append"} =>
          /\ Elems(rss) \cup Elems(list[u]) = activeList
          /\ Len(rss) + Len(list[u]) = Cardinality(activeList)
    /\ pc[u] = "append" => seen[u] = rss /\ list[u] # <<>>

AgreeInv ==
    /\ pc["builder"] \in Updating \cup {"attach", "done"}
    /\ attached <=> pc["builder"] # "attach"
    /\ pc["watcher"] \in Updating => attached
    /\ ~raced => /\ ~Overlap
                 /\ \A u \in Updaters : Filling(u)
                 /\ ListenerAgrees

-----------------------------------------------------------------------------
LEMMA ElemsOfEmpty == Elems(<<>>) = {} /\ Len(<<>>) = 0
BY DEF Elems

LEMMA ElemsOfAppend ==
    ASSUME NEW S, NEW s \in Seq(S), NEW e \in S
    PROVE  /\ Append(s, e) \in Seq(S)
           /\ Len(Append(s, e)) = Len(s) + 1
           /\ Elems(Append(s, e)) = Elems(s) \cup {e}
<1>1. Append(s, e) \in Seq(S) /\ Len(Append(s, e)) = Len(s) + 1
  OBVIOUS
<1>2. Elems(Append(s, e)) \subseteq Elems(s) \cup {e}
  BY DEF Elems
<1>3. Elems(s) \subseteq Elems(Append(s, e))
  <2>1. ASSUME NEW i \in 1 .. Len(s)
        PROVE  s[i] = Append(s, e)[i] /\ i \in 1 .. Len(Append(s, e))
    BY <1>1
  <2>2. QED
    BY <2>1 DEF Elems
<1>4. e \in Elems(Append(s, e))
  <2>1. Append(s, e)[Len(s) + 1] = e /\ Len(s) + 1 \in 1 .. Len(Append(s, e))
    BY <1>1
  <2>2. QED
    BY <2>1 DEF Elems
<1>5. QED
  BY <1>1, <1>2, <1>3, <1>4

LEMMA ElemsOfHeadTail ==
    ASSUME NEW S, NEW s \in Seq(S), s # <<>>
    PROVE  /\ Head(s) \in S /\ Tail(s) \in Seq(S)
           /\ Len(Tail(s)) + 1 = Len(s)
           /\ Elems(s) = {Head(s)} \cup Elems(Tail(s))
<1>1. Head(s) \in S /\ Tail(s) \in Seq(S) /\ Len(Tail(s)) + 1 = Len(s)
  OBVIOUS
<1>2. Elems(s) \subseteq {Head(s)} \cup Elems(Tail(s))
  <2>1. ASSUME NEW i \in 1 .. Len(s)
        PROVE  s[i] = Head(s) \/ (i - 1 \in 1 .. Len(Tail(s))
                                  /\ s[i] = Tail(s)[i - 1])
    BY <1>1
  <2>2. QED
    BY <2>1 DEF Elems
<1>3. {Head(s)} \cup Elems(Tail(s)) \subseteq Elems(s)
  <2>1. ASSUME NEW i \in 1 .. Len(Tail(s))
        PROVE  Tail(s)[i] = s[i + 1] /\ i + 1 \in 1 .. Len(s)
    BY <1>1
  <2>2. Head(s) = s[1] /\ 1 \in 1 .. Len(s)
    BY <1>1
  <2>3. QED
    BY <2>1, <2>2 DEF Elems
<1>4. QED
  BY <1>1, <1>2, <1>3

LEMMA ConfListFacts ==
    ASSUME TypeOK, NEW u \in Updaters, NEW s \in ConfLists(u)
    PROVE  /\ s \in Seq(Ips)
           /\ ~(u = "builder" /\ pc["watcher"] = "sort") =>
                 Elems(s) = activeList /\ Len(s) = Cardinality(activeList)
<1>1. IsFiniteSet(activeList)
  BY FS_Subset, CheckConfAssumption DEF TypeOK
<1>2. Cardinality(activeList) \in Nat
  BY <1>1, FS_CardinalityType
<1>3. s \in [1 .. Cardinality(activeList) -> activeList]
  BY DEF ConfLists
<1>4. s \in Seq(activeList) /\ Len(s) = Cardinality(activeList)
  BY <1>2, <1>3
<1>5. s \in Seq(Ips)
  <2>1. \A i \in 1 .. Cardinality(activeList) : s[i] \in Ips
    BY <1>3 DEF TypeOK
  <2>2. s \in [1 .. Cardinality(activeList) -> Ips]
    BY <1>3, <2>1
  <2>3. QED
    BY <1>2, <2>2
<1>6. ~(u = "builder" /\ pc["watcher"] = "sort") => Elems(s) = activeList
  BY DEF ConfLists
<1>7. QED
  BY <1>4, <1>5, <1>6
-----------------------------------------------------------------------------
\* An updater that is inside an append has something to append.
TypeInv == TypeOK /\ \A u \in Updaters : pc[u] = "append" => list[u] # <<>>

LEMMA InitTypeInv == Init => TypeInv
<1> SUFFICES ASSUME Init PROVE TypeInv
  OBVIOUS
<1>1. pc \in [Updaters -> {"attach", "probe"}]
  BY DEF Init, Updaters
<1>2. /\ errNum \in [Ips -> 0 .. MaxErrNum]
      /\ hist \in [Ips -> [1 .. MaxErrNum -> BOOLEAN]]
  BY CheckConfAssumption DEF Init
<1>3. <<>> \in Seq(Ips)
  OBVIOUS
<1>4. rss \in Seq(Ips) /\ list \in [Updaters -> Seq(Ips)]
      /\ seen \in [Updaters -> Seq(Ips)]
  BY <1>3 DEF Init
<1>5. QED
  BY <1>1, <1>2, <1>4 DEF Init, TypeInv, TypeOK

LEMMA NextTypeInv == TypeInv /\ [Next]_vars => TypeInv'
<1> SUFFICES ASSUME TypeInv, [Next]_vars PROVE TypeInv'
  OBVIOUS
<1> USE CheckConfAssumption DEF TypeInv, TypeOK, Updaters, Updating
<1>1. CASE Step /\ raced' = (raced \/ Overlap')
  <2>0. raced' \in BOOLEAN
    BY <1>1
  <2>1. ASSUME NEW ip \in Ips, NEW ok \in BOOLEAN, Probe(ip, ok) PROVE TypeInv'
    <3>1. ErrAfterOk(errNum[ip]) \in 0 .. MaxErrNum
      BY DEF ErrAfterOk
    <3>2. ErrAfterFail(errNum[ip]) \in 0 .. MaxErrNum
      BY DEF ErrAfterFail
    <3>3. errNum' \in [Ips -> 0 .. MaxErrNum]
      BY <2>1, <3>1, <3>2 DEF Probe
    <3>4. hist' \in [Ips -> [1 .. MaxErrNum -> BOOLEAN]]
      <4>1. [i \in 1 .. MaxErrNum |-> IF i = 1 THEN ok ELSE hist[ip][i - 1]]
               \in [1 .. MaxErrNum -> BOOLEAN]
        OBVIOUS
      <4>2. QED
        BY <2>1, <4>1 DEF Probe
    <3>5. checked' \subseteq Ips /\ changed' \subseteq checked'
      BY <2>1 DEF Probe
    <3>6. QED
      BY <2>0, <2>1, <3>3, <3>4, <3>5 DEF Probe
  <2>2. CASE RoundEnds
    BY <2>0, <2>2 DEF RoundEnds
  <2>3. CASE Publish
    BY <2>0, <2>3 DEF Publish
  <2>4. CASE Notify
    BY <2>0, <2>4 DEF Notify
  <2>5. CASE Wake
    BY <2>0, <2>5 DEF Wake, FreshList
  <2>6. CASE Attach
    BY <2>0, <2>6 DEF Attach
  <2>7. ASSUME NEW u \in Updaters, Update(u) PROVE TypeInv'
    <3>1. CASE ResetRss(u)
      BY <2>0, <3>1 DEF ResetRss
    <3>2. CASE GetConf(u)
      <4>1. PICK s \in ConfLists(u) : list' = [list EXCEPT ![u] = s]
        BY <3>2 DEF GetConf
      <4>2. s \in Seq(Ips)
        BY <4>1, ConfListFacts
      <4>3. QED
        BY <2>0, <3>2, <4>1, <4>2 DEF GetConf
    <3>3. CASE AddReads(u)
      BY <2>0, <3>3 DEF AddReads
    <3>4. CASE AddWrites(u)
      <4>1. list[u] \in Seq(Ips) /\ list[u] # <<>> /\ seen[u] \in Seq(Ips)
        BY <3>4 DEF AddWrites
      <4>2. Head(list[u]) \in Ips /\ Tail(list[u]) \in Seq(Ips)
        BY <4>1, ElemsOfHeadTail
      <4>3. Append(seen[u], Head(list[u])) \in Seq(Ips) /\ <<>> \in Seq(Ips)
        BY <4>1, <4>2, ElemsOfAppend
      <4>4. QED
        BY <2>0, <3>4, <4>2, <4>3 DEF AddWrites
    <3>5. CASE UpdateReturns(u)
      BY <2>0, <3>5 DEF UpdateReturns
    <3>6. QED
      BY <2>7, <3>1, <3>2, <3>3, <3>4, <3>5 DEF Update
  <2>8. QED
    BY <1>1, <2>1, <2>2, <2>3, <2>4, <2>5, <2>6, <2>7 DEF Step, WatchConf
<1>2. CASE UNCHANGED vars
  BY <1>2 DEF vars
<1>3. QED
  BY <1>1, <1>2 DEF Next
-----------------------------------------------------------------------------
LEMMA InitRound == Init => ErrCountsFailures /\ RoundInv
<1> SUFFICES ASSUME Init PROVE ErrCountsFailures /\ RoundInv
  OBVIOUS
<1>1. ErrCountsFailures
  <2>1. ASSUME NEW ip \in Ips, NEW k \in 1 .. MaxErrNum
        PROVE  ~(errNum[ip] >= k) /\ hist[ip][1] /\ 1 \in 1 .. k
    BY CheckConfAssumption DEF Init
  <2>2. QED
    BY <2>1 DEF ErrCountsFailures
<1>2. QED
  BY <1>1 DEF Init, RoundInv, Published, Updaters, Updating

\* One dial keeps the error count and the history of dials in step.
LEMMA ProbeCounts ==
    ASSUME TypeOK, ErrCountsFailures, NEW ip \in Ips, NEW ok \in BOOLEAN,
           Probe(ip, ok)
    PROVE  ErrCountsFailures'
<1> USE CheckConfAssumption
<1>1. ASSUME NEW jp \in Ips, NEW k \in 1 .. MaxErrNum, jp # ip
      PROVE  errNum'[jp] >= k <=> \A i \in 1 .. k : ~hist'[jp][i]
  <2>1. errNum'[jp] = errNum[jp] /\ hist'[jp] = hist[jp]
    BY <1>1 DEF Probe, TypeOK
  <2>2. QED
    BY <2>1 DEF ErrCountsFailures
<1>2. ASSUME NEW k \in 1 .. MaxErrNum
      PROVE  errNum'[ip] >= k <=> \A i \in 1 .. k : ~hist'[ip][i]
  <2>1. hist'[ip][1] = ok
    BY DEF Probe, TypeOK
  <2>2. \A i \in 2 .. MaxErrNum : hist'[ip][i] = hist[ip][i - 1]
    BY DEF Probe, TypeOK
  <2>3. CASE ok
    <3>1. errNum'[ip] = 0
      BY <2>3 DEF Probe, TypeOK, ErrAfterOk
    <3>2. hist'[ip][1] /\ 1 \in 1 .. k
      BY <2>1, <2>3
    <3>3. QED
      BY <3>1, <3>2
  <2>4. CASE ~ok
    <3>1. errNum'[ip] = ErrAfterFail(errNum[ip])
      BY <2>4 DEF Probe, TypeOK
    <3>2. errNum[ip] \in 0 .. MaxErrNum
      BY DEF TypeOK
    <3>3. CASE k = 1
      <4>1. errNum'[ip] >= 1
        BY <3>1, <3>2 DEF ErrAfterFail
      <4>2. \A i \in 1 .. k : ~hist'[ip][i]
        BY <2>1, <2>4, <3>3
      <4>3. QED
        BY <3>3, <4>1, <4>2
    <3>4. CASE k # 1
      <4>1. k - 1 \in 1 .. MaxErrNum
        BY <3>4
      <4>2. errNum[ip] >= k - 1 <=> \A i \in 1 .. k - 1 : ~hist[ip][i]
        BY <4>1 DEF ErrCountsFailures
      <4>3. errNum'[ip] >= k <=> errNum[ip] >= k - 1
        BY <3>1, <3>2 DEF ErrAfterFail
      <4>4. ASSUME \A i \in 1 .. k - 1 : ~hist[ip][i]
            PROVE  \A i \in 1 .. k : ~hist'[ip][i]
        <5>1. ASSUME NEW i \in 1 .. k PROVE ~hist'[ip][i]
          <6>1. CASE i = 1
            BY <2>1, <2>4, <6>1
          <6>2. CASE i # 1
            <7>1. i \in 2 .. MaxErrNum /\ i - 1 \in 1 .. k - 1
              BY <6>2
            <7>2. QED
              BY <2>2, <4>4, <7>1
          <6>3. QED
            BY <6>1, <6>2
        <5>2. QED
          BY <5>1
      <4>5. ASSUME \A i \in 1 .. k : ~hist'[ip][i]
            PROVE  \A i \in 1 .. k - 1 : ~hist[ip][i]
        <5>1. ASSUME NEW i \in 1 .. k - 1 PROVE ~hist[ip][i]
          <6>1. /\ i + 1 \in 1 .. k /\ i + 1 \in 2 .. MaxErrNum
                /\ (i + 1) - 1 = i
            OBVIOUS
          <6>2. QED
            BY <2>2, <4>5, <6>1
        <5>2. QED
          BY <5>1
      <4>6. QED
        BY <4>2, <4>3, <4>4, <4>5
    <3>5. QED
      BY <3>3, <3>4
  <2>5. QED
    BY <2>3, <2>4
<1>3. QED
  BY <1>1, <1>2 DEF ErrCountsFailures

LEMMA NextRound ==
    TypeInv /\ ErrCountsFailures /\ RoundInv /\ [Next]_vars
        => ErrCountsFailures' /\ RoundInv'
<1> SUFFICES ASSUME TypeInv, ErrCountsFailures, RoundInv, [Next]_vars
             PROVE  ErrCountsFailures' /\ RoundInv'
  OBVIOUS
<1> USE DEF TypeInv
<1>1. ASSUME NEW ip \in Ips, NEW ok \in BOOLEAN, Probe(ip, ok)
      PROVE  ErrCountsFailures' /\ RoundInv'
  <2>1. ErrCountsFailures'
    BY <1>1, ProbeCounts
  <2>2. changed' = {jp \in checked' : errNum'[jp] < MaxErrNum}
    BY <1>1 DEF Probe, TypeOK, RoundInv, Tolerated
  <2>3. pc' = pc /\ pc["watcher"] = "probe"
    BY <1>1 DEF Probe
  <2>4. QED
    BY <2>1, <2>2, <2>3 DEF RoundInv, Published, Updating
<1>2. ASSUME UNCHANGED <<errNum, hist>> PROVE ErrCountsFailures'
  BY <1>2 DEF ErrCountsFailures
<1>3. CASE RoundEnds
  BY <1>2, <1>3
     DEF RoundEnds, RoundInv, Published, Updating, TypeOK, Updaters
<1>4. CASE Publish
  BY <1>2, <1>4
     DEF Publish, RoundInv, Published, Updating, TypeOK, Updaters
<1>5. CASE Notify
  BY <1>2, <1>5 DEF Notify, RoundInv, Published, Updating, TypeOK, Updaters
<1>6. CASE Wake
  BY <1>2, <1>6
     DEF Wake, FreshList, RoundInv, Published, Updating, TypeOK, Updaters
<1>7. CASE Attach
  <2>1. pc'["watcher"] = pc["watcher"]
    BY <1>7 DEF Attach, TypeOK, Updaters
  <2>2. QED
    BY <1>2, <1>7, <2>1 DEF Attach, RoundInv
<1>8. ASSUME NEW u \in Updaters, Update(u)
      PROVE  ErrCountsFailures' /\ RoundInv'
  <2>1. UNCHANGED <<errNum, hist, checked, changed, activeList>>
    BY <1>8 DEF Update, ResetRss, GetConf, AddReads, AddWrites, UpdateReturns
  <2>2. \/ pc'["watcher"] = pc["watcher"]
        \/ /\ pc["watcher"] \in Updating
           /\ pc'["watcher"] \in Updating \cup {"sleep"}
    BY <1>8 DEF Update, ResetRss, GetConf, AddReads, AddWrites, UpdateReturns,
                TypeOK, Updaters, Updating
  <2>3. QED
    BY <1>2, <2>1, <2>2 DEF RoundInv, Published, Updating
<1>9. CASE UNCHANGED vars
  BY <1>2, <1>9 DEF vars, RoundInv
<1>10. QED
  BY <1>1, <1>3, <1>4, <1>5, <1>6, <1>7, <1>8, <1>9 DEF Next, Step, WatchConf
-----------------------------------------------------------------------------
LEMMA InvariantRound == Spec => [](TypeInv /\ ErrCountsFailures /\ RoundInv)
<1>1. Init => TypeInv /\ ErrCountsFailures /\ RoundInv
  BY InitTypeInv, InitRound
<1>2. TypeInv /\ ErrCountsFailures /\ RoundInv /\ [Next]_vars
        => TypeInv' /\ ErrCountsFailures' /\ RoundInv'
  BY NextTypeInv, NextRound
<1>3. QED
  BY <1>1, <1>2, PTL DEF Spec

\* The types of CheckConf hold in every reachable state.
THEOREM TypesCorrect == Spec => []TypeOK
<1>1. TypeInv => TypeOK
  BY DEF TypeInv
<1>2. QED
  BY <1>1, InvariantRound, PTL

\* Between rounds, exactly the addresses whose last MaxErrNum dials failed are
\* out of the active list (check_config.go 58-79).
THEOREM EvictionCorrect == Spec => []EvictedIffFailing
<1>1. TypeInv /\ ErrCountsFailures /\ RoundInv => EvictedIffFailing
  <2> SUFFICES ASSUME TypeInv, ErrCountsFailures, RoundInv,
                      pc["watcher"] = "sleep", NEW ip \in Ips
               PROVE  ip \notin activeList <=>
                         \A i \in 1 .. MaxErrNum : ~hist[ip][i]
    BY DEF EvictedIffFailing
  <2>1. ip \notin activeList <=> ~(errNum[ip] < MaxErrNum)
    BY DEF RoundInv, Published
  <2>2. MaxErrNum \in 1 .. MaxErrNum /\ errNum[ip] \in Nat
    BY CheckConfAssumption DEF TypeInv, TypeOK
  <2>3. QED
    BY <2>1, <2>2, CheckConfAssumption DEF ErrCountsFailures
<1>2. QED
  BY <1>1, InvariantRound, PTL
-----------------------------------------------------------------------------
LEMMA InitAgree == Init => AgreeInv
<1> SUFFICES ASSUME Init PROVE AgreeInv
  OBVIOUS
<1>1. pc["builder"] = "attach" /\ pc["watcher"] = "probe" /\ attached = FALSE
  BY DEF Init, Updaters
<1>2. ~Overlap /\ ListenerAgrees
  BY <1>1 DEF Overlap, Updating, ListenerAgrees
<1>3. \A u \in Updaters : pc[u] \in {"attach", "probe"}
  BY <1>1 DEF Updaters
<1>4. QED
  BY <1>1, <1>2, <1>3 DEF AgreeInv, Updating, Filling

\* Steps outside Update that change neither the balancer nor the list leave the
\* agreement as it is; attaching and notifying only open an update.
LEMMA OpenUpdate ==
    ASSUME TypeInv, RoundInv, AgreeInv, raced' = (raced \/ Overlap'),
           UNCHANGED <<rss, list, seen>>,
           \/ /\ UNCHANGED <<activeList, attached>>
              /\ pc'["builder"] = pc["builder"]
              /\ \/ pc'["watcher"] = pc["watcher"]
                 \/ /\ pc["watcher"] = "probe" /\ pc'["watcher"] = "sort"
                 \/ /\ pc["watcher"] = "sleep" /\ pc'["watcher"] = "probe"
                 \/ /\ pc["watcher"] = "sort" /\ pc'["watcher"] = "sleep"
           \/ /\ pc'["builder"] = pc["builder"] /\ UNCHANGED attached
              /\ pc["watcher"] = "sort" /\ pc'["watcher"] = "notify"
           \/ /\ pc'["builder"] = pc["builder"]
              /\ UNCHANGED <<activeList, attached>>
              /\ pc["watcher"] = "notify"
              /\ pc'["watcher"] = IF attached THEN "reset" ELSE "sleep"
           \/ /\ pc["builder"] = "attach" /\ pc'["builder"] = "reset"
              /\ pc'["watcher"] = pc["watcher"]
              /\ UNCHANGED activeList /\ attached' = TRUE
    PROVE  AgreeInv'
<1>1. /\ pc'["builder"] \in Updating \cup {"attach", "done"}
      /\ attached' <=> pc'["builder"] # "attach"
      /\ pc'["watcher"] \in Updating => attached'
  BY DEF AgreeInv, Updating
<1>2. ASSUME ~raced'
      PROVE  /\ ~Overlap'
             /\ \A u \in Updaters : Filling(u)'
             /\ ListenerAgrees'
  <2>1. ~raced /\ ~Overlap'
    BY <1>2
  <2>2. ~Overlap /\ Filling("builder") /\ Filling("watcher") /\ ListenerAgrees
    BY <2>1 DEF AgreeInv, Updaters
  <2>3. Filling("builder")'
    BY <2>1, <2>2 DEF Filling, Overlap, Updating
  <2>4. Filling("watcher")'
    BY <2>1, <2>2 DEF Filling, Overlap, Updating
  <2>5. ListenerAgrees'
    BY <2>2 DEF ListenerAgrees, AgreeInv, Updating
  <2>6. QED
    BY <2>1, <2>3, <2>4, <2>5 DEF Updaters
<1>3. QED
  BY <1>1, <1>2 DEF AgreeInv

\* A step of Update keeps the agreement when the other goroutine stays out.
LEMMA UpdateAgree ==
    ASSUME TypeInv, RoundInv, AgreeInv, raced' = (raced \/ Overlap'),
           NEW u \in Updaters, Update(u)
    PROVE  AgreeInv'
<1> DEFINE other == IF u = "builder" THEN "watcher" ELSE "builder"
<1>1. /\ UNCHANGED <<activeList, attached>>
      /\ pc[u] \in Updating /\ pc'[other] = pc[other] /\ other \in Updaters
      /\ pc'[u] \in Updating \cup {IF u = "builder" THEN "done" ELSE "sleep"}
  BY DEF Update, ResetRss, GetConf, AddReads, AddWrites, UpdateReturns,
         TypeInv, TypeOK, Updaters, Updating
<1>2. /\ pc'["builder"] \in Updating \cup {"attach", "done"}
      /\ attached' <=> pc'["builder"] # "attach"
      /\ pc'["watcher"] \in Updating => attached'
  BY <1>1 DEF AgreeInv, Updaters, Updating
<1>3. ASSUME ~raced'
      PROVE  /\ ~Overlap'
             /\ \A v \in Updaters : Filling(v)'
             /\ ListenerAgrees'
  <2>1. ~raced /\ ~Overlap' /\ ~Overlap
    BY <1>3 DEF AgreeInv
  <2>2. Filling(u)
    BY <2>1 DEF AgreeInv
  <2>3. pc[other] \notin Updating
    BY <1>1, <2>1 DEF Overlap, Updaters
  <2>4. Filling(other)'
    BY <1>1, <2>3 DEF Filling, Updating
  <2>5. rss \in Seq(Ips) /\ list[u] \in Seq(Ips)
    BY DEF TypeInv, TypeOK
  <2>6. /\ Filling(u)'
        /\ pc'[u] \notin Updating =>
              Elems(rss') = activeList' /\ Len(rss') = Cardinality(activeList')
    <3>1. CASE ResetRss(u)
      <4>1. rss' = <<>> /\ pc'[u] = "getconf"
        BY <3>1 DEF ResetRss, TypeInv, TypeOK
      <4>2. QED
        BY <4>1 DEF Filling, Updating
    <3>2. CASE GetConf(u)
      <4>1. PICK s \in ConfLists(u) : list' = [list EXCEPT ![u] = s]
        BY <3>2 DEF GetConf
      <4>2. ~(u = "builder" /\ pc["watcher"] = "sort")
        BY <1>1, <2>1 DEF Overlap
      <4>3. /\ Elems(s) = activeList /\ Len(s) = Cardinality(activeList)
            /\ s \in Seq(Ips)
        BY <4>1, <4>2, ConfListFacts DEF TypeInv
      <4>4. /\ list'[u] = s /\ pc'[u] = "add" /\ rss' = rss
            /\ activeList' = activeList
        BY <3>2, <4>1 DEF GetConf, TypeInv, TypeOK
      <4>5. rss = <<>>
        BY <2>2, <3>2 DEF Filling, GetConf
      <4>6. Len(s) \in Nat
        BY <4>3
      <4>7. QED
        BY <4>3, <4>4, <4>5, <4>6, ElemsOfEmpty DEF Filling, Updating
    <3>3. CASE AddReads(u)
      <4>1. /\ pc[u] = "add" /\ pc'[u] = "append" /\ seen'[u] = rss
            /\ list[u] # <<>> /\ UNCHANGED <<rss, list, activeList>>
        BY <3>3 DEF AddReads, TypeInv, TypeOK
      <4>2. QED
        BY <2>2, <4>1 DEF Filling, Updating
    <3>4. CASE AddWrites(u)
      <4>1. /\ pc[u] = "append" /\ pc'[u] = "add"
            /\ rss' = Append(seen[u], Head(list[u]))
            /\ list'[u] = Tail(list[u]) /\ activeList' = activeList
        BY <3>4 DEF AddWrites, TypeInv, TypeOK
      <4>2. /\ seen[u] = rss /\ list[u] # <<>>
            /\ Elems(rss) \cup Elems(list[u]) = activeList
            /\ Len(rss) + Len(list[u]) = Cardinality(activeList)
        BY <2>2, <4>1 DEF Filling
      <4>3. /\ Head(list[u]) \in Ips /\ Tail(list[u]) \in Seq(Ips)
            /\ Len(Tail(list[u])) + 1 = Len(list[u])
            /\ Elems(list[u]) = {Head(list[u])} \cup Elems(Tail(list[u]))
        BY <2>5, <4>2, ElemsOfHeadTail
      <4>4. /\ Len(rss') = Len(rss) + 1
            /\ Elems(rss') = Elems(rss) \cup {Head(list[u])}
        BY <2>5, <4>1, <4>2, <4>3, ElemsOfAppend
      <4>5. Elems(rss') \cup Elems(list'[u]) = activeList'
        BY <4>1, <4>2, <4>3, <4>4
      <4>6. /\ Len(rss) \in Nat /\ Len(Tail(list[u])) \in Nat
            /\ Len(list[u]) \in Nat
        BY <2>5, <4>3
      <4>7. Len(rss') + Len(list'[u]) = Cardinality(activeList')
        <5>1. Len(rss') + Len(list'[u]) = (Len(rss) + 1) + Len(Tail(list[u]))
          BY <4>1, <4>4
        <5>2. (Len(rss) + 1) + Len(Tail(list[u])) = Len(rss) + Len(list[u])
          <6>1. \A a, b, c \in Nat : b + 1 = c => (a + 1) + b = a + c
            OBVIOUS
          <6>2. Len(Tail(list[u])) + 1 = Len(list[u])
            BY <4>3
          <6>3. QED
            BY <4>6, <6>1, <6>2, Zenon
        <5>3. QED
          BY <4>1, <4>2, <5>1, <5>2
      <4>8. QED
        BY <4>1, <4>5, <4>7 DEF Filling, Updating
    <3>5. CASE UpdateReturns(u)
      <4>1. /\ pc[u] = "add" /\ list[u] = <<>> /\ pc'[u] \notin Updating
            /\ UNCHANGED <<rss, list, activeList>>
        BY <3>5 DEF UpdateReturns, TypeInv, TypeOK, Updating
      <4>2. /\ Elems(rss) \cup Elems(list[u]) = activeList
            /\ Len(rss) + Len(list[u]) = Cardinality(activeList)
        BY <2>2, <4>1 DEF Filling
      <4>3. Len(rss) \in Nat
        BY <2>5
      <4>4. QED
        BY <4>1, <4>2, <4>3, ElemsOfEmpty DEF Filling, Updating
    <3>6. QED
      BY <3>1, <3>2, <3>3, <3>4, <3>5 DEF Update
  <2>7. ListenerAgrees'
    <3>1. CASE pc'[u] \in Updating
      BY <1>1, <3>1 DEF ListenerAgrees, Updaters, Updating
    <3>2. CASE pc'[u] \notin Updating
      BY <2>6, <3>2 DEF ListenerAgrees
    <3>3. QED
      BY <3>1, <3>2
  <2>8. QED
    BY <2>1, <2>4, <2>6, <2>7 DEF Updaters
<1>4. QED
  BY <1>2, <1>3 DEF AgreeInv

LEMMA NextAgree ==
    TypeInv /\ RoundInv /\ AgreeInv /\ [Next]_vars => AgreeInv'
<1> SUFFICES ASSUME TypeInv, RoundInv, AgreeInv, [Next]_vars PROVE AgreeInv'
  OBVIOUS
<1> USE DEF TypeInv
<1>1. CASE Next
  <2>1. raced' = (raced \/ Overlap')
    BY <1>1 DEF Next
  <2>2. CASE (\E ip \in Ips, ok \in BOOLEAN : Probe(ip, ok)) \/ RoundEnds
    BY <2>1, <2>2, OpenUpdate DEF Probe, RoundEnds, TypeOK, Updaters
  <2>3. CASE Publish
    BY <2>1, <2>3, OpenUpdate DEF Publish, TypeOK, Updaters
  <2>4. CASE Notify
    BY <2>1, <2>4, OpenUpdate DEF Notify, Notified, TypeOK, Updaters
  <2>5. CASE Wake
    BY <2>1, <2>5, OpenUpdate DEF Wake, TypeOK, Updaters
  <2>6. CASE Attach
    BY <2>1, <2>6, OpenUpdate DEF Attach, TypeOK, Updaters
  <2>7. CASE \E u \in Updaters : Update(u)
    BY <2>1, <2>7, UpdateAgree
  <2>8. QED
    BY <1>1, <2>2, <2>3, <2>4, <2>5, <2>6, <2>7 DEF Next, Step, WatchConf
<1>2. CASE UNCHANGED vars
  BY <1>2 DEF vars, AgreeInv, Overlap, Filling, ListenerAgrees
<1>3. QED
  BY <1>1, <1>2

\* When the builder and the watcher did not meet, the balancer serves exactly
\* the active addresses, each once, whenever no push is under way.
THEOREM AgreementUnlessRaced == Spec => []AgreesUnlessRaced
<1>1. Init => AgreeInv
  BY InitAgree
<1>2. AgreeInv => AgreesUnlessRaced
  BY DEF AgreeInv, AgreesUnlessRaced
<1>3. QED
  BY <1>1, <1>2, NextAgree, InvariantRound, PTL DEF Spec
=============================================================================
