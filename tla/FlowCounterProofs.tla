------------------------- MODULE FlowCounterProofs -------------------------
(***************************************************************************)
(* Proofs about the flow counter and the cache that keeps one per name.    *)
(*                                                                         *)
(* FlowCounter: for any quota and any bounds on requests, failures,        *)
(* restarts, days and on how far Redis is behind.                          *)
(*                                                                         *)
(* HandlerCache, further down: for any finite set of requests in flight,   *)
(* any names and any number of calls.  Its invariant HInv follows the one  *)
(* append that is under way word by word (SliceInv), says what a scan that *)
(* met no append has read (ScanInv), and counts, for each name, the items  *)
(* made and the calls that have looked past the first one (ItemsInv).      *)
(***************************************************************************)
EXTENDS FlowCounter, HandlerCache, FiniteSetTheorems, SequenceTheorems, TLAPS

\* Between lines 36 and 37 the counter holds at least what was loaded, and
\* exactly that unless an Increase slipped in.
LoadInv ==
    pc = "store" => /\ local <= tickerCount
                    /\ ~raced => local = tickerCount

\* The numbers under the keys only grow, so a number read from a key is never
\* above the key's number, nor below what was read from it before.
ReadInv ==
    /\ totalCount <= redis[sampleDay]
    /\ pc = "sample" => totalRead <= redis[keyDay]
    /\ pc = "sample" /\ keyDay = sampleDay => totalCount <= totalRead

IInv == TypeOK /\ LoadInv /\ CountsOnce /\ ReadInv

LEMMA RemoveAtType ==
    ASSUME NEW S, NEW s \in Seq(S), NEW i \in 1 .. Len(s)
    PROVE  RemoveAt(s, i) \in Seq(S)
BY DEF RemoveAt

LEMMA QuotientType ==
    ASSUME NEW n \in Int, NEW d \in Nat, d > 0
    PROVE  /\ Quotient(n, d) \in Int
           /\ n >= 0 => Quotient(n, d) >= 0
BY DEF Quotient

LEMMA InitIInv == Init => IInv
<1> SUFFICES ASSUME Init PROVE IInv
  OBVIOUS
<1>1. TypeOK
  <2>1. <<>> \in Seq(Days \X Nat)
    OBVIOUS
  <2>2. 0 \in Days /\ 0 \in 0 .. MaxElapsed /\ redis \in [Days -> Nat]
    BY FlowCounterAssumption DEF Init, Days
  <2>3. QED
    BY <2>1, <2>2 DEF Init, TypeOK
<1>2. LoadInv /\ CountsOnce
  BY DEF Init, LoadInv, CountsOnce, Held
<1>3. ReadInv
  BY FlowCounterAssumption DEF Init, ReadInv, Days
<1>4. QED
  BY <1>1, <1>2, <1>3 DEF IInv

LEMMA NextType ==
    ASSUME TypeOK, [Next]_vars
    PROVE  TypeOK'
<1> USE FlowCounterAssumption DEF counting, sampling, store, events
<1>1. CASE Increase
  BY <1>1 DEF Increase, TypeOK
<1>2. CASE AddOne
  BY <1>2 DEF AddOne, TypeOK
<1>3. CASE Load
  BY <1>3 DEF Load, TypeOK
<1>4. CASE Store
  BY <1>4 DEF Store, AfterStore, DayKey, TypeOK
<1>5. CASE Send
  BY <1>5 DEF Send, TypeOK
<1>6. CASE Read
  BY <1>6 DEF Read, TypeOK
<1>7. CASE Sample
  <2>1. qps' \in Int
    <3>1. CASE unixSet /\ elapsed > 0
      <4>1. totalRead - totalCount \in Int /\ elapsed \in Nat
        BY DEF TypeOK
      <4>2. Quotient(totalRead - totalCount, elapsed) \in Int
        BY <3>1, <4>1, QuotientType
      <4>3. QED
        BY <1>7, <3>1, <4>2 DEF Sample, Growth
    <3>2. CASE ~(unixSet /\ elapsed > 0)
      BY <1>7, <3>2 DEF Sample, TypeOK
    <3>3. QED
      BY <3>1, <3>2
  <2>2. QED
    BY <1>7, <2>1 DEF Sample, TypeOK
<1>8. CASE NoConnection
  BY <1>8 DEF NoConnection, TypeOK
<1>9. CASE Deliver
  <2>1. PICK i \in 1 .. Len(flying) :
          /\ redis' = [redis EXCEPT ![flying[i][1]] = @ + flying[i][2]]
          /\ exists' = exists \cup {flying[i][1]}
          /\ flying' = RemoveAt(flying, i)
    BY <1>9 DEF Deliver
  <2>2. flying[i] \in Days \X Nat /\ flying' \in Seq(Days \X Nat)
    BY <2>1, RemoveAtType DEF TypeOK
  <2>3. redis' \in [Days -> Nat] /\ exists' \subseteq Days
    BY <2>1, <2>2 DEF TypeOK
  <2>4. QED
    BY <1>9, <2>2, <2>3 DEF Deliver, TypeOK
<1>10. CASE LoseFlying
  <2>1. flying' \in Seq(Days \X Nat)
    BY <1>10, RemoveAtType DEF LoseFlying, TypeOK
  <2>2. QED
    BY <1>10, <2>1 DEF LoseFlying, TypeOK
<1>11. CASE ClockTick
  BY <1>11 DEF ClockTick, TypeOK
<1>12. CASE Midnight
  BY <1>12 DEF Midnight, TypeOK, Days
<1>13. CASE CountElsewhere
  BY <1>13 DEF CountElsewhere, TypeOK
<1>14. CASE Restart
  <2>1. 0 \in Days /\ 0 \in 0 .. MaxElapsed
    BY DEF Days
  <2>2. /\ UNCHANGED <<requests, refused, day, redis, exists, flying,
                       elsewhere, failures, raced, sent>>
        /\ restarts' = restarts + 1
    BY <1>14 DEF Restart
  <2>3. /\ adding' = 0 /\ tickerCount' = 0 /\ totalCount' = 0 /\ qps' = 0
        /\ sampleDay' = 0 /\ elapsed' = 0 /\ local' = 0 /\ keyDay' = 0
        /\ totalRead' = 0 /\ unixSet' = FALSE /\ pc' = "wait"
    BY <1>14 DEF Restart
  <2>4. /\ adding' \in Nat /\ tickerCount' \in Nat /\ totalCount' \in Nat
        /\ qps' \in Int /\ local' \in Nat /\ totalRead' \in Nat
        /\ restarts' \in Nat
    BY <2>2, <2>3 DEF TypeOK
  <2>5. QED
    BY <2>1, <2>2, <2>3, <2>4 DEF TypeOK
<1>15. CASE UNCHANGED vars
  BY <1>15 DEF vars, TypeOK
<1>16. QED
  BY <1>1, <1>2, <1>3, <1>4, <1>5, <1>6, <1>7, <1>8, <1>9, <1>10, <1>11,
     <1>12, <1>13, <1>14, <1>15 DEF Next, Ticker

\* The counting actions move a count along adding -> tickerCount -> local ->
\* sent; the rest of the steps leave those four alone.
LEMMA NextCounts ==
    ASSUME TypeOK, LoadInv, CountsOnce, [Next]_vars
    PROVE  LoadInv' /\ CountsOnce'
<1> USE DEF TypeOK, LoadInv, CountsOnce, Held, Undisturbed, counting, events
<1>1. CASE Increase
  BY <1>1 DEF Increase
<1>2. CASE AddOne
  <2>1. /\ adding' = adding - 1 /\ tickerCount' = tickerCount + 1
        /\ UNCHANGED <<requests, sent, local, failures, restarts, pc>>
    BY <1>2 DEF AddOne
  <2>2. raced' = (raced \/ pc = "store") /\ adding > 0
    BY <1>2 DEF AddOne
  <2>3. LoadInv'
    <3>1. pc' = "store" => local' <= tickerCount'
      BY <2>1
    <3>2. pc' = "store" => raced'
      BY <2>1, <2>2
    <3>3. QED
      BY <3>1, <3>2
  <2>4. Held' = Held
    BY <2>1
  <2>5. CountsOnce'
    BY <2>1, <2>2, <2>4
  <2>6. QED
    BY <2>3, <2>5
<1>3. CASE Load
  BY <1>3 DEF Load
<1>4. CASE Store
  BY <1>4 DEF Store, AfterStore
<1>5. CASE Send
  BY <1>5 DEF Send
<1>6. CASE Read
  BY <1>6 DEF Read
<1>7. CASE Sample
  BY <1>7 DEF Sample
<1>8. CASE NoConnection
  BY <1>8 DEF NoConnection
<1>9. CASE Deliver
  BY <1>9 DEF Deliver
<1>10. CASE LoseFlying
  BY <1>10 DEF LoseFlying
<1>11. CASE ClockTick
  BY <1>11 DEF ClockTick
<1>12. CASE Midnight
  BY <1>12 DEF Midnight
<1>13. CASE CountElsewhere
  BY <1>13 DEF CountElsewhere
<1>14. CASE Restart
  BY <1>14 DEF Restart
<1>15. CASE UNCHANGED vars
  BY <1>15 DEF vars
<1>16. QED
  BY <1>1, <1>2, <1>3, <1>4, <1>5, <1>6, <1>7, <1>8, <1>9, <1>10, <1>11,
     <1>12, <1>13, <1>14, <1>15 DEF Next, Ticker

\* A key's number never goes down.
LEMMA RedisGrows ==
    ASSUME TypeOK, [Next]_vars
    PROVE  \A d \in Days : redis[d] \in Nat /\ redis'[d] \in Nat
                            /\ redis[d] <= redis'[d]
<1> USE DEF store
<1>1. CASE Deliver
  <2>1. PICK i \in 1 .. Len(flying) :
          redis' = [redis EXCEPT ![flying[i][1]] = @ + flying[i][2]]
    BY <1>1 DEF Deliver
  <2>2. flying[i] \in Days \X Nat
    BY <2>1 DEF TypeOK
  <2>3. QED
    BY <2>1, <2>2 DEF TypeOK
<1>2. CASE CountElsewhere
  BY <1>2 DEF CountElsewhere, TypeOK
<1>3. CASE redis' = redis
  BY <1>3 DEF TypeOK
<1>4. redis' = redis \/ Deliver \/ CountElsewhere
  BY DEF vars, Next, Ticker, Increase, AddOne, Load, Store, Send, Read, Sample,
         NoConnection, LoseFlying, ClockTick, Midnight, Restart
<1>5. QED
  BY <1>1, <1>2, <1>3, <1>4

LEMMA NextReads ==
    ASSUME TypeOK, ReadInv, [Next]_vars
    PROVE  ReadInv'
<1> USE DEF sampling
<1>0. \A d \in Days : redis[d] \in Nat /\ redis'[d] \in Nat
                       /\ redis[d] <= redis'[d]
  BY RedisGrows
<1>1. CASE Read
  <2>1. redis' = redis
    BY <1>1 DEF Read, store
  <2>2. QED
    BY <1>1, <2>1 DEF Read, ReadInv, TypeOK
<1>2. CASE Sample
  <2>1. redis' = redis
    BY <1>2 DEF Sample, store
  <2>2. QED
    BY <1>2, <2>1 DEF Sample, ReadInv, TypeOK
<1>3. CASE Restart
  <2>1. 0 \in Days
    BY FlowCounterAssumption DEF Days
  <2>2. QED
    BY <1>0, <1>3, <2>1 DEF Restart, ReadInv, TypeOK
<1>4. CASE /\ UNCHANGED <<totalCount, sampleDay, totalRead>>
           /\ pc' = "sample" => pc = "sample" /\ keyDay' = keyDay
  BY <1>0, <1>4 DEF ReadInv, TypeOK
<1>5. \/ Read \/ Sample \/ Restart
      \/ /\ UNCHANGED <<totalCount, sampleDay, totalRead>>
         /\ pc' = "sample" => pc = "sample" /\ keyDay' = keyDay
  BY DEF vars, Next, Ticker, Increase, AddOne, Load, Store, Send, Deliver,
         NoConnection, LoseFlying, ClockTick, Midnight, CountElsewhere
<1>6. QED
  BY <1>1, <1>2, <1>3, <1>4, <1>5

LEMMA NextIInv == IInv /\ [Next]_vars => IInv'
BY NextType, NextCounts, NextReads DEF IInv

LEMMA Inductive == Spec => []IInv
<1>1. QED
  BY InitIInv, NextIInv, PTL DEF Spec

\* TickerCount, the samples and the keys of Redis keep their ranges.
THEOREM TypesCorrect == Spec => []TypeOK
<1>1. IInv => TypeOK
  BY DEF IInv
<1>2. QED
  BY <1>1, Inductive, PTL

\* Load, then store 0 (lines 36 and 37): no request counts twice, and one is
\* lost only to an Increase in between, a failure or a restart.
THEOREM CountedOnce == Spec => []CountsOnce
<1>1. IInv => CountsOnce
  BY DEF IInv
<1>2. QED
  BY <1>1, Inductive, PTL

\* The rate of lines 62 to 65 is negative only across a midnight.
THEOREM RateNotNegative == Spec => NegativeRateOnlyAtMidnight
<1>1. ASSUME IInv, [Next]_vars, qps' # qps, qps' < 0
      PROVE  sampleDay' # sampleDay
  <2>1. Sample \/ Restart
    BY <1>1 DEF vars, Next, Ticker, Increase, AddOne, Load, Store, Send, Read,
       Deliver, NoConnection, LoseFlying, ClockTick, Midnight, CountElsewhere,
       sampling
  <2>2. CASE Restart
    BY <1>1, <2>2 DEF Restart
  <2>3. CASE Sample
    <3>1. elapsed > 0 /\ sampleDay' = keyDay
          /\ qps' = Quotient(totalRead - totalCount, elapsed)
      BY <1>1, <2>3 DEF Sample, Growth
    <3>2. totalRead - totalCount \in Int /\ elapsed \in Nat
      BY <1>1 DEF IInv, TypeOK
    <3>3. ~(totalRead - totalCount >= 0)
      <4>1. Quotient(totalRead - totalCount, elapsed) \in Int
        BY <3>1, <3>2, QuotientType
      <4>2. totalRead - totalCount >= 0
              => Quotient(totalRead - totalCount, elapsed) >= 0
        BY <3>1, <3>2, QuotientType
      <4>3. QED
        BY <1>1, <3>1, <4>1, <4>2
    <3>4. totalRead \in Nat /\ totalCount \in Nat /\ pc = "sample"
      BY <1>1, <2>3 DEF IInv, TypeOK, Sample
    <3>5. keyDay # sampleDay
      BY <1>1, <3>3, <3>4 DEF IInv, ReadInv
    <3>6. QED
      BY <3>1, <3>5
  <2>4. QED
    BY <2>1, <2>2, <2>3
<1>2. IInv /\ [Next]_vars
        => [qps' # qps /\ qps' < 0 => sampleDay' # sampleDay]_vars
  BY <1>1
<1>3. QED
  BY <1>2, Inductive, PTL DEF Spec, NegativeRateOnlyAtMidnight

\* The quota refuses (http_jwt_flow_count.go, line 27) only on a day's count
\* that Redis really holds.
THEOREM QuotaSound == Spec => RefusedForCause
<1>1. ASSUME IInv, [Next]_vars, refused' # refused
      PROVE  redis[sampleDay] > Qpd
  <2>1. Increase
    BY <1>1 DEF vars, Next, Ticker, AddOne, Load, Store, Send, Read, Sample,
       Deliver, NoConnection, LoseFlying, ClockTick, Midnight, CountElsewhere,
       Restart, counting
  <2>2. totalCount > Qpd
    BY <1>1, <2>1 DEF Increase, OverQuota
  <2>3. QED
    BY <1>1, <2>2, FlowCounterAssumption DEF IInv, TypeOK, ReadInv
<1>2. IInv /\ [Next]_vars
        => [refused' # refused => redis[sampleDay] > Qpd]_vars
  BY <1>1
<1>3. QED
  BY <1>2, Inductive, PTL DEF Spec, RefusedForCause
-----------------------------------------------------------------------------
(* The caches: the invariant's parts.                                      *)

\* How many elements array a has room for.
ArrayLen(a) == IF a = 0 THEN 0 ELSE Len(mem[a])

\* Array a has items up to position l and nothing behind.
HoldsUpTo(a, l) ==
    /\ l \in 0 .. ArrayLen(a)
    /\ \A k \in 1 .. ArrayLen(a) : mem[a][k] # Nil <=> k <= l

Storing == \E t \in Threads : at[t] = "storeItem"

\* What the one append has loaded and stored so far.
Appender(t) ==
    /\ at[t] = "append" => /\ locals[t].array \in {Unread, slice.array}
                           /\ locals[t].len \in {Unread, slice.len}
                           /\ locals[t].cap \in {Unread, slice.cap}
    /\ at[t] \in {"storeCap", "storeArray"} =>
          /\ locals[t].len = slice.len /\ slice.len < locals[t].cap
          /\ locals[t].array \in 1 .. Len(mem) /\ Len(mem[locals[t].array]) = locals[t].cap
          /\ \A k \in 1 .. locals[t].cap :
                mem[locals[t].array][k] = IF k <= slice.len THEN mem[slice.array][k] ELSE Nil
    /\ at[t] = "storeArray" => slice.cap = locals[t].cap
    /\ at[t] = "storeLen" => /\ locals[t].array = slice.array /\ locals[t].len = slice.len
                             /\ slice.len < ArrayLen(slice.array)
    /\ at[t] = "storeItem" => /\ locals[t].array = slice.array /\ locals[t].len + 1 = slice.len
                              /\ slice.len <= ArrayLen(slice.array)

SliceInv ==
    ~clashed =>
        /\ ~stray
        /\ \A t, u \in AppendingNow : t = u
        /\ \A t \in AppendingNow : Appender(t)
        /\ HoldsUpTo(slice.array, IF Storing THEN slice.len - 1 ELSE slice.len)
        /\ (\A t \in Threads : at[t] # "storeArray") => slice.cap = ArrayLen(slice.array)

\* A call that met no append has loaded what is in the slice.
ScanOK(t) ==
    /\ at[t] = "idle" => /\ locals[t].array = Unread /\ locals[t].len = Unread
                         /\ locals[t].i = 0
    /\ at[t] = "scan" /\ ~met[t] => /\ AppendingNow = {}
                                    /\ locals[t].array \in {Unread, slice.array}
                                    /\ locals[t].len \in {Unread, slice.len}
    /\ at[t] = "panic" /\ ~clashed => met[t]

ScanInv == \A t \in Threads : ScanOK(t)

ItemAt(a, j, n) == a > 0 /\ j \in 1 .. Len(mem[a]) /\ mem[a][j] # Nil /\ mem[a][j][1] = n

Stored(n) == \E j \in 1 .. slice.len : ItemAt(slice.array, j, n)
Coming(n) == \E t \in AppendingNow : locals[t].item[1] = n

\* The scan of call t will come to an item of its name.
Sighted(t) ==
    \E j \in 1 .. slice.len :
        /\ j > locals[t].i
        /\ ItemAt(slice.array, j, locals[t].name)
        /\ locals[t].array # Unread => ItemAt(locals[t].array, j, locals[t].name)
        /\ locals[t].len # Unread => j <= locals[t].len

Blind(n) == {t \in Threads : at[t] = "scan" /\ locals[t].name = n /\ ~Sighted(t)}

\* Once a name has an item, only the calls that are blind to it make another.
ItemsOK(n) ==
    made[n] >= 1 => /\ Stored(n) \/ (made[n] = 1 /\ Coming(n))
                    /\ made[n] + Cardinality(Blind(n)) <= Cardinality(Threads)

OneItem(n) == made[n] <= 1 /\ (made[n] = 1 => Blind(n) = {})

ItemsInv ==
    /\ ~clashed => \A n \in Names : ItemsOK(n)
    /\ ~overlapped => ~clashed /\ \A n \in Names : OneItem(n)


-----------------------------------------------------------------------------
(* The caches: types.                                                      *)

LEMMA CacheConstants ==
    /\ MaxCalls \in Nat /\ Unread = -1
    /\ Fresh.array = Unread /\ Fresh.len = Unread /\ Fresh.cap = Unread /\ Fresh.i = 0
    /\ Fresh.name \in Names /\ Fresh.item = Nil
    /\ Fresh = [array |-> Unread, len |-> Unread, cap |-> Unread, i |-> 0,
                name |-> Fresh.name, item |-> Nil]
<1>1. (CHOOSE n \in Names : TRUE) \in Names
  BY HandlerCacheAssumption
<1>2. QED
  BY <1>1, HandlerCacheAssumption DEF Fresh, Unread

\* A step of t changes the locals and the place of t only.
LEMMA CallMoves ==
    ASSUME HTypeOK, NEW t \in Threads, NEW l, NEW to,
           locals' = [locals EXCEPT ![t] = l], at' = [at EXCEPT ![t] = to],
           Len(mem') \in Nat, Len(mem) <= Len(mem'), l \in Locals',
           to \in Places, LocalsFit(l, to)
    PROVE  /\ locals' \in [Threads -> Locals'] /\ at' \in [Threads -> Places]
           /\ \A u \in Threads : LocalsFit(locals'[u], at'[u])
           /\ locals'[t] = l /\ at'[t] = to
           /\ \A u \in Threads \ {t} : locals'[u] = locals[u] /\ at'[u] = at[u]
<1>1. /\ locals \in [Threads -> Locals] /\ mem \in Seq(Seq(Items \cup {Nil}))
      /\ at \in [Threads -> Places] /\ \A u \in Threads : LocalsFit(locals[u], at[u])
  BY DEF HTypeOK
<1>2. Locals \subseteq Locals'
  <2>1. Len(mem) \in Nat
    BY <1>1
  <2>2. 0 .. Len(mem) \subseteq 0 .. Len(mem')
    BY <2>1
  <2>3. QED
    BY <2>2 DEF Locals, Words, Items
<1>3. /\ locals'[t] = l /\ at'[t] = to
      /\ \A u \in Threads \ {t} : locals'[u] = locals[u] /\ at'[u] = at[u]
  BY <1>1
<1>4. \A u \in Threads : LocalsFit(locals'[u], at'[u])
  BY <1>1, <1>3
<1>5. QED
  BY <1>1, <1>2, <1>3, <1>4

LEMMA LoadWordMoves ==
    ASSUME HTypeOK, NEW t \in Threads, LoadWord(t)
    PROVE  \/ /\ locals[t].array = Unread
              /\ locals' = [locals EXCEPT ![t] = [locals[t] EXCEPT !.array = slice.array]]
           \/ /\ locals[t].len = Unread
              /\ locals' = [locals EXCEPT ![t] = [locals[t] EXCEPT !.len = slice.len]]
           \/ /\ locals[t].cap = Unread /\ at[t] = "append"
              /\ locals' = [locals EXCEPT ![t] = [locals[t] EXCEPT !.cap = slice.cap]]
<1>1. PICK word \in {"array", "len", "cap"} :
          /\ word = "cap" => at[t] = "append"
          /\ locals[t][word] = Unread
          /\ locals' = [locals EXCEPT ![t][word] = slice[word]]
  BY DEF LoadWord
<1>2. CASE word = "array"
  BY <1>1, <1>2
<1>3. CASE word = "len"
  BY <1>1, <1>3
<1>4. CASE word = "cap"
  BY <1>1, <1>4
<1>5. QED
  BY <1>1, <1>2, <1>3, <1>4

LEMMA CacheTypeStep == HTypeOK /\ [HNext]_hvars => HTypeOK'
<1>. SUFFICES ASSUME HTypeOK, [HNext]_hvars PROVE HTypeOK'
  OBVIOUS
<1>. USE CacheConstants
<1>1. /\ slice \in [array : 0 .. Len(mem), len : Nat, cap : Nat]
      /\ mem \in Seq(Seq(Items \cup {Nil})) /\ Len(mem) \in Nat
      /\ at \in [Threads -> Places] /\ locals \in [Threads -> Locals]
      /\ \A t \in Threads : LocalsFit(locals[t], at[t])
      /\ calls \in 0 .. MaxCalls
      /\ made \in [Names -> Nat] /\ met \in [Threads -> BOOLEAN]
      /\ clashed \in BOOLEAN /\ overlapped \in BOOLEAN /\ stray \in BOOLEAN
  BY DEF HTypeOK
<1>2. CASE UNCHANGED hvars
  <2>1. UNCHANGED <<slice, mem, at, locals, calls, made, met, clashed, overlapped, stray>>
    BY <1>2 DEF hvars, memory, history
  <2>2. QED
    BY <2>1 DEF HTypeOK, Locals, Words, Items
<1>3. ASSUME NEW t \in Threads, Get(t) PROVE HTypeOK'
  <2>. DEFINE l == locals[t]
  <2>1. l \in Locals /\ LocalsFit(l, at[t])
    BY <1>1
  <2>2. /\ l.array \in {Unread} \cup 0 .. Len(mem) /\ l.len \in Words /\ l.cap \in Words
        /\ l.i \in Nat /\ l.name \in Names /\ l.item \in Items \cup {Nil}
    BY <1>1 DEF Locals
  <2>3. Fresh \in Locals /\ LocalsFit(Fresh, "idle")
    BY DEF Locals, Words, LocalsFit, Appending
  \* A step that changes the place, the locals and the histories only ...
  <2>4. ASSUME NEW v \in Locals, NEW to \in Places, LocalsFit(v, to),
               mem' = mem, at' = [at EXCEPT ![t] = to], locals' = [locals EXCEPT ![t] = v],
               slice' \in [array : 0 .. Len(mem), len : Nat, cap : Nat],
               calls' \in 0 .. MaxCalls, made' \in [Names -> Nat], met' \in [Threads -> BOOLEAN],
               clashed' \in BOOLEAN, overlapped' \in BOOLEAN, stray' \in BOOLEAN
        PROVE  HTypeOK'
    <3>1. Locals' = Locals
      BY <2>4 DEF Locals, Words, Items
    <3>2. Len(mem') \in Nat /\ Len(mem) <= Len(mem') /\ mem' \in Seq(Seq(Items \cup {Nil}))
      BY <1>1, <2>4
    <3>3. /\ locals' \in [Threads -> Locals'] /\ at' \in [Threads -> Places]
          /\ \A u \in Threads : LocalsFit(locals'[u], at'[u])
      BY <2>4, <3>1, <3>2, CallMoves
    <3>4. QED
      BY <2>4, <3>2, <3>3 DEF HTypeOK
  <2>. DEFINE Same == UNCHANGED <<calls, made, met, clashed, overlapped, stray>>
  \* ... the place and the locals only ...
  <2>5. ASSUME NEW v \in Locals, NEW to \in Places, LocalsFit(v, to),
               mem' = mem, at' = [at EXCEPT ![t] = to], locals' = [locals EXCEPT ![t] = v],
               slice' \in [array : 0 .. Len(mem), len : Nat, cap : Nat], Same
        PROVE  HTypeOK'
    BY <1>1, <2>4, <2>5
  \* ... or the locals only.
  <2>6. ASSUME NEW v \in Locals, LocalsFit(v, at[t]), locals' = [locals EXCEPT ![t] = v],
               at' = at, mem' = mem, slice' = slice, Same
        PROVE  HTypeOK'
    <3>1. at' = [at EXCEPT ![t] = at[t]] /\ at[t] \in Places
      BY <1>1, <2>6
    <3>. HIDE DEF Same, l
    <3>2. QED
      BY <1>1, <2>5, <2>6, <3>1
  <2>7. CASE \E n \in Names : Call(t, n)
    <3>1. PICK n \in Names : Call(t, n)
      BY <2>7
    <3>. DEFINE v == [l EXCEPT !.name = n]
    <3>2. v \in Locals /\ v.len = l.len /\ v.i = l.i
      BY <2>1, <2>2 DEF Locals
    <3>3. locals' = [locals EXCEPT ![t] = v] /\ at' = [at EXCEPT ![t] = "scan"] /\ mem' = mem
      BY <3>1 DEF Call, Go, memory
    <3>4. calls' \in 0 .. MaxCalls
      BY <1>1, <3>1 DEF Call
    <3>5. /\ slice' \in [array : 0 .. Len(mem), len : Nat, cap : Nat] /\ made' \in [Names -> Nat]
          /\ clashed' \in BOOLEAN /\ stray' \in BOOLEAN
      BY <1>1, <3>1 DEF Call, memory
    <3>6. met' \in [Threads -> BOOLEAN] /\ overlapped' \in BOOLEAN
      BY <1>1, <3>1 DEF Call
    <3>7. LocalsFit(v, "scan") /\ "scan" \in Places
      BY <2>1, <3>2 DEF LocalsFit, Appending, Places
    <3>. HIDE DEF v, Same
    <3>8. QED
      BY <2>4, <3>2, <3>3, <3>4, <3>5, <3>6, <3>7
  <2>8. CASE LoadWord(t)
    <3>1. Same /\ mem' = mem /\ at' = at /\ slice' = slice /\ at[t] \in {"scan", "append"}
      BY <2>8 DEF LoadWord, memory, history
    <3>2. /\ slice.array \in 0 .. Len(mem) /\ slice.len \in Nat /\ slice.cap \in Nat
      BY <1>1
    <3>. HIDE DEF Same
    <3>3. CASE locals' = [locals EXCEPT ![t] = [locals[t] EXCEPT !.array = slice.array]]
      <4>. DEFINE v == [l EXCEPT !.array = slice.array]
      <4>1. v \in Locals /\ v.len = l.len /\ v.i = l.i /\ v.item = l.item
        BY <2>1, <2>2, <3>2 DEF Locals
      <4>2. LocalsFit(v, at[t])
        BY <2>1, <3>1, <4>1 DEF LocalsFit, Appending
      <4>3. locals' = [locals EXCEPT ![t] = v]
        BY <3>3
      <4>. HIDE DEF v, l
      <4>4. QED
        BY <2>6, <3>1, <4>1, <4>2, <4>3
    <3>4. CASE locals[t].len = Unread /\ locals' = [locals EXCEPT ![t] = [locals[t] EXCEPT !.len = slice.len]]
      <4>. DEFINE v == [l EXCEPT !.len = slice.len]
      <4>1. v \in Locals /\ v.len = slice.len /\ v.i = l.i /\ v.item = l.item
        BY <2>1, <2>2, <3>2 DEF Locals, Words
      <4>2. v.i = 0 /\ v.i <= v.len
        BY <2>1, <3>2, <3>4, <4>1 DEF LocalsFit
      <4>3. LocalsFit(v, at[t])
        BY <2>1, <3>1, <4>1, <4>2 DEF LocalsFit
      <4>4. locals' = [locals EXCEPT ![t] = v]
        BY <3>4
      <4>. HIDE DEF v, l
      <4>5. QED
        BY <2>6, <3>1, <4>1, <4>3, <4>4
    <3>5. CASE locals' = [locals EXCEPT ![t] = [locals[t] EXCEPT !.cap = slice.cap]]
      <4>. DEFINE v == [l EXCEPT !.cap = slice.cap]
      <4>1. v \in Locals /\ v.len = l.len /\ v.i = l.i /\ v.item = l.item
        BY <2>1, <2>2, <3>2 DEF Locals, Words
      <4>2. LocalsFit(v, at[t])
        BY <2>1, <3>1, <4>1 DEF LocalsFit, Appending
      <4>3. locals' = [locals EXCEPT ![t] = v]
        BY <3>5
      <4>. HIDE DEF v, l
      <4>4. QED
        BY <2>6, <3>1, <4>1, <4>2, <4>3
    <3>6. QED
      BY <2>8, <3>3, <3>4, <3>5, LoadWordMoves
  <2>9. CASE Found(t) \/ Recover(t)
    <3>1. /\ Same /\ mem' = mem /\ slice' = slice
          /\ at' = [at EXCEPT ![t] = "idle"] /\ locals' = [locals EXCEPT ![t] = Fresh]
      BY <2>9 DEF Found, Recover, Leave, Go, memory, history
    <3>2. "idle" \in Places
      BY DEF Places
    <3>. HIDE DEF Same
    <3>3. QED
      BY <1>1, <2>3, <2>5, <3>1, <3>2
  <2>10. CASE Skip(t)
    <3>1. /\ Same /\ mem' = mem /\ slice' = slice /\ at' = at /\ at[t] = "scan"
          /\ locals' = [locals EXCEPT ![t] = [l EXCEPT !.i = l.i + 1]]
          /\ l.len # Unread /\ ~(l.i >= l.len)
      BY <2>10 DEF Skip, Loaded, Scanned, memory, history
    <3>. DEFINE v == [l EXCEPT !.i = l.i + 1]
    <3>2. v \in Locals /\ v.len = l.len /\ v.i = l.i + 1
      BY <2>1, <2>2 DEF Locals
    <3>3. v.i <= v.len
      BY <2>2, <3>1, <3>2 DEF Words
    <3>4. LocalsFit(v, at[t])
      BY <3>1, <3>2, <3>3 DEF LocalsFit, Appending
    <3>. HIDE DEF v, Same
    <3>5. QED
      BY <2>6, <3>1, <3>2, <3>4 DEF v
  <2>11. CASE Fault(t)
    <3>1. /\ Same /\ mem' = mem /\ slice' = slice
          /\ at' = [at EXCEPT ![t] = "panic"] /\ locals' = [locals EXCEPT ![t] = l]
      BY <1>1, <2>11 DEF Fault, Go, memory, history
    <3>2. LocalsFit(l, "panic") /\ "panic" \in Places
      BY <2>1 DEF LocalsFit, Appending, Places
    <3>. HIDE DEF Same, l
    <3>3. QED
      BY <1>1, <2>1, <2>5, <3>1, <3>2
  <2>12. CASE AppendInPlace(t)
    <3>1. /\ Same /\ mem' = mem /\ slice' = slice /\ at[t] = "append"
          /\ at' = [at EXCEPT ![t] = "storeLen"] /\ locals' = [locals EXCEPT ![t] = l]
      BY <1>1, <2>12 DEF AppendInPlace, Go, memory, history
    <3>2. Unread \notin {l.array, l.len, l.cap}
      BY <2>12, <3>1 DEF AppendInPlace, Loaded
    <3>3. LocalsFit(l, "storeLen") /\ "storeLen" \in Places
      BY <2>1, <3>1, <3>2 DEF LocalsFit, Appending, Places
    <3>. HIDE DEF Same, l
    <3>4. QED
      BY <1>1, <2>1, <2>5, <3>1, <3>3
  <2>13. CASE Make(t)
    <3>. DEFINE v == [Fresh EXCEPT !.name = l.name, !.item = <<l.name, made[l.name] + 1>>]
    <3>1. made[l.name] + 1 \in Nat
      BY <1>1, <2>2
    <3>2. <<l.name, made[l.name] + 1>> \in Items
      BY <2>2, <3>1 DEF Items
    <3>3. v \in Locals /\ v.len = Unread /\ v.i = 0 /\ v.item \in Items
      BY <2>2, <2>3, <3>2 DEF Locals
    <3>4. LocalsFit(v, "append") /\ "append" \in Places
      BY <3>3 DEF LocalsFit, Places, Appending
    <3>5. /\ locals' = [locals EXCEPT ![t] = v] /\ at' = [at EXCEPT ![t] = "append"] /\ mem' = mem
          /\ slice' = slice /\ calls' = calls /\ stray' = stray
      BY <2>13 DEF Make, Go, memory
    <3>6. made' \in [Names -> Nat]
      BY <1>1, <2>2, <2>13, <3>1 DEF Make
    <3>7. met' \in [Threads -> BOOLEAN]
      BY <1>1, <2>13 DEF Make
    <3>8. clashed' \in BOOLEAN /\ overlapped' \in BOOLEAN
      BY <1>1, <2>13 DEF Make
    <3>. HIDE DEF v
    <3>9. QED
      BY <1>1, <2>4, <3>3, <3>4, <3>5, <3>6, <3>7, <3>8
  <2>14. CASE StoreCap(t) \/ StoreArray(t) \/ StoreLen(t)
    <3>1. /\ at[t] \in {"storeCap", "storeArray", "storeLen"} /\ mem' = mem /\ Same
          /\ locals' = [locals EXCEPT ![t] = l]
      BY <1>1, <2>14 DEF StoreCap, StoreArray, StoreLen, Go, history
    <3>2. l.item \in Items /\ Unread \notin {l.array, l.len, l.cap}
      BY <2>1, <3>1 DEF LocalsFit, Appending
    <3>3. PICK to \in {"storeArray", "storeLen", "storeItem"} : at' = [at EXCEPT ![t] = to]
      BY <2>14 DEF StoreCap, StoreArray, StoreLen, Go
    <3>4. LocalsFit(l, to) /\ to \in Places
      BY <2>1, <3>2 DEF LocalsFit, Appending, Places
    <3>5. l.array \in 0 .. Len(mem) /\ l.len \in Nat /\ l.cap \in Nat
      BY <2>2, <3>2 DEF Words
    <3>6. \/ slice' = [slice EXCEPT !.cap = l.cap] \/ slice' = [slice EXCEPT !.array = l.array]
          \/ slice' = [slice EXCEPT !.len = l.len + 1]
      BY <2>14 DEF StoreCap, StoreArray, StoreLen
    <3>. HIDE DEF l, Same
    <3>7. slice' \in [array : 0 .. Len(mem), len : Nat, cap : Nat]
      <4>1. CASE slice' = [slice EXCEPT !.cap = l.cap]
        BY <1>1, <3>5, <4>1
      <4>2. CASE slice' = [slice EXCEPT !.array = l.array]
        BY <1>1, <3>5, <4>2
      <4>3. CASE slice' = [slice EXCEPT !.len = l.len + 1]
        <5>1. l.len + 1 \in Nat
          BY <3>5
        <5>2. QED
          BY <1>1, <4>3, <5>1
      <4>4. QED
        BY <3>6, <4>1, <4>2, <4>3
    <3>8. QED
      BY <2>1, <2>5, <3>1, <3>3, <3>4, <3>7
  <2>15. CASE Grow(t)
    <3>1. /\ at[t] = "append" /\ at' = [at EXCEPT ![t] = "storeCap"] /\ slice' = slice /\ Same
          /\ locals' = [locals EXCEPT ![t] = [l EXCEPT !.array = Len(mem) + 1, !.cap = NewCap(t)]]
          /\ l.array # Unread /\ l.len # Unread /\ l.cap # Unread
      BY <2>15 DEF Grow, Go, Loaded, history
    <3>2. NewCap(t) \in Nat
      BY <2>2, <3>1 DEF NewCap, Words
    <3>. DEFINE new == [k \in 1 .. NewCap(t) |->
                              IF k <= Copied(t) /\ Within(l.array, k - 1)
                              THEN Element(l.array, k - 1) ELSE Nil]
                v == [l EXCEPT !.array = Len(mem) + 1, !.cap = NewCap(t)]
    <3>3. mem' = Append(mem, new)
      BY <2>15 DEF Grow
    <3>4. new \in Seq(Items \cup {Nil})
      <4>1. ASSUME NEW k \in 1 .. NewCap(t), Within(l.array, k - 1)
            PROVE  Element(l.array, k - 1) \in Items \cup {Nil}
        <5>1. l.array \in 1 .. Len(mem) /\ k \in 1 .. Len(mem[l.array])
          BY <2>2, <3>2, <4>1 DEF Within
        <5>2. mem[l.array] \in Seq(Items \cup {Nil})
          BY <1>1, <5>1
        <5>3. mem[l.array][k] \in Items \cup {Nil}
          BY <5>1, <5>2
        <5>4. QED
          BY <3>2, <5>3 DEF Element
      <4>. HIDE DEF l
      <4>2. new \in [1 .. NewCap(t) -> Items \cup {Nil}]
        BY <4>1
      <4>. HIDE DEF new
      <4>3. QED
        BY <3>2, <4>2
    <3>. HIDE DEF new
    <3>5. mem' \in Seq(Seq(Items \cup {Nil})) /\ Len(mem') = Len(mem) + 1
      BY <1>1, <3>3, <3>4
    <3>6. v \in Locals' /\ v.array = Len(mem) + 1 /\ v.len = l.len /\ v.cap = NewCap(t)
          /\ v.i = l.i /\ v.item = l.item
      <4>1. Len(mem) + 1 \in 0 .. Len(mem') /\ 0 .. Len(mem) \subseteq 0 .. Len(mem')
        BY <1>1, <3>5
      <4>2. NewCap(t) \in Words
        BY <3>2 DEF Words
      <4>. DEFINE n == Len(mem) + 1
                  c == NewCap(t)
                  A == 0 .. Len(mem')
      <4>3. l \in [array : {Unread} \cup A, len : Words, cap : Words, i : Nat, name : Names,
                   item : Items \cup {Nil}]
        BY <2>1, <4>1 DEF Locals
      <4>4. n \in A /\ c \in Words
        BY <4>1, <4>2
      <4>. HIDE DEF l, n, c, A
      <4>5. /\ [l EXCEPT !.array = n, !.cap = c]
                   \in [array : {Unread} \cup A, len : Words, cap : Words, i : Nat, name : Names,
                       item : Items \cup {Nil}]
            /\ [l EXCEPT !.array = n, !.cap = c].array = n /\ [l EXCEPT !.array = n, !.cap = c].cap = c
            /\ [l EXCEPT !.array = n, !.cap = c].len = l.len /\ [l EXCEPT !.array = n, !.cap = c].i = l.i
            /\ [l EXCEPT !.array = n, !.cap = c].item = l.item
        BY <4>3, <4>4
      <4>6. Locals' = [array : {Unread} \cup A, len : Words, cap : Words, i : Nat, name : Names,
                       item : Items \cup {Nil}]
        BY DEF Locals, A, Words, Items
      <4>7. QED
        BY <4>5, <4>6 DEF n, c
    <3>7. v.array # Unread /\ v.cap # Unread
      BY <1>1, <3>2, <3>6
    <3>8. LocalsFit(v, "storeCap") /\ "storeCap" \in Places
      BY <2>1, <3>1, <3>6, <3>7 DEF LocalsFit, Appending, Places
    <3>9. locals' = [locals EXCEPT ![t] = v]
      BY <3>1
    <3>. HIDE DEF v, l
    <3>10. Len(mem') \in Nat /\ Len(mem) <= Len(mem')
      BY <1>1, <3>5
    <3>11. /\ locals' \in [Threads -> Locals'] /\ at' \in [Threads -> Places]
           /\ \A u \in Threads : LocalsFit(locals'[u], at'[u])
      BY <3>1, <3>6, <3>8, <3>9, <3>10, CallMoves
    <3>12. slice' \in [array : 0 .. Len(mem'), len : Nat, cap : Nat]
      BY <1>1, <3>1, <3>5
    <3>13. QED
      BY <1>1, <3>1, <3>5, <3>11, <3>12 DEF HTypeOK
  <2>16. CASE StoreItem(t)
    <3>1. /\ at[t] = "storeItem" /\ at' = [at EXCEPT ![t] = "idle"] /\ slice' = slice
          /\ locals' = [locals EXCEPT ![t] = Fresh]
          /\ UNCHANGED <<calls, made, met, clashed, overlapped>>
          /\ stray' \in BOOLEAN
      BY <1>1, <2>16 DEF StoreItem, Leave, Go
    <3>2. l.item \in Items /\ Unread \notin {l.array, l.len, l.cap}
      BY <2>1, <3>1 DEF LocalsFit, Appending
    <3>3. mem' \in Seq(Seq(Items \cup {Nil})) /\ Len(mem') = Len(mem)
      <4>1. CASE Within(l.array, l.len)
        <5>1. l.array \in 1 .. Len(mem) /\ l.len + 1 \in 1 .. Len(mem[l.array])
          BY <2>2, <3>2, <4>1 DEF Within, Words
        <5>2. mem' = [mem EXCEPT ![l.array][l.len + 1] = l.item]
          BY <2>16, <4>1 DEF StoreItem
        <5>. HIDE DEF l
        <5>3. mem[l.array] \in Seq(Items \cup {Nil})
          BY <1>1, <5>1
        <5>. DEFINE row == [mem[l.array] EXCEPT ![l.len + 1] = l.item]
        <5>4. row \in Seq(Items \cup {Nil})
          BY <3>2, <5>1, <5>3, ExceptSeq
        <5>5. mem' = [mem EXCEPT ![l.array] = row]
          BY <5>2
        <5>. HIDE DEF row
        <5>6. QED
          BY <1>1, <5>1, <5>4, <5>5, ExceptSeq
      <4>2. CASE ~Within(l.array, l.len)
        BY <1>1, <2>16, <4>2 DEF StoreItem
      <4>3. QED
        BY <4>1, <4>2
    <3>4. Locals' = Locals
      BY <3>3 DEF Locals, Words, Items
    <3>5. "idle" \in Places
      BY DEF Places
    <3>6. /\ locals' \in [Threads -> Locals'] /\ at' \in [Threads -> Places]
          /\ \A u \in Threads : LocalsFit(locals'[u], at'[u])
      BY <1>1, <2>3, <3>1, <3>3, <3>4, <3>5, CallMoves
    <3>7. QED
      BY <1>1, <3>1, <3>3, <3>6 DEF HTypeOK
  <2>17. QED
    BY <1>3, <2>7, <2>8, <2>9, <2>10, <2>11, <2>12, <2>13, <2>14, <2>15, <2>16 DEF Get
<1>4. QED
  BY <1>2, <1>3 DEF HNext

-----------------------------------------------------------------------------
(* The caches: the slice.                                                  *)

\* Steps of a call outside its append, but for the one that begins it.
Looks(t) ==
    \/ \E n \in Names : Call(t, n)
    \/ at[t] = "scan" /\ LoadWord(t)
    \/ Found(t) \/ Skip(t) \/ Fault(t) \/ Recover(t)

Appends(t) ==
    \/ at[t] = "append" /\ LoadWord(t)
    \/ AppendInPlace(t) \/ Grow(t)
    \/ StoreCap(t) \/ StoreArray(t) \/ StoreLen(t) \/ StoreItem(t)

LEMMA GetCases ==
    ASSUME NEW t \in Threads, Get(t)
    PROVE  Looks(t) \/ Make(t) \/ Appends(t)
BY DEF Get, Looks, Appends, LoadWord

LEMMA CallsApart ==
    ASSUME HTypeOK, NEW t \in Threads, Get(t)
    PROVE  /\ \A u \in Threads \ {t} : locals'[u] = locals[u] /\ at'[u] = at[u] /\ (met[u] => met'[u])
           /\ clashed => clashed'
           /\ overlapped => overlapped'
<1>1. locals \in [Threads -> Locals] /\ at \in [Threads -> Places] /\ met \in [Threads -> BOOLEAN]
  BY DEF HTypeOK
<1>2. CASE \E n \in Names : Call(t, n)
  <2>1. PICK n \in Names : Call(t, n)
    BY <1>2
  <2>2. /\ at' = [at EXCEPT ![t] = "scan"]
        /\ locals' = [locals EXCEPT ![t] = [locals[t] EXCEPT !.name = n]]
    BY <2>1 DEF Call, Go
  <2>3. met' = [met EXCEPT ![t] = AppendingNow # {}] /\ clashed' = clashed
        /\ overlapped' = (overlapped \/ met'[t])
    BY <2>1 DEF Call
  <2>4. \A u \in Threads \ {t} : locals'[u] = locals[u] /\ at'[u] = at[u]
    BY <1>1, <2>2
  <2>5. \A u \in Threads \ {t} : met'[u] = met[u]
    BY <1>1, <2>3
  <2>6. QED
    BY <2>3, <2>4, <2>5
<1>3. CASE LoadWord(t)
  <2>1. \A u \in Threads \ {t} : locals'[u] = locals[u]
    BY <1>1, <1>3, LoadWordMoves
  <2>2. QED
    BY <1>3, <2>1 DEF LoadWord, history
<1>4. CASE Found(t) \/ Recover(t)
  BY <1>1, <1>4 DEF Found, Recover, Leave, Go, history
<1>5. CASE Skip(t) \/ Fault(t)
  BY <1>1, <1>5 DEF Skip, Fault, Go, history
<1>6. CASE Make(t)
  BY <1>1, <1>6 DEF Make, Go
<1>7. CASE AppendInPlace(t) \/ Grow(t) \/ StoreCap(t) \/ StoreArray(t) \/ StoreLen(t)
  BY <1>1, <1>7 DEF AppendInPlace, Grow, StoreCap, StoreArray, StoreLen, Go, history
<1>8. CASE StoreItem(t)
  BY <1>1, <1>8 DEF StoreItem, Leave, Go
<1>9. QED
  BY <1>2, <1>3, <1>4, <1>5, <1>6, <1>7, <1>8 DEF Get

LEMMA LooksMove ==
    ASSUME HTypeOK, NEW t \in Threads, Looks(t)
    PROVE  /\ mem' = mem /\ slice' = slice /\ made' = made /\ stray' = stray /\ clashed' = clashed
           /\ at[t] \in {"idle", "scan", "panic"} /\ at'[t] \in {"idle", "scan", "panic"}
           /\ AppendingNow' = AppendingNow /\ Storing' = Storing
<1>1. at \in [Threads -> Places]
  BY DEF HTypeOK
<1>2. CASE \E n \in Names : Call(t, n)
  BY <1>1, <1>2 DEF Call, Go, memory, AppendingNow, Appending, Storing
<1>3. CASE at[t] = "scan" /\ LoadWord(t)
  BY <1>1, <1>3 DEF LoadWord, memory, history, AppendingNow, Storing
<1>4. CASE Found(t)
  BY <1>1, <1>4 DEF Found, Leave, Go, memory, history, AppendingNow, Appending, Storing
<1>5. CASE Skip(t)
  BY <1>1, <1>5 DEF Skip, memory, history, AppendingNow, Storing
<1>6. CASE Fault(t)
  BY <1>1, <1>6 DEF Fault, Go, memory, history, AppendingNow, Appending, Storing
<1>7. CASE Recover(t)
  BY <1>1, <1>7 DEF Recover, Leave, Go, memory, history, AppendingNow, Appending, Storing
<1>8. QED
  BY <1>2, <1>3, <1>4, <1>5, <1>6, <1>7 DEF Looks

LEMMA AppendsMove ==
    ASSUME HTypeOK, NEW t \in Threads, Appends(t)
    PROVE  /\ t \in AppendingNow /\ made' = made /\ clashed' = clashed /\ met' = met
           /\ overlapped' = overlapped
BY DEF Appends, LoadWord, AppendInPlace, Grow, StoreCap, StoreArray, StoreLen, StoreItem, Leave, Go,
       history, AppendingNow, Appending

\* SliceInv and, for an append that is alone, what it says of it.
LEMMA SliceFacts ==
    ASSUME HTypeOK, SliceInv, ~clashed, NEW t \in AppendingNow
    PROVE  /\ \A u \in Threads : u # t => at[u] \notin Appending
           /\ Appender(t) /\ ~stray
           /\ Storing <=> at[t] = "storeItem"
           /\ at[t] # "storeItem" => HoldsUpTo(slice.array, slice.len)
           /\ at[t] = "storeItem" => HoldsUpTo(slice.array, slice.len - 1)
           /\ at[t] # "storeArray" => slice.cap = ArrayLen(slice.array)
<1>1. t \in Threads /\ at[t] \in Appending
  BY DEF AppendingNow
<1>2. \A u \in Threads : u # t => at[u] \notin Appending
  BY DEF SliceInv, AppendingNow
<1>3. \A u \in Threads : u # t => at[u] # "storeItem" /\ at[u] # "storeArray"
  BY <1>2 DEF Appending
<1>4. Storing <=> at[t] = "storeItem"
  BY <1>1, <1>3 DEF Storing
<1>5. QED
  BY <1>1, <1>2, <1>3, <1>4 DEF SliceInv

\* The other way round.
LEMMA SliceFromFacts ==
    ASSUME NEW t \in Threads, ~stray',
           \A u \in Threads : u # t => at'[u] \notin Appending,
           at'[t] \in Appending => Appender(t)',
           at'[t] # "storeItem" => HoldsUpTo(slice.array, slice.len)',
           at'[t] = "storeItem" => HoldsUpTo(slice.array, slice.len - 1)',
           at'[t] # "storeArray" => slice'.cap = ArrayLen(slice.array)'
    PROVE  SliceInv'
<1>1. \A u \in Threads : u # t => at'[u] # "storeItem" /\ at'[u] # "storeArray"
  BY DEF Appending
<1>2. Storing' <=> at'[t] = "storeItem"
  BY <1>1 DEF Storing
<1>3. \A u \in AppendingNow' : u = t
  BY DEF AppendingNow
<1>4. \A u \in AppendingNow' : Appender(u)'
  BY <1>3 DEF AppendingNow
<1>5. HoldsUpTo(slice.array, IF Storing THEN slice.len - 1 ELSE slice.len)'
  BY <1>2
<1>6. QED
  BY <1>1, <1>3, <1>4, <1>5 DEF SliceInv

LEMMA SliceTypes ==
    ASSUME HTypeOK
    PROVE  /\ mem \in Seq(Seq(Items \cup {Nil})) /\ Len(mem) \in Nat
           /\ slice.array \in 0 .. Len(mem) /\ slice.len \in Nat /\ slice.cap \in Nat
           /\ \A a \in 1 .. Len(mem) : Len(mem[a]) \in Nat /\ ArrayLen(a) = Len(mem[a])
           /\ ArrayLen(0) = 0 /\ ArrayLen(slice.array) \in Nat
<1>1. mem \in Seq(Seq(Items \cup {Nil})) /\ slice \in [array : 0 .. Len(mem), len : Nat, cap : Nat]
  BY DEF HTypeOK
<1>2. Len(mem) \in Nat /\ \A a \in 1 .. Len(mem) : Len(mem[a]) \in Nat
  BY <1>1
<1>3. \A a \in 1 .. Len(mem) : ArrayLen(a) = Len(mem[a])
  BY <1>2 DEF ArrayLen
<1>4. ArrayLen(0) = 0
  BY DEF ArrayLen
<1>5. slice.array \in 0 .. Len(mem) /\ slice.len \in Nat /\ slice.cap \in Nat
  BY <1>1
<1>6. slice.array = 0 \/ slice.array \in 1 .. Len(mem)
  BY <1>2, <1>5
<1>7. QED
  BY <1>1, <1>2, <1>3, <1>4, <1>5, <1>6

LEMMA LocalsTypes ==
    ASSUME HTypeOK, NEW t \in Threads
    PROVE  /\ at[t] \in Places
           /\ locals[t].array \in {Unread} \cup 0 .. Len(mem)
           /\ locals[t].len \in Words /\ locals[t].cap \in Words /\ locals[t].i \in Nat
           /\ locals[t].name \in Names
           /\ at[t] \in Appending => locals[t].item \in Items
           /\ at[t] \in Appending \ {"append"} =>
                 locals[t].array # Unread /\ locals[t].len # Unread /\ locals[t].cap # Unread
           /\ IF locals[t].len = Unread THEN locals[t].i = 0 ELSE locals[t].i <= locals[t].len
<1>1. locals[t] \in Locals /\ LocalsFit(locals[t], at[t]) /\ at[t] \in Places
  BY DEF HTypeOK
<1>2. QED
  BY <1>1 DEF Locals, LocalsFit

LEMMA LooksKeepSlice ==
    ASSUME HTypeOK, SliceInv, NEW t \in Threads, Looks(t)
    PROVE  SliceInv'
<1>1. /\ mem' = mem /\ slice' = slice /\ stray' = stray /\ clashed' = clashed
      /\ at[t] \in {"idle", "scan", "panic"} /\ at'[t] \in {"idle", "scan", "panic"}
      /\ AppendingNow' = AppendingNow /\ Storing' = Storing
  BY LooksMove
<1>2. \A u \in Threads \ {t} : locals'[u] = locals[u] /\ at'[u] = at[u]
  <2>1. Get(t)
    BY DEF Looks, Get
  <2>2. QED
    BY <2>1, CallsApart
<1>3. SUFFICES ASSUME ~clashed PROVE SliceInv'
  BY <1>1 DEF SliceInv
<1>4. \A u \in AppendingNow : u \in Threads \ {t}
  BY <1>1 DEF AppendingNow, Appending
<1>5. \A u \in AppendingNow : Appender(u) => Appender(u)'
  BY <1>1, <1>2, <1>4 DEF Appender, ArrayLen
<1>6. (\A u \in Threads : at'[u] # "storeArray") => \A u \in Threads : at[u] # "storeArray"
  BY <1>1, <1>2
<1>7. ArrayLen(slice.array)' = ArrayLen(slice.array)
  BY <1>1 DEF ArrayLen
<1>8. HoldsUpTo(slice.array, IF Storing THEN slice.len - 1 ELSE slice.len)' <=>
         HoldsUpTo(slice.array, IF Storing THEN slice.len - 1 ELSE slice.len)
  BY <1>1, <1>7 DEF HoldsUpTo
<1>9. QED
  BY <1>1, <1>3, <1>5, <1>6, <1>7, <1>8 DEF SliceInv

LEMMA MakeKeepsSlice ==
    ASSUME HTypeOK, SliceInv, NEW t \in Threads, Make(t)
    PROVE  SliceInv'
<1>1. at \in [Threads -> Places] /\ locals \in [Threads -> Locals]
  BY DEF HTypeOK
<1>2. mem' = mem /\ slice' = slice /\ stray' = stray /\ at' = [at EXCEPT ![t] = "append"]
  BY DEF Make, Go, memory
<1>3. CASE clashed'
  BY <1>3 DEF SliceInv
<1>4. CASE ~clashed'
  <2>1. ~clashed /\ AppendingNow = {}
    BY <1>4 DEF Make
  <2>2. \A u \in Threads : at[u] \notin Appending
    BY <2>1 DEF AppendingNow
  <2>3. ~Storing /\ \A u \in Threads : at[u] # "storeArray"
    BY <2>2 DEF Storing, Appending
  <2>4. HoldsUpTo(slice.array, slice.len) /\ slice.cap = ArrayLen(slice.array) /\ ~stray
    BY <2>1, <2>3 DEF SliceInv
  <2>5. \A u \in Threads : u # t => at'[u] \notin Appending
    BY <1>1, <1>2, <2>2
  <2>6. at'[t] = "append"
    BY <1>1, <1>2
  <2>7. locals'[t].array = Unread /\ locals'[t].len = Unread /\ locals'[t].cap = Unread
    <3>1. locals'[t] = [Fresh EXCEPT !.name = locals[t].name,
                                     !.item = <<locals[t].name, made[locals[t].name] + 1>>]
      BY <1>1 DEF Make
    <3>2. QED
      BY <3>1, CacheConstants
  <2>8. Appender(t)'
    BY <2>6, <2>7 DEF Appender
  <2>9. ArrayLen(slice.array)' = ArrayLen(slice.array) /\ HoldsUpTo(slice.array, slice.len)'
    BY <1>2, <2>4 DEF ArrayLen, HoldsUpTo
  <2>10. slice'.cap = ArrayLen(slice.array)' /\ ~stray'
    BY <1>2, <2>4, <2>9
  <2>11. QED
    BY <2>5, <2>6, <2>8, <2>9, <2>10, SliceFromFacts
<1>5. QED
  BY <1>3, <1>4

LEMMA ItemsAreThere == \A item \in Items : item # Nil /\ item[1] \in Names
<1>1. TAKE item \in Items
<1>2. PICK n \in Names, k \in Nat : item = <<n, k>>
  BY DEF Items
<1>3. Len(<<n, k>>) = 2 /\ Len(<<>>) = 0
  OBVIOUS
<1>4. QED
  BY <1>2, <1>3 DEF Nil

\* The steps of an append that is alone, one by one.
LEMMA AppendsKeepSlice ==
    ASSUME HTypeOK, SliceInv, NEW t \in Threads, Appends(t)
    PROVE  SliceInv'
<1>1. SUFFICES ASSUME ~clashed PROVE SliceInv'
  BY AppendsMove DEF SliceInv
<1>. DEFINE A == slice.array
            L == slice.len
            l == locals[t]
<1>2. t \in AppendingNow /\ clashed' = clashed
  BY AppendsMove
<1>3. /\ \A u \in Threads : u # t => at[u] \notin Appending
      /\ Appender(t) /\ ~stray
      /\ at[t] # "storeItem" => HoldsUpTo(A, L)
      /\ at[t] = "storeItem" => HoldsUpTo(A, L - 1)
      /\ at[t] # "storeArray" => slice.cap = ArrayLen(A)
  BY <1>1, <1>2, SliceFacts
<1>4. /\ at \in [Threads -> Places] /\ locals \in [Threads -> Locals]
      /\ slice \in [array : 0 .. Len(mem), len : Nat, cap : Nat]
  BY DEF HTypeOK
<1>5. /\ mem \in Seq(Seq(Items \cup {Nil})) /\ Len(mem) \in Nat
      /\ A \in 0 .. Len(mem) /\ L \in Nat /\ slice.cap \in Nat
      /\ \A a \in 1 .. Len(mem) : Len(mem[a]) \in Nat /\ ArrayLen(a) = Len(mem[a])
      /\ ArrayLen(0) = 0 /\ ArrayLen(A) \in Nat
  BY SliceTypes
<1>6. /\ l.array \in {Unread} \cup 0 .. Len(mem)
      /\ l.len \in {Unread} \cup Nat /\ l.cap \in {Unread} \cup Nat
      /\ at[t] \in Appending => l.item \in Items
  BY LocalsTypes DEF Words
<1>7. \A u \in Threads : u # t => at'[u] \notin Appending
  <2>1. Get(t)
    BY DEF Appends, Get
  <2>2. QED
    BY <1>3, <2>1, CallsApart
<1>8. CASE at[t] = "append" /\ LoadWord(t)
  <2>1. mem' = mem /\ slice' = slice /\ at' = at /\ stray' = stray
    BY <1>8 DEF LoadWord, memory, history
  <2>2. HoldsUpTo(A, L)' /\ ArrayLen(A)' = ArrayLen(A)
    BY <1>3, <1>8, <2>1 DEF HoldsUpTo, ArrayLen
  <2>3. /\ locals'[t].array \in {Unread, A} /\ locals'[t].len \in {Unread, L}
        /\ locals'[t].cap \in {Unread, slice.cap}
    <3>1. l.array \in {Unread, A} /\ l.len \in {Unread, L} /\ l.cap \in {Unread, slice.cap}
      BY <1>3, <1>8 DEF Appender
    <3>2. l \in Locals
      BY <1>4
    <3>3. \/ locals'[t] = [l EXCEPT !.array = A]
          \/ locals'[t] = [l EXCEPT !.len = L]
          \/ locals'[t] = [l EXCEPT !.cap = slice.cap]
      BY <1>4, <1>8, LoadWordMoves
    <3>4. QED
      BY <3>1, <3>2, <3>3 DEF Locals
  <2>4. Appender(t)'
    BY <1>8, <2>1, <2>3 DEF Appender
  <2>5. QED
    BY <1>3, <1>7, <1>8, <2>1, <2>2, <2>4, SliceFromFacts
<1>9. CASE AppendInPlace(t)
  <2>1. /\ mem' = mem /\ slice' = slice /\ locals' = locals /\ stray' = stray
        /\ at[t] = "append" /\ at'[t] = "storeLen"
    BY <1>4, <1>9 DEF AppendInPlace, Go, memory, history
  <2>2. l.array = A /\ l.len = L /\ l.cap = slice.cap
    BY <1>3, <1>9, <2>1 DEF AppendInPlace, Loaded, Appender
  <2>3. L < ArrayLen(A)
    <3>1. L + 1 <= ArrayLen(A)
      BY <1>3, <1>9, <2>1, <2>2 DEF AppendInPlace, Fits
    <3>2. QED
      BY <1>5, <3>1
  <2>4. HoldsUpTo(A, L)' /\ ArrayLen(A)' = ArrayLen(A)
    BY <1>3, <2>1 DEF HoldsUpTo, ArrayLen
  <2>5. Appender(t)'
    BY <2>1, <2>2, <2>3, <2>4 DEF Appender
  <2>6. QED
    BY <1>3, <1>7, <2>1, <2>4, <2>5, SliceFromFacts
<1>10. CASE Grow(t)
  <2>. DEFINE new == [k \in 1 .. NewCap(t) |->
                        IF k <= Copied(t) /\ Within(l.array, k - 1)
                        THEN Element(l.array, k - 1) ELSE Nil]
  <2>1. /\ slice' = slice /\ stray' = stray /\ at[t] = "append" /\ at'[t] = "storeCap"
        /\ mem' = Append(mem, new)
        /\ locals' = [locals EXCEPT ![t].array = Len(mem) + 1, ![t].cap = NewCap(t)]
    BY <1>4, <1>10 DEF Grow, Go, history
  <2>2. l.array = A /\ l.len = L /\ l.cap = slice.cap
    BY <1>3, <1>10, <2>1 DEF Grow, Loaded, Appender
  <2>3. L = ArrayLen(A) /\ slice.cap = L
    <3>1. ~(L + 1 <= slice.cap) /\ slice.cap = ArrayLen(A)
      BY <1>3, <1>10, <2>1, <2>2 DEF Grow, Fits
    <3>2. L \in 0 .. ArrayLen(A)
      BY <1>3, <2>1 DEF HoldsUpTo
    <3>3. QED
      BY <1>5, <3>1, <3>2
  <2>4. NewCap(t) \in Nat /\ L < NewCap(t)
    BY <1>5, <2>2, <2>3 DEF NewCap
  <2>5. \A k \in 1 .. NewCap(t) : new[k] = IF k <= L THEN mem[A][k] ELSE Nil
    <3>1. SUFFICES ASSUME NEW k \in 1 .. NewCap(t), k <= L
                   PROVE  Within(A, k - 1) /\ Element(A, k - 1) = mem[A][k]
      BY <2>2 DEF Copied
    <3>2. k \in Nat /\ 1 <= k /\ k <= ArrayLen(A)
      BY <2>3, <2>4, <3>1
    <3>3. A # 0 /\ A \in 1 .. Len(mem)
      BY <1>5, <3>2
    <3>4. k - 1 < Len(mem[A]) /\ (k - 1) + 1 = k
      BY <1>5, <3>2, <3>3
    <3>5. QED
      BY <3>3, <3>4 DEF Within, Element
  <2>. DEFINE N == NewCap(t)
  <2>6. Len(new) = N
    BY <2>4
  <2>. HIDE DEF new, N
  <2>7. /\ \A a \in 1 .. Len(mem) : mem'[a] = mem[a]
        /\ mem'[Len(mem) + 1] = new /\ Len(mem') = Len(mem) + 1
    BY <1>5, <2>1
  <2>8. ArrayLen(A)' = ArrayLen(A) /\ HoldsUpTo(A, L)'
    <3>1. A = 0 \/ mem'[A] = mem[A]
      BY <1>5, <2>7
    <3>2. ArrayLen(A)' = ArrayLen(A)
      BY <2>1, <3>1 DEF ArrayLen
    <3>3. HoldsUpTo(A, L)
      BY <1>3, <2>1
    <3>4. \A k \in 1 .. ArrayLen(A) : mem'[A][k] = mem[A][k]
      BY <1>5, <3>1
    <3>5. QED
      BY <2>1, <3>2, <3>3, <3>4 DEF HoldsUpTo
  <2>9. locals'[t].array = Len(mem) + 1 /\ locals'[t].cap = N /\ locals'[t].len = L
    BY <1>4, <2>1, <2>2 DEF Locals, N
  <2>10. \A k \in 1 .. N : mem'[Len(mem) + 1][k] = IF k <= L THEN mem'[A][k] ELSE Nil
    <3>1. SUFFICES ASSUME NEW k \in 1 .. N, k <= L PROVE mem'[A][k] = mem[A][k]
      BY <2>5, <2>7 DEF N
    <3>2. A # 0
      BY <1>5, <2>3, <2>4, <3>1 DEF N
    <3>3. QED
      BY <1>5, <2>7, <3>2
  <2>11. Appender(t)'
    <3>1. Len(mem) + 1 \in 1 .. Len(mem')
      BY <1>5, <2>7
    <3>2. L < N /\ Len(mem'[Len(mem) + 1]) = N
      BY <2>4, <2>6, <2>7 DEF N
    <3>3. QED
      BY <2>1, <2>9, <2>10, <3>1, <3>2 DEF Appender
  <2>12. QED
    BY <1>3, <1>7, <2>1, <2>8, <2>11, SliceFromFacts
<1>11. CASE StoreCap(t)
  <2>1. /\ mem' = mem /\ slice' = [slice EXCEPT !.cap = l.cap] /\ locals' = locals
        /\ stray' = stray /\ at[t] = "storeCap" /\ at'[t] = "storeArray"
    BY <1>4, <1>11 DEF StoreCap, Go, history
  <2>2. slice'.array = A /\ slice'.len = L /\ slice'.cap = l.cap
    BY <1>4, <2>1
  <2>3. HoldsUpTo(A, L)'
    BY <1>3, <2>1, <2>2 DEF HoldsUpTo, ArrayLen
  <2>4. Appender(t)'
    BY <1>3, <2>1, <2>2 DEF Appender
  <2>5. QED
    BY <1>3, <1>7, <2>1, <2>3, <2>4, SliceFromFacts
<1>12. CASE StoreArray(t)
  <2>1. /\ mem' = mem /\ slice' = [slice EXCEPT !.array = l.array] /\ locals' = locals
        /\ stray' = stray /\ at[t] = "storeArray" /\ at'[t] = "storeLen"
    BY <1>4, <1>12 DEF StoreArray, Go, history
  <2>2. slice'.array = l.array /\ slice'.len = L /\ slice'.cap = slice.cap
    BY <1>4, <2>1
  <2>3. /\ l.len = L /\ L < l.cap /\ l.array \in 1 .. Len(mem) /\ Len(mem[l.array]) = l.cap
        /\ \A k \in 1 .. l.cap : mem[l.array][k] = IF k <= L THEN mem[A][k] ELSE Nil
        /\ slice.cap = l.cap
    BY <1>3, <2>1 DEF Appender
  <2>4. ArrayLen(slice.array)' = l.cap
    BY <1>5, <2>1, <2>2, <2>3 DEF ArrayLen
  <2>5. HoldsUpTo(slice.array, slice.len)'
    <3>1. L \in 0 .. l.cap
      BY <1>5, <2>3
    <3>2. \A k \in 1 .. l.cap : mem[l.array][k] # Nil <=> k <= L
      <4>1. SUFFICES ASSUME NEW k \in 1 .. l.cap, k <= L PROVE mem[A][k] # Nil
        BY <2>3
      <4>2. HoldsUpTo(A, L)
        BY <1>3, <2>1
      <4>3. k \in 1 .. ArrayLen(A)
        BY <1>5, <2>3, <4>1, <4>2 DEF HoldsUpTo
      <4>4. QED
        BY <4>1, <4>2, <4>3 DEF HoldsUpTo
    <3>3. QED
      BY <2>1, <2>2, <2>4, <3>1, <3>2 DEF HoldsUpTo
  <2>6. Appender(t)'
    BY <2>1, <2>2, <2>3, <2>4 DEF Appender
  <2>7. QED
    BY <1>3, <1>7, <2>1, <2>2, <2>3, <2>4, <2>5, <2>6, SliceFromFacts
<1>13. CASE StoreLen(t)
  <2>1. /\ mem' = mem /\ slice' = [slice EXCEPT !.len = l.len + 1] /\ locals' = locals
        /\ stray' = stray /\ at[t] = "storeLen" /\ at'[t] = "storeItem"
    BY <1>4, <1>13 DEF StoreLen, Go, history
  <2>2. l.array = A /\ l.len = L /\ L < ArrayLen(A)
    BY <1>3, <2>1 DEF Appender
  <2>3. slice'.array = A /\ slice'.len = L + 1 /\ slice'.cap = slice.cap
    BY <1>4, <2>1, <2>2
  <2>4. ArrayLen(A)' = ArrayLen(A)
    BY <2>1, <2>3 DEF ArrayLen
  <2>5. slice'.len - 1 = L /\ slice'.len <= ArrayLen(A)
    BY <1>5, <2>2, <2>3
  <2>6. HoldsUpTo(slice.array, slice.len - 1)'
    BY <1>3, <2>1, <2>3, <2>4, <2>5 DEF HoldsUpTo
  <2>7. Appender(t)'
    BY <2>1, <2>2, <2>3, <2>4, <2>5 DEF Appender
  <2>8. QED
    BY <1>3, <1>7, <2>1, <2>3, <2>4, <2>6, <2>7, SliceFromFacts
<1>14. CASE StoreItem(t)
  <2>1. slice' = slice /\ at[t] = "storeItem" /\ at'[t] = "idle"
    BY <1>4, <1>14 DEF StoreItem, Leave, Go
  <2>2. l.array = A /\ l.len + 1 = L /\ L <= ArrayLen(A)
    BY <1>3, <2>1 DEF Appender
  <2>3. l.len # Unread
    BY <2>1, LocalsTypes DEF Appending
  <2>4. l.len \in Nat /\ l.len = L - 1 /\ L \in 1 .. ArrayLen(A)
    BY <1>5, <1>6, <2>2, <2>3
  <2>5. A \in 1 .. Len(mem) /\ Len(mem[A]) = ArrayLen(A)
    BY <1>5, <2>4
  <2>6. Within(l.array, l.len)
    BY <1>5, <2>2, <2>4, <2>5 DEF Within
  <2>7. mem' = [mem EXCEPT ![A][L] = l.item] /\ stray' = stray
    BY <1>14, <2>2, <2>6 DEF StoreItem
  <2>8. l.item # Nil
    <3>1. l.item \in Items
      BY <1>6, <2>1 DEF Appending
    <3>. HIDE DEF l
    <3>2. QED
      BY <3>1, ItemsAreThere
  <2>9. mem'[A] = [mem[A] EXCEPT ![L] = l.item]
    BY <1>5, <2>5, <2>7
  <2>10. mem[A] \in Seq(Items \cup {Nil})
    BY <1>5, <2>5
  <2>11. /\ Len(mem'[A]) = Len(mem[A]) /\ mem'[A][L] = l.item
         /\ \A k \in 1 .. ArrayLen(A) : k # L => mem'[A][k] = mem[A][k]
    BY <1>5, <2>4, <2>5, <2>9, <2>10
  <2>12. ArrayLen(slice.array)' = ArrayLen(A)
    BY <2>1, <2>5, <2>11 DEF ArrayLen
  <2>13. HoldsUpTo(slice.array, slice.len)'
    <3>1. \A k \in 1 .. ArrayLen(A) : mem[A][k] # Nil <=> k <= L - 1
      BY <1>3, <2>1 DEF HoldsUpTo
    <3>2. \A k \in 1 .. ArrayLen(A) : mem'[A][k] # Nil <=> k <= L
      <4>1. TAKE k \in 1 .. ArrayLen(A)
      <4>2. k # L => (k <= L <=> k <= L - 1)
        BY <1>5, <2>4
      <4>3. L <= L
        BY <1>5
      <4>4. QED
        BY <2>8, <2>11, <3>1, <4>2, <4>3
    <3>3. L \in 0 .. ArrayLen(A)
      BY <1>5, <2>4
    <3>4. QED
      BY <2>1, <2>12, <3>2, <3>3 DEF HoldsUpTo
  <2>14. QED
    BY <1>3, <1>7, <2>1, <2>7, <2>12, <2>13, SliceFromFacts DEF Appending
<1>15. QED
  BY <1>8, <1>9, <1>10, <1>11, <1>12, <1>13, <1>14 DEF Appends

LEMMA SliceStep == HTypeOK /\ SliceInv /\ [HNext]_hvars => SliceInv'
<1>. SUFFICES ASSUME HTypeOK, SliceInv, [HNext]_hvars PROVE SliceInv'
  OBVIOUS
<1>1. CASE UNCHANGED hvars
  BY <1>1 DEF hvars, memory, history, SliceInv, AppendingNow, Appender, HoldsUpTo, ArrayLen, Storing
<1>2. ASSUME NEW t \in Threads, Get(t) PROVE SliceInv'
  BY <1>2, GetCases, LooksKeepSlice, MakeKeepsSlice, AppendsKeepSlice
<1>3. QED
  BY <1>1, <1>2 DEF HNext

\* A call that met no append finds every item that it counts on.
LEMMA NoFaultUnmet ==
    ASSUME HTypeOK, SliceInv, ScanInv, ~clashed, NEW t \in Threads, Fault(t)
    PROVE  met[t]
<1>. SUFFICES ASSUME ~met[t] PROVE FALSE
  OBVIOUS
<1>. DEFINE A == slice.array
            L == slice.len
            i == locals[t].i
<1>1. at[t] = "scan" /\ Loaded(t) /\ ~Scanned(t)
      /\ (Within(locals[t].array, i) => Element(locals[t].array, i) = Nil)
  BY DEF Fault, Go
<1>2. AppendingNow = {} /\ locals[t].array = A /\ locals[t].len = L
  BY <1>1 DEF ScanInv, ScanOK, Loaded
<1>3. HoldsUpTo(A, L)
  <2>1. ~Storing
    BY <1>2 DEF AppendingNow, Storing, Appending
  <2>2. QED
    BY <2>1 DEF SliceInv
<1>4. L \in Nat /\ i \in Nat /\ i < L /\ ArrayLen(A) \in Nat
  <2>1. L \in Nat /\ i \in Nat /\ ArrayLen(A) \in Nat
    BY SliceTypes, LocalsTypes
  <2>2. ~(i >= L)
    BY <1>1, <1>2 DEF Scanned
  <2>3. QED
    BY <2>1, <2>2
<1>5. i + 1 \in 1 .. ArrayLen(A) /\ i + 1 <= L
  BY <1>3, <1>4 DEF HoldsUpTo
<1>6. A \in 1 .. Len(mem) /\ ArrayLen(A) = Len(mem[A])
  BY <1>5, SliceTypes
<1>7. i < Len(mem[A]) /\ A > 0
  BY <1>4, <1>5, <1>6, SliceTypes
<1>8. mem[A][i + 1] = Nil
  BY <1>1, <1>2, <1>7 DEF Within, Element
<1>9. QED
  BY <1>3, <1>5, <1>8 DEF HoldsUpTo

LEMMA ScanStep == HTypeOK /\ SliceInv /\ ScanInv /\ [HNext]_hvars => ScanInv'
<1>. SUFFICES ASSUME HTypeOK, SliceInv, ScanInv, [HNext]_hvars PROVE ScanInv'
  OBVIOUS
<1>1. CASE UNCHANGED hvars
  BY <1>1 DEF hvars, memory, history, ScanInv, ScanOK, AppendingNow
<1>2. ASSUME NEW t \in Threads, Get(t) PROVE ScanInv'
  <2>1. \A u \in Threads : ScanOK(u)
    BY DEF ScanInv
  <2>2. /\ \A u \in Threads \ {t} : locals'[u] = locals[u] /\ at'[u] = at[u]
                                    /\ (met[u] => met'[u])
        /\ clashed => clashed'
    BY <1>2, CallsApart
  <2>3. /\ at \in [Threads -> Places] /\ locals \in [Threads -> Locals]
        /\ met \in [Threads -> BOOLEAN]
    BY DEF HTypeOK
  <2>4. CASE Looks(t)
    <3>1. slice' = slice /\ clashed' = clashed /\ AppendingNow' = AppendingNow
      BY <2>4, LooksMove
    <3>2. \A u \in Threads \ {t} : ScanOK(u)'
      BY <2>1, <2>2, <3>1 DEF ScanOK
    <3>3. CASE \E n \in Names : Call(t, n)
      <4>1. PICK n \in Names : Call(t, n)
        BY <3>3
      <4>2. at[t] = "idle" /\ at'[t] = "scan" /\ met'[t] = (AppendingNow # {})
            /\ locals'[t] = [locals[t] EXCEPT !.name = n]
        BY <2>3, <4>1 DEF Call, Go
      <4>3. locals'[t].array = Unread /\ locals'[t].len = Unread
        <5>1. locals[t].array = Unread /\ locals[t].len = Unread
          BY <2>1, <4>2 DEF ScanOK
        <5>2. locals[t] \in Locals
          BY <2>3
        <5>3. QED
          BY <4>2, <5>1, <5>2 DEF Locals
      <4>4. ScanOK(t)'
        BY <3>1, <4>2, <4>3 DEF ScanOK
      <4>5. QED
        BY <3>2, <4>4 DEF ScanInv
    <3>4. CASE at[t] = "scan" /\ LoadWord(t)
      <4>1. at' = at /\ met' = met
        BY <3>4 DEF LoadWord, history
      <4>2. locals[t] \in Locals
        BY <2>3
      <4>3. \/ locals'[t] = [locals[t] EXCEPT !.array = slice.array]
            \/ locals'[t] = [locals[t] EXCEPT !.len = slice.len]
        BY <2>3, <3>4, LoadWordMoves
      <4>4. /\ locals'[t].array \in {locals[t].array, slice.array}
            /\ locals'[t].len \in {locals[t].len, slice.len}
        BY <4>2, <4>3 DEF Locals
      <4>5. ScanOK(t)'
        BY <2>1, <3>1, <3>4, <4>1, <4>4 DEF ScanOK
      <4>6. QED
        BY <3>2, <4>5 DEF ScanInv
    <3>5. CASE Found(t) \/ Recover(t)
      <4>1. at'[t] = "idle" /\ locals'[t] = Fresh
        BY <2>3, <3>5 DEF Found, Recover, Leave, Go
      <4>2. ScanOK(t)'
        BY <4>1, CacheConstants DEF ScanOK
      <4>3. QED
        BY <3>2, <4>2 DEF ScanInv
    <3>6. CASE Skip(t)
      <4>1. at' = at /\ met' = met /\ at[t] = "scan"
            /\ locals'[t] = [locals[t] EXCEPT !.i = locals[t].i + 1]
        BY <2>3, <3>6 DEF Skip, history
      <4>2. locals[t] \in Locals
        BY <2>3
      <4>3. locals'[t].array = locals[t].array /\ locals'[t].len = locals[t].len
        BY <4>1, <4>2 DEF Locals
      <4>4. ScanOK(t)'
        BY <2>1, <3>1, <4>1, <4>3 DEF ScanOK
      <4>5. QED
        BY <3>2, <4>4 DEF ScanInv
    <3>7. CASE Fault(t)
      <4>1. at'[t] = "panic" /\ met' = met
        BY <2>3, <3>7 DEF Fault, Go, history
      <4>2. ~clashed => met[t]
        BY <3>7, NoFaultUnmet
      <4>3. ScanOK(t)'
        BY <3>1, <4>1, <4>2 DEF ScanOK
      <4>4. QED
        BY <3>2, <4>3 DEF ScanInv
    <3>8. QED
      BY <2>4, <3>3, <3>4, <3>5, <3>6, <3>7 DEF Looks
  <2>5. CASE Make(t)
    <3>1. at'[t] = "append"
          /\ \A u \in Threads : u # t /\ at[u] # "idle" => met'[u]
      BY <2>3, <2>5 DEF Make, Go
    <3>2. \A u \in Threads \ {t} : ScanOK(u)'
      BY <2>1, <2>2, <3>1 DEF ScanOK
    <3>3. ScanOK(t)'
      BY <3>1 DEF ScanOK
    <3>4. QED
      BY <3>2, <3>3 DEF ScanInv
  <2>6. CASE Appends(t)
    <3>1. t \in AppendingNow /\ clashed' = clashed /\ met' = met
      BY <2>6, AppendsMove
    <3>2. \A u \in Threads : at[u] = "scan" => met[u]
      BY <2>1, <3>1 DEF ScanOK
    <3>3. \A u \in Threads \ {t} : ScanOK(u)'
      BY <2>1, <2>2, <3>1, <3>2 DEF ScanOK
    <3>4. CASE StoreItem(t)
      <4>1. at'[t] = "idle" /\ locals'[t] = Fresh
        BY <2>3, <3>4 DEF StoreItem, Leave, Go
      <4>2. ScanOK(t)'
        BY <4>1, CacheConstants DEF ScanOK
      <4>3. QED
        BY <3>3, <4>2 DEF ScanInv
    <3>5. CASE ~StoreItem(t)
      <4>1. at'[t] \in Appending
        BY <2>3, <2>6, <3>5 DEF Appends, LoadWord, AppendInPlace, Grow, StoreCap, StoreArray,
                               StoreLen, Go, Appending
      <4>2. ScanOK(t)'
        BY <4>1 DEF ScanOK, Appending
      <4>3. QED
        BY <3>3, <4>2 DEF ScanInv
    <3>6. QED
      BY <3>4, <3>5
  <2>7. QED
    BY <1>2, <2>4, <2>5, <2>6, GetCases
<1>3. QED
  BY <1>1, <1>2 DEF HNext

-----------------------------------------------------------------------------
(* The caches: items of a name.                                            *)

LEMMA Fewer ==
    ASSUME NEW S, IsFiniteSet(S), NEW x \in S, NEW T, T \subseteq S \ {x}
    PROVE  Cardinality(T) \in Nat /\ Cardinality(S) \in Nat /\ Cardinality(T) + 1 <= Cardinality(S)
<1>1. IsFiniteSet(S \ {x}) /\ Cardinality(S \ {x}) = Cardinality(S) - 1
  BY FS_RemoveElement
<1>2. IsFiniteSet(T) /\ Cardinality(T) <= Cardinality(S \ {x})
  BY <1>1, FS_Subset
<1>3. Cardinality(T) \in Nat /\ Cardinality(S) \in Nat
  BY <1>2, FS_CardinalityType
<1>4. QED
  BY <1>1, <1>2, <1>3

LEMMA BlindFinite ==
    ASSUME NEW n
    PROVE  /\ IsFiniteSet(Threads) /\ Cardinality(Threads) \in Nat
           /\ IsFiniteSet(Blind(n)) /\ Cardinality(Blind(n)) \in Nat
           /\ Cardinality(Blind(n)) <= Cardinality(Threads)
<1>1. Blind(n) \subseteq Threads
  BY DEF Blind
<1>2. QED
  BY <1>1, HandlerCacheAssumption, FS_Subset, FS_CardinalityType

\* An item that is in an array stays there.
LEMMA ItemStays ==
    ASSUME HTypeOK, SliceInv, ~clashed, NEW t \in Threads, Get(t),
           NEW a \in 0 .. Len(mem), NEW j, NEW n, ItemAt(a, j, n)
    PROVE  ItemAt(a, j, n)'
<1>1. a \in 1 .. Len(mem) /\ j \in 1 .. Len(mem[a]) /\ mem[a][j] # Nil /\ mem[a][j][1] = n
      /\ Len(mem) \in Nat /\ mem \in Seq(Seq(Items \cup {Nil}))
  BY SliceTypes DEF ItemAt
<1>2. CASE mem' = mem
  BY <1>1, <1>2 DEF ItemAt
<1>3. CASE Grow(t)
  <2>1. \E new : mem' = Append(mem, new)
    BY <1>3 DEF Grow
  <2>2. mem'[a] = mem[a]
    BY <1>1, <2>1
  <2>3. QED
    BY <1>1, <2>2 DEF ItemAt
<1>4. CASE StoreItem(t) /\ mem' # mem
  <2>1. /\ mem' = [mem EXCEPT ![locals[t].array][locals[t].len + 1] = locals[t].item]
        /\ at[t] = "storeItem"
    BY <1>4 DEF StoreItem, Go, Leave
  <2>2. t \in AppendingNow
    BY <2>1 DEF AppendingNow, Appending
  <2>3. /\ locals[t].array = slice.array /\ locals[t].len + 1 = slice.len
        /\ HoldsUpTo(slice.array, slice.len - 1)
    BY <2>1, <2>2, SliceFacts DEF Appender
  <2>4. a = slice.array => j # slice.len
    <3>1. SUFFICES ASSUME a = slice.array, j = slice.len PROVE FALSE
      OBVIOUS
    <3>2. j \in 1 .. ArrayLen(a) /\ mem[a][j] # Nil
      BY <1>1, SliceTypes
    <3>3. j <= j - 1
      BY <2>3, <3>1, <3>2 DEF HoldsUpTo
    <3>4. QED
      BY <3>2, <3>3, SliceTypes
  <2>5. mem' = [mem EXCEPT ![slice.array][slice.len] = locals[t].item]
    BY <2>1, <2>3
  <2>6. CASE a # slice.array
    <3>1. mem'[a] = mem[a]
      BY <1>1, <2>5, <2>6
    <3>2. QED
      BY <1>1, <3>1 DEF ItemAt
  <2>7. CASE a = slice.array
    <3>1. mem'[a] = [mem[a] EXCEPT ![slice.len] = locals[t].item]
      BY <1>1, <2>5, <2>7
    <3>2. mem[a] \in Seq(Items \cup {Nil})
      BY <1>1
    <3>3. mem'[a][j] = mem[a][j] /\ Len(mem'[a]) = Len(mem[a])
      BY <1>1, <2>4, <2>7, <3>1, <3>2
    <3>4. QED
      BY <1>1, <3>3 DEF ItemAt
  <2>8. QED
    BY <2>6, <2>7
<1>5. CASE ~Grow(t) /\ ~StoreItem(t)
  <2>1. mem' = mem
    BY <1>5 DEF Get, Call, LoadWord, Found, Skip, Fault, Recover, Make, AppendInPlace, StoreCap,
               StoreArray, StoreLen, memory
  <2>2. QED
    BY <1>2, <2>1
<1>6. QED
  BY <1>2, <1>3, <1>4, <1>5

\* An item of the slice keeps its position.
LEMMA PlaceStays ==
    ASSUME HTypeOK, SliceInv, ~clashed, NEW t \in Threads, Get(t),
           NEW n, NEW j \in 1 .. slice.len, ItemAt(slice.array, j, n)
    PROVE  j \in 1 .. slice'.len /\ ItemAt(slice.array, j, n)'
<1>1. slice \in [array : 0 .. Len(mem), len : Nat, cap : Nat]
  BY DEF HTypeOK
<1>2. \A a \in 0 .. Len(mem) : ItemAt(a, j, n) => ItemAt(a, j, n)'
  BY ItemStays
<1>3. CASE slice'.array = slice.array /\ slice'.len = slice.len
  BY <1>1, <1>2, <1>3 DEF ItemAt
<1>4. CASE StoreCap(t)
  <2>1. slice'.array = slice.array /\ slice'.len = slice.len
    BY <1>1, <1>4 DEF StoreCap
  <2>2. QED
    BY <1>3, <2>1
<1>5. CASE StoreArray(t)
  <2>1. at[t] = "storeArray" /\ slice' = [slice EXCEPT !.array = locals[t].array] /\ mem' = mem
    BY <1>5 DEF StoreArray, Go
  <2>2. t \in AppendingNow
    BY <2>1 DEF AppendingNow, Appending
  <2>3. Appender(t)
    BY <2>2, SliceFacts
  <2>. DEFINE a == locals[t].array
  <2>4. /\ slice.len < locals[t].cap
        /\ a \in 1 .. Len(mem) /\ Len(mem[a]) = locals[t].cap
        /\ \A k \in 1 .. locals[t].cap :
              mem[a][k] = IF k <= slice.len THEN mem[slice.array][k] ELSE Nil
    BY <2>1, <2>3 DEF Appender
  <2>5. slice'.array = a /\ slice'.len = slice.len
    BY <1>1, <2>1
  <2>6. Len(mem[a]) \in Nat /\ slice.len \in Nat /\ Len(mem) \in Nat
    BY <2>4, SliceTypes
  <2>7. j \in 1 .. Len(mem[a]) /\ j <= slice.len
    BY <2>4, <2>6
  <2>8. mem[a][j] = mem[slice.array][j]
    BY <2>4, <2>7
  <2>9. a > 0
    BY <2>4, <2>6
  <2>10. ItemAt(slice'.array, j, n)
    BY <2>5, <2>7, <2>8, <2>9 DEF ItemAt
  <2>11. QED
    BY <2>1, <2>5, <2>10 DEF ItemAt
<1>6. CASE StoreLen(t)
  <2>1. at[t] = "storeLen" /\ slice' = [slice EXCEPT !.len = locals[t].len + 1] /\ mem' = mem
    BY <1>6 DEF StoreLen, Go
  <2>2. t \in AppendingNow
    BY <2>1 DEF AppendingNow, Appending
  <2>3. locals[t].len = slice.len
    BY <2>1, <2>2, SliceFacts DEF Appender
  <2>4. slice'.array = slice.array /\ slice'.len = slice.len + 1
    BY <1>1, <2>1, <2>3
  <2>5. j \in 1 .. slice'.len
    BY <1>1, <2>4
  <2>6. QED
    BY <2>1, <2>4, <2>5 DEF ItemAt
<1>7. CASE ~StoreCap(t) /\ ~StoreArray(t) /\ ~StoreLen(t)
  <2>1. slice' = slice
    BY <1>7 DEF Get, Call, LoadWord, Found, Skip, Fault, Recover, Make, AppendInPlace, Grow,
               StoreItem, memory
  <2>2. QED
    BY <1>3, <2>1
<1>8. QED
  BY <1>3, <1>4, <1>5, <1>6, <1>7

\* A scan begins with a call.
LEMMA ScanBegins ==
    ASSUME HTypeOK, NEW t \in Threads, Get(t), NEW u \in Threads, at'[u] = "scan"
    PROVE  at[u] = "scan" \/ (u = t /\ \E n \in Names : Call(t, n))
<1>1. at \in [Threads -> Places]
  BY DEF HTypeOK
<1>2. CASE u # t
  BY <1>2, CallsApart
<1>3. CASE u = t /\ ~(\E n \in Names : Call(t, n))
  <2>1. at[t] = "scan" \/ at'[t] # "scan"
    BY <1>1, <1>3 DEF Get, LoadWord, Found, Skip, Fault, Recover, Make, AppendInPlace, Grow,
                      StoreCap, StoreArray, StoreLen, StoreItem, Leave, Go
  <2>2. QED
    BY <1>3, <2>1
<1>4. QED
  BY <1>2, <1>3

\* A scan that will come to an item of its name still does after a step.
LEMMA SightedStays ==
    ASSUME HTypeOK, SliceInv, ~clashed, NEW t \in Threads, Get(t),
           NEW u \in Threads, at[u] = "scan", at'[u] = "scan"
    PROVE  locals'[u].name = locals[u].name /\ (Sighted(u) => Sighted(u)')
<1>. DEFINE l == locals[u]
<1>. PICK n : n = locals[u].name
  OBVIOUS
<1>1. /\ at \in [Threads -> Places] /\ locals \in [Threads -> Locals] /\ l \in Locals
  BY DEF HTypeOK
<1>2. /\ l.array \in {Unread} \cup 0 .. Len(mem) /\ l.len \in Words /\ l.i \in Nat
  BY LocalsTypes
<1>3. CASE u # t
  <2>1. locals'[u] = l
    BY <1>3, CallsApart
  <2>2. ASSUME Sighted(u) PROVE Sighted(u)'
    <3>1. PICK j \in 1 .. slice.len :
             /\ j > l.i /\ ItemAt(slice.array, j, n)
             /\ l.array # Unread => ItemAt(l.array, j, n)
             /\ l.len # Unread => j <= l.len
      BY <2>2 DEF Sighted
    <3>2. j \in 1 .. slice'.len /\ ItemAt(slice.array, j, n)'
      BY <3>1, PlaceStays
    <3>3. l.array # Unread => ItemAt(l.array, j, n)'
      <4>1. \A a \in 0 .. Len(mem) : ItemAt(a, j, n) =>
               a > 0 /\ j \in 1 .. Len(mem'[a]) /\ mem'[a][j] # Nil /\ mem'[a][j][1] = n
        BY ItemStays DEF ItemAt
      <4>2. locals'[u].array = l.array
        BY <2>1
      <4>3. QED
        BY <1>2, <3>1, <4>1, <4>2 DEF ItemAt
    <3>4. QED
      BY <2>1, <3>1, <3>2, <3>3 DEF Sighted
  <2>3. QED
    BY <2>1, <2>2
<1>4. CASE u = t /\ LoadWord(t)
  <2>1. mem' = mem /\ slice' = slice
    BY <1>4 DEF LoadWord, memory
  <2>2. \/ locals'[u] = [l EXCEPT !.array = slice.array]
        \/ locals'[u] = [l EXCEPT !.len = slice.len]
    BY <1>1, <1>4, LoadWordMoves
  <2>3. /\ locals'[u].name = n /\ locals'[u].i = l.i
        /\ locals'[u].array \in {l.array, slice.array} /\ locals'[u].len \in {l.len, slice.len}
    BY <1>1, <2>2 DEF Locals
  <2>4. ASSUME Sighted(u) PROVE Sighted(u)'
    <3>1. PICK j \in 1 .. slice.len :
             /\ j > l.i /\ ItemAt(slice.array, j, n)
             /\ l.array # Unread => ItemAt(l.array, j, n)
             /\ l.len # Unread => j <= l.len
      BY <2>4 DEF Sighted
    <3>2. j <= slice.len
      BY SliceTypes
    <3>3. /\ locals'[u].array # Unread => ItemAt(locals'[u].array, j, n)
          /\ locals'[u].len # Unread => j <= locals'[u].len
      BY <2>3, <3>1, <3>2
    <3>4. QED
      BY <2>1, <2>3, <3>1, <3>3 DEF Sighted, ItemAt
  <2>5. QED
    BY <2>3, <2>4
<1>5. CASE u = t /\ Skip(t)
  <2>1. mem' = mem /\ slice' = slice /\ Loaded(u)
        /\ locals'[u] = [l EXCEPT !.i = l.i + 1]
    BY <1>1, <1>5 DEF Skip, memory
  <2>2. locals'[u].name = n /\ locals'[u].i = l.i + 1 /\ locals'[u].array = l.array
        /\ locals'[u].len = l.len
    BY <1>1, <2>1 DEF Locals
  <2>3. ASSUME Sighted(u) PROVE Sighted(u)'
    <3>1. PICK j \in 1 .. slice.len :
             /\ j > l.i /\ ItemAt(slice.array, j, n)
             /\ l.array # Unread => ItemAt(l.array, j, n)
             /\ l.len # Unread => j <= l.len
      BY <2>3 DEF Sighted
    <3>2. ItemAt(l.array, j, n)
      BY <2>1, <3>1 DEF Loaded
    <3>3. j # l.i + 1
      <4>1. SUFFICES ASSUME j = l.i + 1 PROVE FALSE
        OBVIOUS
      <4>2. l.array \in 1 .. Len(mem) /\ Len(mem[l.array]) \in Nat
        BY <1>2, <3>2, SliceTypes DEF ItemAt, Unread
      <4>3. Within(l.array, l.i)
        BY <1>2, <3>2, <4>1, <4>2 DEF Within, ItemAt
      <4>4. Matches(Element(l.array, l.i), n)
        BY <3>2, <4>1 DEF ItemAt, Element, Matches
      <4>5. QED
        BY <1>5, <4>3, <4>4 DEF Skip
    <3>4. j > l.i + 1
      BY <1>2, <3>1, <3>3, SliceTypes
    <3>5. QED
      BY <2>1, <2>2, <3>1, <3>4 DEF Sighted, ItemAt
  <2>4. QED
    BY <2>2, <2>3
<1>6. CASE u = t /\ ~LoadWord(t) /\ ~Skip(t)
  <2>1. at'[t] # "scan"
    BY <1>1, <1>6 DEF Get, Call, Found, Fault, Recover, Make, AppendInPlace, Grow,
                      StoreCap, StoreArray, StoreLen, StoreItem, Leave, Go
  <2>2. QED
    BY <1>6, <2>1
<1>7. QED
  BY <1>3, <1>4, <1>5, <1>6

LEMMA BlindShrinks ==
    ASSUME HTypeOK, SliceInv, ~clashed, NEW t \in Threads, Get(t), NEW n
    PROVE  /\ Blind(n)' \subseteq Blind(n) \cup {t}
           /\ (\A m \in Names : ~Call(t, m)) => Blind(n)' \subseteq Blind(n)
<1>1. ASSUME NEW u \in Blind(n)', at[u] = "scan" PROVE u \in Blind(n)
  <2>1. u \in Threads /\ at'[u] = "scan" /\ locals'[u].name = n /\ ~Sighted(u)'
    BY <1>1 DEF Blind
  <2>2. locals'[u].name = locals[u].name /\ (Sighted(u) => Sighted(u)')
    BY <1>1, <2>1, SightedStays
  <2>3. QED
    BY <1>1, <2>1, <2>2 DEF Blind
<1>2. \A u \in Blind(n)' : u \in Threads /\ at'[u] = "scan"
  BY DEF Blind
<1>3. QED
  BY <1>1, <1>2, ScanBegins

\* A name that is in the slice is not missed by a call that begins now.
LEMMA CallSights ==
    ASSUME HTypeOK, ScanInv, NEW t \in Threads, NEW n \in Names, Call(t, n)
    PROVE  /\ mem' = mem /\ slice' = slice /\ at'[t] = "scan" /\ locals'[t].name = n
           /\ Stored(n) => Sighted(t)'
<1>1. /\ at \in [Threads -> Places] /\ locals \in [Threads -> Locals]
  BY DEF HTypeOK
<1>2. /\ mem' = mem /\ slice' = slice /\ at[t] = "idle" /\ at'[t] = "scan"
      /\ locals'[t] = [locals[t] EXCEPT !.name = n]
  BY <1>1 DEF Call, Go, memory
<1>3. locals[t].array = Unread /\ locals[t].len = Unread /\ locals[t].i = 0
  BY <1>2 DEF ScanInv, ScanOK
<1>4. /\ locals'[t].array = Unread /\ locals'[t].len = Unread /\ locals'[t].i = 0
      /\ locals'[t].name = n
  BY <1>1, <1>2, <1>3 DEF Locals
<1>5. ASSUME Stored(n) PROVE Sighted(t)'
  <2>1. PICK j \in 1 .. slice.len : ItemAt(slice.array, j, n)
    BY <1>5 DEF Stored
  <2>2. j > 0
    BY <2>1
  <2>3. QED
    BY <1>2, <1>4, <2>1, <2>2 DEF Sighted, ItemAt
<1>6. QED
  BY <1>2, <1>4, <1>5

\* Who makes an item has seen none.
LEMMA MakerBlind ==
    ASSUME HTypeOK, NEW t \in Threads, Make(t)
    PROVE  t \in Blind(locals[t].name) /\ at'[t] = "append" /\ at[t] = "scan"
<1>1. at \in [Threads -> Places]
  BY DEF HTypeOK
<1>2. at[t] = "scan" /\ at'[t] = "append" /\ Loaded(t) /\ Scanned(t)
  BY <1>1 DEF Make, Go
<1>3. ~Sighted(t)
  <2>1. SUFFICES ASSUME NEW j \in 1 .. slice.len, j > locals[t].i, j <= locals[t].len
                 PROVE  FALSE
    BY <1>2 DEF Sighted, Loaded
  <2>2. locals[t].len \in Nat /\ locals[t].i \in Nat
    BY <1>2, LocalsTypes DEF Loaded, Words
  <2>3. locals[t].i >= locals[t].len
    BY <1>2 DEF Scanned
  <2>4. QED
    BY <2>1, <2>2, <2>3, SliceTypes
<1>4. QED
  BY <1>2, <1>3 DEF Blind

\* What is about to be stored is stored or still about to be.
LEMMA ComesTrue ==
    ASSUME HTypeOK, SliceInv, ~clashed, NEW t \in Threads, Appends(t), NEW n, Coming(n)
    PROVE  Stored(n)' \/ Coming(n)'
<1>1. /\ at \in [Threads -> Places] /\ locals \in [Threads -> Locals]
      /\ slice \in [array : 0 .. Len(mem), len : Nat, cap : Nat]
  BY DEF HTypeOK
<1>2. t \in AppendingNow /\ \A u \in Threads : u # t => at[u] \notin Appending
  BY AppendsMove, SliceFacts
<1>3. locals[t].item[1] = n
  BY <1>2 DEF Coming, AppendingNow
<1>4. CASE StoreItem(t)
  <2>1. at[t] = "storeItem" /\ slice' = slice
    BY <1>4 DEF StoreItem, Leave, Go
  <2>. DEFINE A == slice.array
              L == slice.len
  <2>2. locals[t].array = A /\ locals[t].len + 1 = L /\ L <= ArrayLen(A)
    BY <1>2, <2>1, SliceFacts DEF Appender
  <2>3. locals[t].item \in Items /\ locals[t].len \in Nat
    BY <2>1, LocalsTypes DEF Appending, Words
  <2>4. L \in 1 .. ArrayLen(A) /\ locals[t].len = L - 1
    BY <2>2, <2>3, SliceTypes
  <2>5. A \in 1 .. Len(mem) /\ Len(mem[A]) = ArrayLen(A) /\ Len(mem[A]) \in Nat
    BY <2>4, SliceTypes
  <2>6. Within(locals[t].array, locals[t].len)
    BY <2>2, <2>4, <2>5, SliceTypes DEF Within
  <2>7. mem' = [mem EXCEPT ![A][L] = locals[t].item]
    BY <1>4, <2>2, <2>6 DEF StoreItem
  <2>8. mem \in Seq(Seq(Items \cup {Nil})) /\ mem[A] \in Seq(Items \cup {Nil})
    BY <2>5, SliceTypes
  <2>9. mem'[A] = [mem[A] EXCEPT ![L] = locals[t].item]
    BY <2>5, <2>7, <2>8
  <2>10. mem'[A][L] = locals[t].item /\ Len(mem'[A]) = Len(mem[A])
    BY <2>4, <2>5, <2>8, <2>9
  <2>11. A > 0 /\ L \in 1 .. L /\ L \in 1 .. Len(mem'[A])
    BY <2>4, <2>5, <2>10, SliceTypes
  <2>12. locals[t].item # Nil
    BY <2>3, ItemsAreThere
  <2>13. Stored(n)'
    BY <1>3, <2>1, <2>10, <2>11, <2>12 DEF Stored, ItemAt
  <2>14. QED
    BY <2>13
<1>5. CASE ~StoreItem(t)
  <2>1. at'[t] \in Appending
    BY <1>1, <1>5 DEF Appends, LoadWord, AppendInPlace, Grow, StoreCap, StoreArray, StoreLen, Go,
                      Appending
  <2>2. locals'[t].item = locals[t].item
    <3>1. locals[t] \in Locals
      BY <1>1
    <3>2. CASE LoadWord(t)
      <4>1. \/ locals'[t] = [locals[t] EXCEPT !.array = slice.array]
            \/ locals'[t] = [locals[t] EXCEPT !.len = slice.len]
            \/ locals'[t] = [locals[t] EXCEPT !.cap = slice.cap]
        BY <1>1, <3>2, LoadWordMoves
      <4>2. QED
        BY <3>1, <4>1 DEF Locals
    <3>3. CASE Grow(t)
      BY <1>1, <3>1, <3>3 DEF Grow, Locals
    <3>4. CASE AppendInPlace(t) \/ StoreCap(t) \/ StoreArray(t) \/ StoreLen(t)
      BY <3>4 DEF AppendInPlace, StoreCap, StoreArray, StoreLen
    <3>5. QED
      BY <1>5, <3>2, <3>3, <3>4 DEF Appends
  <2>3. QED
    BY <1>3, <2>1, <2>2 DEF Coming, AppendingNow
<1>6. QED
  BY <1>4, <1>5

LEMMA StoredStays ==
    ASSUME HTypeOK, SliceInv, ~clashed, NEW t \in Threads, Get(t), NEW n, Stored(n)
    PROVE  Stored(n)'
<1>1. PICK j \in 1 .. slice.len : ItemAt(slice.array, j, n)
  BY DEF Stored
<1>2. j \in 1 .. slice'.len /\ ItemAt(slice.array, j, n)'
  BY <1>1, PlaceStays
<1>3. QED
  BY <1>2 DEF Stored

LEMMA CacheItemsOK ==
    ASSUME HTypeOK, SliceInv, ScanInv, ItemsInv, NEW t \in Threads, Get(t), ~clashed',
           NEW n \in Names
    PROVE  ItemsOK(n)'
<1>1. ~clashed /\ \A u \in Threads \ {t} : locals'[u] = locals[u] /\ at'[u] = at[u]
  BY CallsApart
<1>2. /\ at \in [Threads -> Places] /\ locals \in [Threads -> Locals] /\ made \in [Names -> Nat]
      /\ made[n] \in Nat /\ locals[t].name \in Names
  BY LocalsTypes DEF HTypeOK
<1>3. ItemsOK(n)
  BY <1>1 DEF ItemsInv
<1>4. Stored(n) => Stored(n)'
  BY <1>1, StoredStays
<1>5. /\ Blind(n)' \subseteq Blind(n) \cup {t}
      /\ (\A m \in Names : ~Call(t, m)) => Blind(n)' \subseteq Blind(n)
  BY <1>1, BlindShrinks
<1>6. /\ IsFiniteSet(Threads) /\ Cardinality(Threads) \in Nat
      /\ IsFiniteSet(Blind(n)) /\ Cardinality(Blind(n)) \in Nat
      /\ Cardinality(Blind(n)) <= Cardinality(Threads)
  BY BlindFinite
<1>7. Blind(n)' \subseteq Threads
  BY DEF Blind
<1>. DEFINE b == Cardinality(Blind(n))
            c == Cardinality(Threads)
\* No more blind calls, no more items ...
<1>8. ASSUME made'[n] = made[n], made[n] >= 1, Blind(n)' \subseteq Blind(n)
      PROVE  made'[n] + Cardinality(Blind(n)') <= c
  <2>1. made[n] + b <= c
    BY <1>3, <1>8 DEF ItemsOK
  <2>2. IsFiniteSet(Blind(n)') /\ Cardinality(Blind(n)') <= b /\ Cardinality(Blind(n)') \in Nat
    BY <1>6, <1>8, FS_Subset, FS_CardinalityType
  <2>3. QED
    BY <1>2, <1>6, <1>8, <2>1, <2>2
\* ... and the first item has its appender, who is not blind.
<1>9. ASSUME made'[n] = 1, NEW u \in Threads, u \notin Blind(n)'
      PROVE  made'[n] + Cardinality(Blind(n)') <= c
  <2>1. Blind(n)' \subseteq Threads \ {u}
    BY <1>7, <1>9
  <2>2. Cardinality(Blind(n)') \in Nat /\ Cardinality(Blind(n)') + 1 <= c
    BY <1>6, <2>1, Fewer
  <2>3. QED
    BY <1>6, <1>9, <2>2
<1>10. CASE Make(t)
  <2>. DEFINE m == locals[t].name
  <2>1. AppendingNow = {}
    BY <1>10 DEF Make
  <2>2. ~Coming(n)
    BY <2>1 DEF Coming
  <2>3. /\ t \in Blind(m) /\ at'[t] = "append" /\ at[t] = "scan"
    BY <1>10, MakerBlind
  <2>4. made' = [made EXCEPT ![m] = made[m] + 1]
        /\ locals'[t] = [Fresh EXCEPT !.name = m, !.item = <<m, made[m] + 1>>]
    BY <1>2, <1>10 DEF Make
  <2>5. t \notin Blind(n)'
    BY <2>3 DEF Blind
  <2>6. Blind(n)' \subseteq Blind(n)
    BY <1>5, <2>5
  <2>7. CASE n = m /\ made[n] = 0
    <3>1. made'[n] = 1
      BY <1>2, <2>4, <2>7
    <3>2. Coming(n)'
      <4>1. locals'[t].item = <<m, made[m] + 1>>
        BY <2>4, CacheConstants
      <4>2. locals'[t].item[1] = n
        BY <2>7, <4>1
      <4>3. t \in AppendingNow'
        BY <2>3 DEF AppendingNow, Appending
      <4>4. QED
        BY <4>2, <4>3 DEF Coming
    <3>3. made'[n] + Cardinality(Blind(n)') <= c
      BY <1>9, <2>5, <3>1
    <3>4. QED
      BY <3>1, <3>2, <3>3 DEF ItemsOK
  <2>8. CASE n = m /\ made[n] # 0
    <3>1. Stored(n) /\ made[n] + b <= c
      BY <1>2, <1>3, <2>2, <2>8 DEF ItemsOK
    <3>2. made'[n] = made[n] + 1
      BY <1>2, <2>4, <2>8
    <3>3. Blind(n)' \subseteq Blind(n) \ {t} /\ t \in Blind(n)
      BY <2>3, <2>5, <2>6, <2>8
    <3>4. Cardinality(Blind(n)') \in Nat /\ Cardinality(Blind(n)') + 1 <= b
      BY <1>6, <3>3, Fewer
    <3>5. made'[n] + Cardinality(Blind(n)') <= c
      BY <1>2, <1>6, <3>1, <3>2, <3>4
    <3>6. QED
      BY <1>4, <3>1, <3>5 DEF ItemsOK
  <2>9. CASE n # m
    <3>1. made'[n] = made[n]
      BY <1>2, <2>4, <2>9
    <3>2. made[n] >= 1 => Stored(n)
      BY <1>3, <2>2 DEF ItemsOK
    <3>3. QED
      BY <1>4, <1>8, <2>6, <3>1, <3>2 DEF ItemsOK
  <2>10. QED
    BY <2>7, <2>8, <2>9
<1>11. CASE \E m \in Names : Call(t, m)
  <2>1. PICK m \in Names : Call(t, m)
    BY <1>11
  <2>2. /\ mem' = mem /\ slice' = slice /\ at'[t] = "scan" /\ locals'[t].name = m
        /\ Stored(m) => Sighted(t)'
    BY <2>1, CallSights
  <2>3. made' = made /\ AppendingNow' = AppendingNow /\ at[t] \notin Appending
    <3>1. Looks(t)
      BY <2>1 DEF Looks
    <3>2. QED
      BY <3>1, LooksMove DEF Appending
  <2>4. Coming(n) => Coming(n)'
    <3>1. \A u \in AppendingNow : u \in Threads \ {t}
      BY <2>3 DEF AppendingNow
    <3>2. QED
      BY <1>1, <2>3, <3>1 DEF Coming
  <2>5. CASE n = m /\ ~Stored(n)
    <3>1. SUFFICES ASSUME made[n] >= 1 PROVE ItemsOK(n)'
      BY <2>3 DEF ItemsOK
    <3>2. made[n] = 1 /\ Coming(n)
      BY <1>3, <2>5, <3>1 DEF ItemsOK
    <3>3. PICK u \in AppendingNow : TRUE
      BY <3>2 DEF Coming
    <3>4. u \in Threads /\ u \notin Blind(n)'
      <4>1. u \in Threads /\ at'[u] \in Appending
        BY <2>3, <3>3 DEF AppendingNow
      <4>2. QED
        BY <4>1 DEF Blind, Appending
    <3>5. made'[n] + Cardinality(Blind(n)') <= c
      BY <1>9, <2>3, <3>2, <3>4
    <3>6. QED
      BY <2>3, <2>4, <3>2, <3>5 DEF ItemsOK
  <2>6. CASE n # m \/ Stored(n)
    <3>1. t \notin Blind(n)'
      BY <2>2, <2>6 DEF Blind
    <3>2. Blind(n)' \subseteq Blind(n)
      BY <1>5, <3>1
    <3>3. made[n] >= 1 => made'[n] + Cardinality(Blind(n)') <= c
      BY <1>8, <2>3, <3>2
    <3>4. QED
      BY <1>3, <1>4, <2>3, <2>4, <3>3 DEF ItemsOK
  <2>7. QED
    BY <2>5, <2>6
<1>12. CASE ~Make(t) /\ \A m \in Names : ~Call(t, m)
  <2>1. made' = made /\ (Coming(n) => Stored(n)' \/ Coming(n)')
    <3>1. CASE Looks(t)
      <4>1. made' = made /\ AppendingNow' = AppendingNow /\ at[t] \notin Appending
        BY <3>1, LooksMove DEF Appending
      <4>2. \A u \in AppendingNow : u \in Threads \ {t}
        BY <4>1 DEF AppendingNow
      <4>3. QED
        BY <1>1, <4>1, <4>2 DEF Coming
    <3>2. CASE Appends(t)
      BY <1>1, <3>2, AppendsMove, ComesTrue
    <3>3. QED
      BY <1>12, <3>1, <3>2, GetCases
  <2>2. Blind(n)' \subseteq Blind(n)
    BY <1>5, <1>12
  <2>3. made[n] >= 1 => made'[n] + Cardinality(Blind(n)') <= c
    BY <1>8, <2>1, <2>2
  <2>4. QED
    BY <1>3, <1>4, <2>1, <2>3 DEF ItemsOK
<1>13. QED
  BY <1>10, <1>11, <1>12

LEMMA CacheOneItem ==
    ASSUME HTypeOK, SliceInv, ScanInv, ItemsInv, NEW t \in Threads, Get(t), ~overlapped'
    PROVE  ~clashed' /\ \A n \in Names : OneItem(n)'
<1>1. ~overlapped /\ ~clashed /\ \A n \in Names : OneItem(n)
  BY CallsApart DEF ItemsInv
<1>2. /\ at \in [Threads -> Places] /\ made \in [Names -> Nat] /\ met \in [Threads -> BOOLEAN]
      /\ locals[t].name \in Names
  BY LocalsTypes DEF HTypeOK
<1>3. \A n \in Names : /\ Blind(n)' \subseteq Blind(n) \cup {t}
                       /\ (\A m \in Names : ~Call(t, m)) => Blind(n)' \subseteq Blind(n)
  BY <1>1, BlindShrinks
<1>4. CASE Make(t)
  <2>. DEFINE m == locals[t].name
  <2>1. \A u \in Threads : ~met'[u]
    BY <1>4 DEF Make
  <2>2. AppendingNow = {} /\ \A u \in Threads : u # t => at[u] = "idle"
    BY <1>4, <2>1 DEF Make
  <2>3. ~clashed'
    BY <1>1, <1>4, <2>2 DEF Make
  <2>4. t \in Blind(m) /\ at'[t] = "append"
    BY <1>4, MakerBlind
  <2>5. made' = [made EXCEPT ![m] = made[m] + 1]
    BY <1>2, <1>4 DEF Make
  <2>6. \A u \in Threads : at'[u] # "scan"
    BY <1>4, <2>2, <2>4, CallsApart
  <2>7. \A n \in Names : Blind(n)' = {}
    BY <2>6 DEF Blind
  <2>8. made[m] = 0
    <3>1. made[m] <= 1 /\ made[m] # 1 /\ made[m] \in Nat
      BY <1>1, <1>2, <2>4 DEF OneItem
    <3>2. QED
      BY <3>1
  <2>9. \A n \in Names : made'[n] <= 1
    <3>1. TAKE n \in Names
    <3>2. made'[n] = IF n = m THEN 1 ELSE made[n]
      BY <1>2, <2>5, <2>8
    <3>3. QED
      BY <1>1, <3>2 DEF OneItem
  <2>10. QED
    BY <2>3, <2>7, <2>9 DEF OneItem
<1>5. CASE \E m \in Names : Call(t, m)
  <2>1. PICK m \in Names : Call(t, m)
    BY <1>5
  <2>2. /\ at'[t] = "scan" /\ locals'[t].name = m /\ (Stored(m) => Sighted(t)')
    BY <2>1, CallSights
  <2>3. AppendingNow = {} /\ made' = made /\ clashed' = clashed
    BY <1>2, <2>1 DEF Call
  <2>4. \A n \in Names : made[n] = 1 => Stored(n)
    <3>1. \A n \in Names : ~Coming(n) /\ ItemsOK(n)
      BY <1>1, <2>3 DEF Coming, ItemsInv
    <3>2. QED
      BY <3>1 DEF ItemsOK
  <2>5. ASSUME NEW n \in Names PROVE OneItem(n)'
    <3>1. SUFFICES ASSUME made[n] = 1 PROVE Blind(n)' = {}
      BY <1>1, <2>3 DEF OneItem
    <3>2. t \notin Blind(n)'
      BY <2>2, <2>4, <3>1 DEF Blind
    <3>3. Blind(n) = {}
      BY <1>1, <3>1 DEF OneItem
    <3>4. QED
      BY <1>3, <3>2, <3>3
  <2>6. QED
    BY <1>1, <2>3, <2>5
<1>6. CASE ~Make(t) /\ \A m \in Names : ~Call(t, m)
  <2>1. made' = made /\ clashed' = clashed
    BY <1>6, GetCases, LooksMove, AppendsMove
  <2>2. QED
    BY <1>1, <1>3, <1>6, <2>1 DEF OneItem
<1>7. QED
  BY <1>4, <1>5, <1>6

LEMMA ItemsStep == HTypeOK /\ SliceInv /\ ScanInv /\ ItemsInv /\ [HNext]_hvars => ItemsInv'
<1>. SUFFICES ASSUME HTypeOK, SliceInv, ScanInv, ItemsInv, [HNext]_hvars PROVE ItemsInv'
  OBVIOUS
<1>1. CASE UNCHANGED hvars
  <2>1. UNCHANGED <<slice, mem, at, locals, calls, made, met, clashed, overlapped, stray>>
    BY <1>1 DEF hvars, memory, history
  <2>2. \A n \in Names : (ItemsOK(n)' <=> ItemsOK(n)) /\ (OneItem(n)' <=> OneItem(n))
    BY <2>1 DEF ItemsOK, OneItem, Stored, Coming, AppendingNow, Blind, Sighted, ItemAt
  <2>3. QED
    BY <2>1, <2>2 DEF ItemsInv
<1>2. ASSUME NEW t \in Threads, Get(t) PROVE ItemsInv'
  BY <1>2, CacheItemsOK, CacheOneItem DEF ItemsInv
<1>3. QED
  BY <1>1, <1>2 DEF HNext

-----------------------------------------------------------------------------
(* The caches: the invariant.                                              *)

HInv == HTypeOK /\ SliceInv /\ ScanInv /\ ItemsInv

LEMMA CacheInit == HInit => HInv
<1>. SUFFICES ASSUME HInit PROVE HInv
  OBVIOUS
<1>1. /\ mem = <<>> /\ slice = [array |-> 0, len |-> 0, cap |-> 0]
      /\ at = [t \in Threads |-> "idle"] /\ locals = [t \in Threads |-> Fresh]
      /\ calls = 0 /\ made = [n \in Names |-> 0] /\ met = [t \in Threads |-> FALSE]
      /\ clashed = FALSE /\ overlapped = FALSE /\ stray = FALSE
  BY DEF HInit, NewArrays
<1>2. Fresh \in Locals /\ LocalsFit(Fresh, "idle")
  BY CacheConstants DEF Locals, Words, LocalsFit, Appending
<1>3. HTypeOK
  <2>1. mem \in Seq(Seq(Items \cup {Nil})) /\ Len(mem) = 0
    BY <1>1
  <2>2. slice \in [array : 0 .. Len(mem), len : Nat, cap : Nat]
    BY <1>1, <2>1
  <2>3. /\ at \in [Threads -> Places] /\ locals \in [Threads -> Locals]
        /\ \A t \in Threads : LocalsFit(locals[t], at[t])
    BY <1>1, <1>2 DEF Places
  <2>4. calls \in 0 .. MaxCalls /\ made \in [Names -> Nat] /\ met \in [Threads -> BOOLEAN]
    BY <1>1, CacheConstants
  <2>5. QED
    BY <1>1, <2>1, <2>2, <2>3, <2>4 DEF HTypeOK
<1>4. \A t \in Threads : at[t] = "idle" /\ locals[t] = Fresh
  BY <1>1
<1>5. AppendingNow = {} /\ ~Storing
  BY <1>4 DEF AppendingNow, Storing, Appending
<1>6. SliceInv
  BY <1>1, <1>5 DEF SliceInv, HoldsUpTo, ArrayLen
<1>7. ScanInv
  BY <1>4, CacheConstants DEF ScanInv, ScanOK
<1>8. ItemsInv
  BY <1>1 DEF ItemsInv, ItemsOK, OneItem
<1>9. QED
  BY <1>3, <1>6, <1>7, <1>8 DEF HInv

LEMMA CacheInductive == HInv /\ [HNext]_hvars => HInv'
BY CacheTypeStep, SliceStep, ScanStep, ItemsStep DEF HInv

LEMMA CacheInvariant == HSpec => []HInv
BY CacheInit, CacheInductive, PTL DEF HSpec

\* The slice header, the arrays and the locals of the get-or-create calls of
\* flow_count_handler.go, flow_limit_handler.go and service_load_balance.go keep
\* their types: nobody stores a word of the slice that it did not load.
THEOREM CacheTypesCorrect == HSpec => []HTypeOK
BY CacheInvariant, PTL DEF HInv

\* Unless two calls append at the same time, the unlocked append of the caches
\* (flow_count_handler.go:41, flow_limit_handler.go:44, service_load_balance.go:91
\* and 165) leaves no hole in the slice, and a request faults on an item only if
\* another one appended during its scan.
THEOREM SoundSlices == HSpec => []SoundUnlessClashed
<1>1. HInv => SoundUnlessClashed
  <2>. SUFFICES ASSUME HInv, ~clashed PROVE SoundUnlessClashed
    BY DEF SoundUnlessClashed
  <2>. USE DEF HInv
  <2>1. ~stray /\ \A t \in Threads : at[t] = "panic" => met[t]
    BY DEF SliceInv, ScanInv, ScanOK
  <2>2. ASSUME NEW i \in 1 .. slice.len, ~(i = slice.len /\ \E t \in Threads : at[t] = "storeItem")
        PROVE  Within(slice.array, i - 1) /\ Element(slice.array, i - 1) # Nil
    <3>. DEFINE A == slice.array
                L == IF Storing THEN slice.len - 1 ELSE slice.len
    <3>1. HoldsUpTo(A, L)
      BY DEF SliceInv
    <3>2. slice.len \in Nat /\ ArrayLen(A) \in Nat /\ ArrayLen(0) = 0 /\ Len(mem) \in Nat
          /\ A \in 0 .. Len(mem) /\ \A a \in 1 .. Len(mem) : ArrayLen(a) = Len(mem[a])
      BY SliceTypes
    <3>3. i <= L
      BY <2>2, <3>2 DEF Storing
    <3>4. L \in 0 .. ArrayLen(A) /\ \A k \in 1 .. ArrayLen(A) : mem[A][k] # Nil <=> k <= L
      BY <3>1 DEF HoldsUpTo
    <3>. HIDE DEF L
    <3>5. i \in 1 .. ArrayLen(A)
      BY <3>2, <3>3, <3>4
    <3>6. A \in 1 .. Len(mem) /\ ArrayLen(A) = Len(mem[A])
      BY <3>2, <3>5
    <3>7. A > 0 /\ i - 1 < Len(mem[A]) /\ (i - 1) + 1 = i
      BY <3>2, <3>5, <3>6
    <3>8. QED
      BY <3>3, <3>4, <3>5, <3>7 DEF Within, Element
  <2>3. QED
    BY <2>1, <2>2 DEF SoundUnlessClashed
<1>2. QED
  BY <1>1, CacheInvariant, PTL

\* A name gets a second counter, limiter, balancer or transport only when a call
\* ran while another one appended, and, unless two appended at once, no more of
\* them than there are requests in flight.
THEOREM SecondItems == HSpec => []SecondItemForCause
<1>1. HInv => SecondItemForCause
  <2>. SUFFICES ASSUME HInv, NEW n \in Names, made[n] > 1
                PROVE  overlapped /\ (clashed \/ made[n] <= Cardinality(Threads))
    BY DEF SecondItemForCause
  <2>1. made[n] \in Nat /\ ItemsInv
    BY DEF HInv, HTypeOK
  <2>2. overlapped
    BY <2>1 DEF ItemsInv, OneItem
  <2>3. Cardinality(Threads) \in Nat /\ Cardinality(Blind(n)) \in Nat
    BY BlindFinite
  <2>4. ASSUME ~clashed PROVE made[n] + Cardinality(Blind(n)) <= Cardinality(Threads)
    BY <2>1, <2>4 DEF ItemsInv, ItemsOK
  <2>5. QED
    BY <2>1, <2>2, <2>3, <2>4
<1>2. QED
  BY <1>1, CacheInvariant, PTL
=============================================================================
