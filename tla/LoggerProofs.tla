---------------------------- MODULE LoggerProofs ----------------------------
(***************************************************************************)
(* Proofs about the log: Logger, for every set of calling goroutines,      *)
(* every channel and buffer size and every sequence of levels, and         *)
(* FileWriter, for every finite set of processes, every buffer size and    *)
(* any number of hours, failing calls and crashes.                         *)
(*                                                                         *)
(* Logger: until Close is through, takeup and logger_default make every    *)
(* goroutine use the first logger; its records for a file are, in order,   *)
(* on the disk, in the buffer and in the channel; its goroutine returns    *)
(* with an empty channel only, after which Close flushes.  A goroutine     *)
(* that is alone between lines 153 and 162 leaves lastTime and lastTimeStr *)
(* equal.                                                                  *)
(*                                                                         *)
(* FileWriter: a process renames to ever later hours, so an hour that gets *)
(* a second file gets it from another process.  A process of which no call *)
(* failed has written records of one hour only into the file it will       *)
(* rename, and never writes into a file that it alone has renamed.         *)
(***************************************************************************)
EXTENDS Logger, FileWriter, SequenceTheorems, FiniteSetTheorems, TLAPS

-----------------------------------------------------------------------------
(* Selections: what a record's level lets through to a file.               *)

\* q is what is left of t when only the levels of S are kept: place tells
\* where in t the elements of q are.
Places(q, t, S, place) ==
    /\ \A i, j \in 1 .. Len(q) : i < j => place[i] < place[j]
    /\ \A i \in 1 .. Len(q) : q[i] = t[place[i]]
    /\ \A k \in 1 .. Len(t) : t[k].level \in S <=> \E i \in 1 .. Len(q) : place[i] = k

Selection(q, t, S) ==
    \E place \in [1 .. Len(q) -> 1 .. Len(t)] : Places(q, t, S, place)

LEMMA SelectionOfEmpty ==
    ASSUME NEW R, NEW S, NEW q \in Seq(R)
    PROVE  Selection(q, <<>>, S) <=> q = <<>>
<1>1. Len(q) \in Nat /\ DOMAIN q = 1 .. Len(q) /\ (Len(q) = 0 <=> q = <<>>)
  OBVIOUS
<1>2. ASSUME Selection(q, <<>>, S) PROVE q = <<>>
  <2>1. PICK place \in [1 .. Len(q) -> 1 .. 0] : TRUE
    BY <1>2 DEF Selection
  <2>2. ASSUME Len(q) # 0 PROVE FALSE
    <3>1. 1 \in 1 .. Len(q)
      BY <1>1, <2>2
    <3>2. place[1] \in 1 .. 0
      BY <2>1, <3>1
    <3>3. QED
      BY <3>2
  <2>3. QED
    BY <1>1, <2>2
<1>3. Selection(<<>>, <<>>, S)
  <2>. DEFINE place == [i \in 1 .. 0 |-> i]
  <2>1. place \in [1 .. Len(<<>>) -> 1 .. Len(<<>>)]
    OBVIOUS
  <2>2. Places(<<>>, <<>>, S, place)
    BY DEF Places
  <2>3. QED
    BY <2>1, <2>2 DEF Selection
<1>4. QED
  BY <1>2, <1>3

\* A record that is sent is selected last, if it is.
LEMMA SelectionOfAppend ==
    ASSUME NEW R, NEW S, NEW q \in Seq(R), NEW t \in Seq(R), NEW r \in R, Selection(q, t, S)
    PROVE  Selection(IF r.level \in S THEN Append(q, r) ELSE q, Append(t, r), S)
<1>1. PICK place \in [1 .. Len(q) -> 1 .. Len(t)] : Places(q, t, S, place)
  BY DEF Selection
<1>. DEFINE m == Len(q)
            n == Len(t)
            u == Append(t, r)
<1>2. /\ m \in Nat /\ n \in Nat /\ Len(u) = n + 1
      /\ u[n + 1] = r /\ \A k \in 1 .. n : u[k] = t[k]
  OBVIOUS
<1>. HIDE DEF u
<1>3. CASE r.level \in S
  <2>. DEFINE v   == Append(q, r)
              new == [i \in 1 .. m + 1 |-> IF i = m + 1 THEN n + 1 ELSE place[i]]
  <2>1. Len(v) = m + 1 /\ v[m + 1] = r /\ \A i \in 1 .. m : v[i] = q[i]
    OBVIOUS
  <2>2. new \in [1 .. m + 1 -> 1 .. n + 1]
    BY <1>2
  <2>3. new[m + 1] = n + 1 /\ \A i \in 1 .. m : new[i] = place[i]
    BY <1>2
  <2>4. \A i \in 1 .. m : place[i] \in 1 .. n
    OBVIOUS
  <2>. HIDE DEF v, new
  <2>5. \A i, j \in 1 .. m + 1 : i < j => new[i] < new[j]
    <3> SUFFICES ASSUME NEW i \in 1 .. m + 1, NEW j \in 1 .. m + 1, i < j
                 PROVE  new[i] < new[j]
      OBVIOUS
    <3>1. i \in 1 .. m /\ new[i] = place[i] /\ place[i] \in 1 .. n
      BY <1>2, <2>3, <2>4
    <3>2. CASE j = m + 1
      BY <1>2, <2>3, <3>1, <3>2
    <3>3. CASE j # m + 1
      <4>1. j \in 1 .. m /\ new[j] = place[j]
        BY <1>2, <2>3, <3>3
      <4>2. QED
        BY <1>1, <3>1, <4>1 DEF Places
    <3>4. QED
      BY <3>2, <3>3
  <2>6. ASSUME NEW i \in 1 .. m + 1 PROVE v[i] = u[new[i]]
    <3>1. CASE i = m + 1
      BY <1>2, <2>1, <2>3, <3>1
    <3>2. CASE i # m + 1
      <4>1. i \in 1 .. m /\ new[i] = place[i] /\ place[i] \in 1 .. n
        BY <1>2, <2>3, <2>4, <3>2
      <4>2. QED
        BY <1>1, <1>2, <2>1, <4>1 DEF Places
    <3>3. QED
      BY <3>1, <3>2
  <2>. HIDE DEF m, n
  <2>7. ASSUME NEW k \in 1 .. n + 1
        PROVE  u[k].level \in S <=> \E i \in 1 .. m + 1 : new[i] = k
    <3>1. CASE k = n + 1
      BY <1>2, <1>3, <2>3, <3>1
    <3>2. CASE k # n + 1
      <4>1. k \in 1 .. n /\ u[k] = t[k]
        BY <1>2, <3>2
      <4>2. t[k].level \in S <=> \E i \in 1 .. m : place[i] = k
        BY <1>1, <4>1 DEF Places, m, n
      <4>3. (\E i \in 1 .. m : place[i] = k) <=> \E i \in 1 .. m + 1 : new[i] = k
        BY <1>2, <2>3, <3>2
      <4>4. QED
        BY <4>1, <4>2, <4>3
    <3>3. QED
      BY <3>1, <3>2
  <2>8. Places(v, u, S, new)
    BY <1>2, <2>1, <2>5, <2>6, <2>7 DEF Places
  <2>9. Selection(v, u, S)
    BY <1>2, <2>1, <2>2, <2>8 DEF Selection
  <2>10. QED
    BY <1>3, <2>9 DEF v, u
<1>4. CASE r.level \notin S
  <2>1. place \in [1 .. m -> 1 .. n + 1] /\ \A i \in 1 .. m : place[i] \in 1 .. n
    BY <1>2
  <2>. HIDE DEF m, n
  <2>2. \A i \in 1 .. m : q[i] = u[place[i]]
    BY <1>1, <1>2, <2>1 DEF Places, m, n
  <2>3. ASSUME NEW k \in 1 .. n + 1
        PROVE  u[k].level \in S <=> \E i \in 1 .. m : place[i] = k
    <3>1. CASE k = n + 1
      BY <1>2, <1>4, <2>1, <3>1
    <3>2. CASE k # n + 1
      <4>1. k \in 1 .. n /\ u[k] = t[k]
        BY <1>2, <3>2
      <4>2. QED
        BY <1>1, <4>1 DEF Places, m, n
    <3>3. QED
      BY <3>1, <3>2
  <2>4. Places(q, u, S, place)
    BY <1>1, <1>2, <2>2, <2>3 DEF Places, m, n
  <2>5. Selection(q, u, S)
    BY <1>2, <2>1, <2>4 DEF Selection, m
  <2>6. QED
    BY <1>4, <2>5 DEF u
<1>5. QED
  BY <1>3, <1>4

\* The record that is received is the first one selected, if it is one.
LEMMA SelectionOfTail ==
    ASSUME NEW R, NEW S, NEW q \in Seq(R), NEW t \in Seq(R), t # <<>>, Selection(q, t, S)
    PROVE  IF Head(t).level \in S
             THEN q # <<>> /\ Head(q) = Head(t) /\ Selection(Tail(q), Tail(t), S)
             ELSE Selection(q, Tail(t), S)
<1>1. PICK place \in [1 .. Len(q) -> 1 .. Len(t)] : Places(q, t, S, place)
  BY DEF Selection
<1>. DEFINE m == Len(q)
            n == Len(t)
            u == Tail(t)
<1>2. /\ m \in Nat /\ n \in Nat \ {0} /\ Len(u) = n - 1
      /\ Head(t) = t[1] /\ \A k \in 1 .. n - 1 : u[k] = t[k + 1]
  OBVIOUS
<1>3. \A i \in 1 .. m : place[i] \in 1 .. n
  OBVIOUS
<1>4. /\ \A i, j \in 1 .. m : i < j => place[i] < place[j]
      /\ \A i \in 1 .. m : q[i] = t[place[i]]
      /\ \A k \in 1 .. n : t[k].level \in S <=> \E i \in 1 .. m : place[i] = k
  BY <1>1 DEF Places
<1>. HIDE DEF u
<1>5. CASE Head(t).level \in S
  <2>1. PICK i1 \in 1 .. m : place[i1] = 1
    BY <1>2, <1>4, <1>5
  <2>2. i1 = 1
    BY <1>2, <1>3, <1>4, <2>1
  <2>3. m > 0 /\ q # <<>> /\ Head(q) = q[1] /\ Head(q) = Head(t)
    BY <1>2, <1>4, <2>1, <2>2
  <2>. DEFINE v   == Tail(q)
              new == [i \in 1 .. m - 1 |-> place[i + 1] - 1]
  <2>4. Len(v) = m - 1 /\ \A i \in 1 .. m - 1 : v[i] = q[i + 1]
    BY <2>3
  <2>5. \A i \in 1 .. m - 1 : i + 1 \in 1 .. m /\ 1 < i + 1 /\ 1 \in 1 .. m
    BY <1>2
  <2>. HIDE DEF m, n, v
  <2>6. \A i \in 1 .. m - 1 : place[i + 1] \in 2 .. n
    BY <1>2, <1>3, <1>4, <2>1, <2>2, <2>5
  <2>7. new \in [1 .. m - 1 -> 1 .. n - 1]
    BY <1>2, <2>6
  <2>8. \A i \in 1 .. m - 1 : new[i] = place[i + 1] - 1
    OBVIOUS
  <2>. HIDE DEF new
  <2>9. \A i, j \in 1 .. m - 1 : i < j => new[i] < new[j]
    <3> SUFFICES ASSUME NEW i \in 1 .. m - 1, NEW j \in 1 .. m - 1, i < j PROVE new[i] < new[j]
      OBVIOUS
    <3>1. i + 1 < j + 1 /\ i + 1 \in 1 .. m /\ j + 1 \in 1 .. m
      BY <1>2
    <3>2. place[i + 1] < place[j + 1]
      BY <1>4, <3>1
    <3>3. QED
      BY <2>6, <2>8, <3>2
  <2>10. ASSUME NEW i \in 1 .. m - 1 PROVE v[i] = u[new[i]]
    <3>1. place[i + 1] \in 2 .. n /\ new[i] = place[i + 1] - 1
      BY <2>6, <2>8
    <3>2. new[i] \in 1 .. n - 1 /\ new[i] + 1 = place[i + 1]
      <4>1. new[i] \in 1 .. n - 1
        BY <2>7
      <4>2. new[i] + 1 = place[i + 1]
        BY <3>1
      <4>3. QED
        BY <4>1, <4>2
    <3>3. v[i] = t[place[i + 1]]
      BY <1>4, <2>4, <2>5
    <3>4. u[new[i]] = t[new[i] + 1]
      BY <1>2, <3>2
    <3>5. QED
      BY <3>2, <3>3, <3>4
  <2>11. ASSUME NEW k \in 1 .. n - 1
         PROVE  u[k].level \in S <=> \E i \in 1 .. m - 1 : new[i] = k
    <3>1. k + 1 \in 1 .. n /\ k + 1 # 1 /\ u[k] = t[k + 1]
      BY <1>2
    <3>2. ASSUME NEW i \in 1 .. m, place[i] = k + 1 PROVE i - 1 \in 1 .. m - 1 /\ new[i - 1] = k
      <4>1. i # 1
        BY <2>1, <2>2, <3>1, <3>2
      <4>2. i - 1 \in 1 .. m - 1 /\ (i - 1) + 1 = i
        BY <1>2, <4>1
      <4>3. QED
        BY <2>8, <3>2, <4>2
    <3>3. ASSUME NEW i \in 1 .. m - 1, new[i] = k PROVE i + 1 \in 1 .. m /\ place[i + 1] = k + 1
      BY <2>5, <2>6, <2>8, <3>3
    <3>4. QED
      BY <1>4, <3>1, <3>2, <3>3
  <2>12. Places(v, u, S, new)
    BY <1>2, <2>4, <2>9, <2>10, <2>11 DEF Places, n
  <2>13. Selection(v, u, S)
    BY <1>2, <2>4, <2>7, <2>12 DEF Selection, n
  <2>14. QED
    BY <1>5, <2>3, <2>13 DEF v, u
<1>6. CASE Head(t).level \notin S
  <2>1. \A i \in 1 .. m : place[i] # 1
    BY <1>2, <1>4, <1>6
  <2>. DEFINE new == [i \in 1 .. m |-> place[i] - 1]
  <2>. HIDE DEF m, n
  <2>2. \A i \in 1 .. m : place[i] \in 2 .. n
    BY <1>2, <1>3, <2>1
  <2>3. new \in [1 .. m -> 1 .. n - 1]
    BY <1>2, <2>2
  <2>4. \A i \in 1 .. m : new[i] = place[i] - 1
    OBVIOUS
  <2>. HIDE DEF new
  <2>5. \A i, j \in 1 .. m : i < j => new[i] < new[j]
    BY <1>4, <2>2, <2>4
  <2>6. ASSUME NEW i \in 1 .. m PROVE q[i] = u[new[i]]
    <3>1. place[i] \in 2 .. n /\ new[i] = place[i] - 1
      BY <2>2, <2>4
    <3>2. new[i] \in 1 .. n - 1 /\ new[i] + 1 = place[i]
      <4>1. new[i] \in 1 .. n - 1
        BY <2>3
      <4>2. new[i] + 1 = place[i]
        BY <3>1
      <4>3. QED
        BY <4>1, <4>2
    <3>3. u[new[i]] = t[new[i] + 1]
      BY <1>2, <3>2
    <3>4. q[i] = t[place[i]]
      BY <1>4
    <3>5. QED
      BY <3>2, <3>3, <3>4
  <2>7. ASSUME NEW k \in 1 .. n - 1
        PROVE  u[k].level \in S <=> \E i \in 1 .. m : new[i] = k
    <3>1. k + 1 \in 1 .. n /\ u[k] = t[k + 1]
      BY <1>2
    <3>2. \A i \in 1 .. m : place[i] = k + 1 <=> new[i] = k
      BY <2>2, <2>4
    <3>3. QED
      BY <1>4, <3>1, <3>2
  <2>8. Places(q, u, S, new)
    BY <1>2, <2>5, <2>6, <2>7 DEF Places, m, n
  <2>9. Selection(q, u, S)
    BY <1>2, <2>3, <2>8 DEF Selection, m, n
  <2>10. QED
    BY <1>6, <2>9 DEF u
<1>7. QED
  BY <1>5, <1>6
-----------------------------------------------------------------------------
(* The inductive invariant. *)

ClosedAt   == {"wait", "flush", "drop", "untake", "returns"}
StampingAt == {"compare", "format", "take"}
HoldingAt  == {"assign", "compare", "format", "take", "send"}
First      == logger[1]

\* Main goes its way, and the first logger is closed from CloseTunnel on.
MainInv ==
    /\ pc[Main] \notin {"new", "assign"}
    /\ pc[Main] \in {"wait", "flush"} => at[Main] = 1
    /\ First.closed <=> pc[Main] \in ClosedAt

\* Until Untake every goroutine finds the first logger, or none.
DefaultInv ==
    /\ Running /\ pc[Main] # "returns" =>
         takeup /\ made = 1 /\ logger_default = IF pc[Main] = "untake" THEN Nil ELSE 1
    /\ pc[Main] = "returns" => made >= 1
    /\ ~Running => /\ made = 0 /\ lastRace = 0
                   /\ \A l \in Loggers : logger[l] = NewOne /\ boot[l] = "none"
                   /\ \A f \in Files : buf[f] = <<>>

CallersInv ==
    \A p \in Callers :
        /\ ~Running => pc[p] = "idle" /\ at[p] = Nil
        /\ Running /\ pc[Main] # "returns" =>
             pc[p] \notin {"new", "assign"} /\ at[p] \in {Nil, 1}
        /\ pc[p] \in HoldingAt => at[p] # Nil
        /\ pc[p] = "dead" => First.closed

\* The goroutine of the first logger returns with an empty channel, and only
\* then Close goes on; no later logger has a writer.
BootInv ==
    /\ Running => First.writers = Files /\ boot[1] \in {"first", "loop", "gone"}
    /\ boot[1] = "gone" => First.closed /\ First.tunnel = <<>>
    /\ pc[Main] \in ClosedAt \ {"wait"} => boot[1] = "gone"
    /\ pc[Main] \in {"drop", "untake", "returns"} => \A f \in Files : buf[f] = <<>>
    /\ \A l \in Loggers : l # 1 => logger[l].writers = {}
    /\ \A l \in Loggers : logger[l].c = 0 \/ (logger[l].c = 1 /\ boot[l] = "gone")
    /\ \A l \in Loggers : l > made => boot[l] = "none"

\* A call makes at most one logger.
Pending  == {p \in Callers : pc[p] \in {"check", "new"}}
CountInv == IsFiniteSet(Pending) /\ made + Cardinality(Pending) <= logged + 1

\* What was accepted for a file is on disk, in the buffer or in the channel.
QueueInv ==
    ~Exited => \A f \in Files : \E q \in Seq(Record) :
        /\ accepted[f] = (disk[f] \o buf[f]) \o q
        /\ Selection(q, First.tunnel, FileLevels[f])

\* While goroutines did not meet in second s, lastTimeStr is lastTime when it
\* says s, or will be as soon as the goroutine at line 157 has set it.
Raced(s) == lastRace >= s

StampInv ==
    /\ lastRace <= clock
    /\ \A p \in Callers : rec[p].now <= clock
    /\ \A p \in Stamping : Raced(rec[p].now) \/ Stamping = {p}
    /\ \A l \in Loggers :
         \/ logger[l].lastTimeStr = logger[l].lastTime
         \/ Raced(logger[l].lastTime)
         \/ \E p \in Callers : pc[p] = "format" /\ at[p] = l /\ rec[p].now = logger[l].lastTime
    /\ \A p \in Callers :
         /\ pc[p] = "format" => logger[at[p]].lastTime = rec[p].now \/ Raced(logger[at[p]].lastTime)
         /\ pc[p] = "take" => logger[at[p]].lastTimeStr = rec[p].now \/ Raced(rec[p].now)
         /\ pc[p] = "send" => rec[p].time = rec[p].now \/ Raced(rec[p].now)

IInv == TypeOK /\ MainInv /\ DefaultInv /\ CallersInv /\ BootInv /\ CountInv /\ QueueInv /\ StampInv

LEMMA Constants ==
    /\ MaxRecords \in Nat /\ Loggers = 1 .. MaxRecords + 2 /\ 1 \in Loggers /\ Nil \notin Loggers
    /\ Main \in Procs /\ Main \notin Callers /\ \A p \in Callers : p \in Procs
BY LoggerAssumption DEF MaxRecords, Loggers, Procs, Main, Nil

LEMMA NewOneIsTyped == NewOne \in LoggerFields
<1>1. <<>> \in Seq(Record)
  OBVIOUS
<1>2. QED
  BY <1>1, LoggerAssumption DEF NewOne, LoggerFields, DEBUG

LEMMA NoRecordIsTyped == NoRecord \in InCall
BY Constants, LoggerAssumption DEF NoRecord, InCall

\* Files and their records.
LEMMA EmptyFiles ==
    [f \in Files |-> <<>>] \in [Files -> Seq(Record)]
OBVIOUS

LEMMA InitIInv == Init => IInv
<1> SUFFICES ASSUME Init PROVE IInv
  OBVIOUS
<1> USE Constants
<1>1. pc[Main] = "setup" /\ \A p \in Callers : pc[p] = "idle"
  BY DEF Init
<1>2. \A l \in Loggers : logger[l] = NewOne /\ boot[l] = "none"
  BY DEF Init
<1>3. First = NewOne
  BY <1>2 DEF First
<1>4. TypeOK
  <2>1. logger \in [Loggers -> LoggerFields]
    BY NewOneIsTyped DEF Init
  <2>2. \A l \in Loggers : Len(logger[l].tunnel) <= TunnelSize
    BY <1>2, LoggerAssumption DEF NewOne
  <2>3. rec \in [Procs -> InCall]
    BY NoRecordIsTyped DEF Init
  <2>4. \A f \in Files : Len(buf[f]) <= BufSize
    BY LoggerAssumption DEF Init
  <2>5. pc \in [Procs -> MainAt \cup CallerAt] /\ pc[Main] \in MainAt
        /\ \A p \in Callers : pc[p] \in CallerAt
    BY <1>1 DEF Init, MainAt, CallerAt
  <2>6. buf \in [Files -> Seq(Record)] /\ disk \in [Files -> Seq(Record)]
        /\ accepted \in [Files -> Seq(Record)]
    BY EmptyFiles DEF Init
  <2>7. /\ logger_default \in {Nil} \cup Loggers /\ takeup \in BOOLEAN
        /\ made \in {Nil} \cup Loggers /\ at \in [Procs -> {Nil} \cup Loggers]
        /\ boot \in [Loggers -> {"none", "first", "loop", "gone"}]
    BY DEF Init, Nil
  <2>8. clock \in 0 .. MaxClock /\ logged \in 0 .. MaxRecords /\ lastRace \in 0 .. MaxClock
    BY LoggerAssumption DEF Init
  <2>9. QED
    BY <2>1, <2>2, <2>3, <2>4, <2>5, <2>6, <2>7, <2>8 DEF TypeOK
<1>5. MainInv
  BY <1>1, <1>3 DEF MainInv, ClosedAt, NewOne
<1>6. DefaultInv
  BY <1>1, <1>2 DEF DefaultInv, Running, Exited, Init
<1>7. CallersInv
  BY <1>1 DEF CallersInv, Running, HoldingAt, Init, Procs
<1>8. BootInv
  BY <1>1, <1>2, <1>3 DEF BootInv, Running, ClosedAt, NewOne
<1>9. CountInv
  <2>1. Pending = {}
    BY <1>1 DEF Pending
  <2>2. QED
    BY <2>1, FS_EmptySet DEF CountInv, Init
<1>10. QueueInv
  <2> SUFFICES ASSUME NEW f \in Files
               PROVE  /\ accepted[f] = (disk[f] \o buf[f]) \o <<>>
                      /\ <<>> \in Seq(Record)
                      /\ Selection(<<>>, First.tunnel, FileLevels[f])
    BY DEF QueueInv
  <2>1. accepted[f] = <<>> /\ disk[f] = <<>> /\ buf[f] = <<>> /\ First.tunnel = <<>>
    BY <1>3 DEF Init, NewOne
  <2>2. <<>> \in Seq(Record) /\ (<<>> \o <<>>) \o <<>> = <<>>
    OBVIOUS
  <2>3. Selection(<<>>, <<>>, FileLevels[f])
    BY <2>2, SelectionOfEmpty
  <2>4. QED
    BY <2>1, <2>2, <2>3
<1>11. StampInv
  <2>1. \A p \in Callers : rec[p].now = 0
    BY DEF Init, NoRecord
  <2>2. Stamping = {}
    BY <1>1 DEF Stamping
  <2>3. QED
    BY <1>1, <1>2, <2>1, <2>2 DEF StampInv, NewOne, Init
<1>12. QED
  BY <1>4, <1>5, <1>6, <1>7, <1>8, <1>9, <1>10, <1>11 DEF IInv

-----------------------------------------------------------------------------
(* Types.                                                                  *)

Tunnels == \A l \in Loggers : Len(logger[l].tunnel) <= TunnelSize
Buffers == \A f \in Files : Len(buf[f]) <= BufSize
PcOK ==
    /\ pc \in [Procs -> MainAt \cup CallerAt]
    /\ pc[Main] \in MainAt /\ \A p \in Callers : pc[p] \in CallerAt

\* A goroutine moves to a place of its own code.
LEMMA MoveOfOne ==
    ASSUME PcOK, NEW p \in Procs, NEW v, v \in IF p = Main THEN MainAt ELSE CallerAt,
           pc' = [pc EXCEPT ![p] = v]
    PROVE  PcOK'
BY Constants DEF PcOK

\* One field of one logger is set.
LEMMA SetField ==
    ASSUME logger \in [Loggers -> LoggerFields], NEW l \in Loggers
    PROVE  /\ \A x \in Seq(Record) : [logger EXCEPT ![l].tunnel = x] \in [Loggers -> LoggerFields]
           /\ \A x \in BOOLEAN : [logger EXCEPT ![l].closed = x] \in [Loggers -> LoggerFields]
           /\ \A x \in 0 .. 2 : [logger EXCEPT ![l].c = x] \in [Loggers -> LoggerFields]
           /\ \A x \in 0 .. MaxClock :
                /\ [logger EXCEPT ![l].lastTime = x] \in [Loggers -> LoggerFields]
                /\ [logger EXCEPT ![l].lastTimeStr = x] \in [Loggers -> LoggerFields]
<1>1. logger[l] \in LoggerFields
  OBVIOUS
<1>2. ASSUME NEW x \in Seq(Record) PROVE [logger EXCEPT ![l].tunnel = x] \in [Loggers -> LoggerFields]
  BY <1>1 DEF LoggerFields
<1>3. ASSUME NEW x \in BOOLEAN PROVE [logger EXCEPT ![l].closed = x] \in [Loggers -> LoggerFields]
  BY <1>1 DEF LoggerFields
<1>4. ASSUME NEW x \in 0 .. 2 PROVE [logger EXCEPT ![l].c = x] \in [Loggers -> LoggerFields]
  BY <1>1 DEF LoggerFields
<1>5. ASSUME NEW x \in 0 .. MaxClock
      PROVE  /\ [logger EXCEPT ![l].lastTime = x] \in [Loggers -> LoggerFields]
             /\ [logger EXCEPT ![l].lastTimeStr = x] \in [Loggers -> LoggerFields]
  BY <1>1 DEF LoggerFields
<1>6. QED
  BY <1>2, <1>3, <1>4, <1>5

SameClosing(l) ==
    /\ logger'[l].closed = logger[l].closed /\ logger'[l].c = logger[l].c
    /\ logger'[l].writers = logger[l].writers
SameStamps(l) ==
    logger'[l].lastTime = logger[l].lastTime /\ logger'[l].lastTimeStr = logger[l].lastTimeStr
SameTunnel(l) == logger'[l].tunnel = logger[l].tunnel

\* ... and the others keep their values.
LEMMA FieldFrame ==
    ASSUME logger \in [Loggers -> LoggerFields], NEW k \in Loggers, NEW x
    PROVE  /\ logger' = [logger EXCEPT ![k].tunnel = x] =>
                /\ \A l \in Loggers : SameClosing(l) /\ SameStamps(l)
                /\ \A l \in Loggers \ {k} : SameTunnel(l)
                /\ logger'[k].tunnel = x
           /\ logger' = [logger EXCEPT ![k].closed = x] =>
                /\ \A l \in Loggers : SameTunnel(l) /\ SameStamps(l)
                /\ \A l \in Loggers : logger'[l].c = logger[l].c /\ logger'[l].writers = logger[l].writers
                /\ \A l \in Loggers \ {k} : SameClosing(l)
                /\ logger'[k].closed = x
           /\ logger' = [logger EXCEPT ![k].c = x] =>
                /\ \A l \in Loggers : SameTunnel(l) /\ SameStamps(l)
                /\ \A l \in Loggers : /\ logger'[l].closed = logger[l].closed
                                       /\ logger'[l].writers = logger[l].writers
                /\ \A l \in Loggers \ {k} : SameClosing(l)
                /\ logger'[k].c = x
           /\ logger' = [logger EXCEPT ![k].lastTime = x] =>
                /\ \A l \in Loggers : SameTunnel(l) /\ SameClosing(l)
                /\ \A l \in Loggers : logger'[l].lastTimeStr = logger[l].lastTimeStr
                /\ \A l \in Loggers \ {k} : SameStamps(l)
                /\ logger'[k].lastTime = x
           /\ logger' = [logger EXCEPT ![k].lastTimeStr = x] =>
                /\ \A l \in Loggers : SameTunnel(l) /\ SameClosing(l)
                /\ \A l \in Loggers : logger'[l].lastTime = logger[l].lastTime
                /\ \A l \in Loggers \ {k} : SameStamps(l)
                /\ logger'[k].lastTimeStr = x
<1>1. logger[k] \in LoggerFields
  OBVIOUS
<1>. USE <1>1 DEF LoggerFields, SameClosing, SameStamps, SameTunnel
<1>2. ASSUME logger' = [logger EXCEPT ![k].tunnel = x]
      PROVE  /\ \A l \in Loggers : SameClosing(l) /\ SameStamps(l)
             /\ \A l \in Loggers \ {k} : SameTunnel(l)
             /\ logger'[k].tunnel = x
  BY <1>2
<1>3. ASSUME logger' = [logger EXCEPT ![k].closed = x]
      PROVE  /\ \A l \in Loggers : SameTunnel(l) /\ SameStamps(l)
             /\ \A l \in Loggers : logger'[l].c = logger[l].c /\ logger'[l].writers = logger[l].writers
             /\ \A l \in Loggers \ {k} : SameClosing(l)
             /\ logger'[k].closed = x
  BY <1>3
<1>4. ASSUME logger' = [logger EXCEPT ![k].c = x]
      PROVE  /\ \A l \in Loggers : SameTunnel(l) /\ SameStamps(l)
             /\ \A l \in Loggers : /\ logger'[l].closed = logger[l].closed
                                    /\ logger'[l].writers = logger[l].writers
             /\ \A l \in Loggers \ {k} : SameClosing(l)
             /\ logger'[k].c = x
  BY <1>4
<1>5. ASSUME logger' = [logger EXCEPT ![k].lastTime = x]
      PROVE  /\ \A l \in Loggers : SameTunnel(l) /\ SameClosing(l)
             /\ \A l \in Loggers : logger'[l].lastTimeStr = logger[l].lastTimeStr
             /\ \A l \in Loggers \ {k} : SameStamps(l)
             /\ logger'[k].lastTime = x
  BY <1>5
<1>6. ASSUME logger' = [logger EXCEPT ![k].lastTimeStr = x]
      PROVE  /\ \A l \in Loggers : SameTunnel(l) /\ SameClosing(l)
             /\ \A l \in Loggers : logger'[l].lastTime = logger[l].lastTime
             /\ \A l \in Loggers \ {k} : SameStamps(l)
             /\ logger'[k].lastTimeStr = x
  BY <1>6
<1>7. QED
  BY <1>2, <1>3, <1>4, <1>5, <1>6

LEMMA RecordTypes ==
    ASSUME NEW r \in InCall
    PROVE  /\ Sent(r) \in Record
           /\ r.now \in 0 .. MaxClock /\ r.time \in 0 .. MaxClock /\ r.level \in 0 .. 5
           /\ \A x \in 0 .. MaxClock : [r EXCEPT !.now = x] \in InCall /\ [r EXCEPT !.time = x] \in InCall
BY DEF InCall, Record, Sent

\* A file's buffer and disk after its writers flushed, or took a record.
LEMMA FlushTypes ==
    ASSUME TypeOK, NEW l \in Loggers, Flush(l)
    PROVE  /\ buf' \in [Files -> Seq(Record)] /\ disk' \in [Files -> Seq(Record)]
           /\ Buffers'
           /\ \A f \in Files : IF f \in logger[l].writers
                               THEN disk'[f] = disk[f] \o buf[f] /\ buf'[f] = <<>>
                               ELSE disk'[f] = disk[f] /\ buf'[f] = buf[f]
<1>1. \A f \in Files : disk[f] \in Seq(Record) /\ buf[f] \in Seq(Record) /\ Len(buf[f]) <= BufSize
  BY DEF TypeOK
<1>2. \A f \in Files : disk[f] \o buf[f] \in Seq(Record) /\ <<>> \in Seq(Record)
  BY <1>1
<1>3. \A f \in Files : IF f \in logger[l].writers
                       THEN disk'[f] = disk[f] \o buf[f] /\ buf'[f] = <<>>
                       ELSE disk'[f] = disk[f] /\ buf'[f] = buf[f]
  BY DEF Flush
<1>4. buf' \in [Files -> Seq(Record)] /\ disk' \in [Files -> Seq(Record)]
  BY <1>1, <1>2 DEF Flush
<1>5. Buffers'
  <2>1. Len(<<>>) = 0 /\ 0 <= BufSize
    BY LoggerAssumption
  <2>2. QED
    BY <1>1, <1>3, <2>1 DEF Buffers
<1>6. QED
  BY <1>3, <1>4, <1>5

LEMMA ReceiveTypes ==
    ASSUME TypeOK, NEW l \in Loggers, Receive(l)
    PROVE  /\ buf' \in [Files -> Seq(Record)] /\ disk' \in [Files -> Seq(Record)]
           /\ Buffers'
           /\ logger[l].tunnel \in Seq(Record) /\ Head(logger[l].tunnel) \in Record
           /\ Tail(logger[l].tunnel) \in Seq(Record)
           /\ \A f \in Files : <<buf'[f], disk'[f]>> = IF f \in logger[l].writers
                                                       THEN Written(f, Head(logger[l].tunnel))
                                                       ELSE <<buf[f], disk[f]>>
<1>. DEFINE r == Head(logger[l].tunnel)
<1>1. logger[l].tunnel \in Seq(Record) /\ logger[l].tunnel # <<>>
  BY DEF TypeOK, LoggerFields, Receive
<1>2. r \in Record /\ Tail(logger[l].tunnel) \in Seq(Record)
  BY <1>1
<1>3. \A f \in Files : disk[f] \in Seq(Record) /\ buf[f] \in Seq(Record) /\ Len(buf[f]) <= BufSize
  BY DEF TypeOK
<1>4. \A f \in Files : <<buf'[f], disk'[f]>> = IF f \in logger[l].writers
                                                THEN Written(f, r) ELSE <<buf[f], disk[f]>>
  BY DEF Receive, Written
<1>5. DOMAIN buf' = Files /\ DOMAIN disk' = Files /\ buf' = [f \in Files |-> buf'[f]] /\ disk' = [f \in Files |-> disk'[f]]
  BY DEF Receive
<1>. HIDE DEF r
<1>6. ASSUME NEW f \in Files
      PROVE  buf'[f] \in Seq(Record) /\ disk'[f] \in Seq(Record) /\ Len(buf'[f]) <= BufSize
  <2>1. disk[f] \in Seq(Record) /\ buf[f] \in Seq(Record) /\ Len(buf[f]) \in Nat /\ Len(buf[f]) <= BufSize
    BY <1>3
  <2>2. /\ Append(buf[f], r) \in Seq(Record) /\ Len(Append(buf[f], r)) = Len(buf[f]) + 1
        /\ <<r>> \in Seq(Record) /\ Len(<<r>>) = 1
        /\ disk[f] \o buf[f] \in Seq(Record)
    BY <1>2, <2>1
  <2>3. \/ buf'[f] = buf[f] /\ disk'[f] = disk[f]
        \/ Fits(f) /\ buf'[f] = Append(buf[f], r) /\ disk'[f] = disk[f]
        \/ buf'[f] = <<r>> /\ disk'[f] = disk[f] \o buf[f]
    BY <1>4 DEF Written
  <2>4. CASE buf'[f] = buf[f] /\ disk'[f] = disk[f]
    BY <2>1, <2>4
  <2>5. CASE Fits(f) /\ buf'[f] = Append(buf[f], r) /\ disk'[f] = disk[f]
    <3>1. Len(buf[f]) + 1 <= BufSize
      BY <2>1, <2>5, LoggerAssumption DEF Fits
    <3>2. QED
      BY <2>1, <2>2, <2>5, <3>1
  <2>6. CASE buf'[f] = <<r>> /\ disk'[f] = disk[f] \o buf[f]
    <3>1. 1 <= BufSize
      BY LoggerAssumption
    <3>2. QED
      BY <2>2, <2>6, <3>1
  <2>7. QED
    BY <2>3, <2>4, <2>5, <2>6
<1>7. QED
  BY <1>1, <1>2, <1>4, <1>5, <1>6 DEF r, Buffers

LEMMA TypeStep ==
    ASSUME IInv, Next
    PROVE  TypeOK'
<1> USE Constants
<1>1. /\ TypeOK /\ PcOK /\ Tunnels /\ Buffers /\ logger \in [Loggers -> LoggerFields]
      /\ MainInv /\ DefaultInv /\ CallersInv /\ BootInv /\ CountInv
  BY DEF IInv, TypeOK, PcOK, Tunnels, Buffers
<1>2. \A p \in Procs : rec[p] \in InCall /\ at[p] \in {Nil} \cup Loggers
  BY <1>1 DEF TypeOK
<1>3. \A p \in Callers : pc[p] \in HoldingAt => at[p] \in Loggers
  BY <1>1, <1>2 DEF CallersInv
<1>4. \A l \in Loggers : logger[l] \in LoggerFields /\ logger[l].closed \in BOOLEAN
  BY <1>1 DEF LoggerFields
<1>5. CASE InitBaseConf
  <2>1. PcOK'
    BY <1>1, <1>5, MoveOfOne DEF InitBaseConf, MainAt
  <2>2. logger' \in [Loggers -> LoggerFields] /\ Tunnels'
    <3>1. logger' = [logger EXCEPT ![1] = [logger[1] EXCEPT !.writers = Files, !.level = ConfLevel]]
      BY <1>1, <1>5 DEF InitBaseConf
    <3>2. [logger[1] EXCEPT !.writers = Files, !.level = ConfLevel] \in LoggerFields
      BY <1>4, LoggerAssumption DEF LoggerFields
    <3>3. \A l \in Loggers : logger'[l].tunnel = logger[l].tunnel
      BY <1>1, <1>5 DEF InitBaseConf, LoggerFields
    <3>4. QED
      BY <1>1, <3>1, <3>2, <3>3 DEF Tunnels
  <2>3. QED
    BY <1>1, <1>5, <2>1, <2>2 DEF TypeOK, PcOK, Tunnels, InitBaseConf, SetLayout, files
<1>6. CASE Destroy
  <2>1. PcOK'
    BY <1>1, <1>6, MoveOfOne DEF Destroy, Go, MainAt
  <2>2. QED
    BY <1>1, <1>6, <2>1 DEF TypeOK, PcOK, Destroy, default, files
<1>7. ASSUME NEW how \in {"exited", "killed"}, Exit(how) PROVE TypeOK'
  <2>1. PcOK'
    BY <1>7 DEF Exit, PcOK, MainAt, CallerAt
  <2>2. logger' \in [Loggers -> LoggerFields] /\ Tunnels'
    BY <1>7, NewOneIsTyped, LoggerAssumption DEF Exit, Tunnels, NewOne
  <2>3. rec' \in [Procs -> InCall]
    BY <1>7, NoRecordIsTyped DEF Exit
  <2>4. buf' \in [Files -> Seq(Record)] /\ Buffers'
    BY <1>7, EmptyFiles, LoggerAssumption DEF Exit, Buffers
  <2>5. /\ logger_default' \in {Nil} \cup Loggers /\ takeup' \in BOOLEAN
        /\ made' \in {Nil} \cup Loggers /\ at' \in [Procs -> {Nil} \cup Loggers]
        /\ boot' \in [Loggers -> {"none", "first", "loop", "gone"}]
    BY <1>7 DEF Exit, Nil
  <2>6. clock' \in 0 .. MaxClock /\ logged' \in 0 .. MaxRecords /\ lastRace' \in 0 .. MaxClock
    BY <1>7, LoggerAssumption DEF Exit
  <2>7. disk' \in [Files -> Seq(Record)] /\ accepted' \in [Files -> Seq(Record)]
    BY <1>1, <1>7 DEF Exit, TypeOK
  <2>8. QED
    BY <2>1, <2>2, <2>3, <2>4, <2>5, <2>6, <2>7 DEF TypeOK, PcOK, Tunnels, Buffers
<1>8. CASE Kill
  BY <1>7, <1>8 DEF Kill
<1>9. CASE Tick
  BY <1>1, <1>9, LoggerAssumption DEF Tick, TypeOK, default, files
<1>10. ASSUME NEW p \in Procs, Check(p) PROVE TypeOK'
  <2>1. PcOK'
    BY <1>1, <1>10, MoveOfOne DEF Check, Go, MainAt, CallerAt
  <2>2. QED
    BY <1>1, <1>10, <2>1 DEF TypeOK, PcOK, Check, default, files
<1>11. ASSUME NEW p \in Procs, NewLogger(p) PROVE TypeOK'
  <2>1. p \in Callers /\ pc[p] = "new"
    BY <1>1, <1>11 DEF NewLogger, Go, MainInv, Procs
  <2>2. PcOK'
    BY <1>1, <1>11, MoveOfOne DEF NewLogger, Go, MainAt, CallerAt
  <2>3. made + 1 \in Loggers
    <3>1. p \in Pending
      BY <2>1 DEF Pending
    <3>2. Cardinality(Pending) >= 1 /\ Cardinality(Pending) \in Nat
      BY <1>1, <3>1, FS_EmptySet, FS_CardinalityType DEF CountInv
    <3>3. made \in Nat /\ logged \in 0 .. MaxRecords
      BY <1>1 DEF TypeOK, Nil
    <3>4. QED
      BY <1>1, <3>2, <3>3 DEF CountInv
  <2>4. at' \in [Procs -> {Nil} \cup Loggers] /\ boot' \in [Loggers -> {"none", "first", "loop", "gone"}]
        /\ made' \in {Nil} \cup Loggers /\ takeup' \in BOOLEAN
    <3>1. CASE logger_default # Nil /\ ~takeup
      BY <1>1, <1>11, <3>1 DEF NewLogger, TypeOK
    <3>2. CASE ~(logger_default # Nil /\ ~takeup)
      <4>1. /\ made' = made + 1 /\ at' = [at EXCEPT ![p] = made + 1]
            /\ boot' = [boot EXCEPT ![made + 1] = "first"] /\ takeup' = takeup
        BY <1>11, <3>2 DEF NewLogger
      <4>2. QED
        BY <1>1, <2>3, <4>1 DEF TypeOK
    <3>3. QED
      BY <3>1, <3>2
  <2>5. QED
    BY <1>1, <1>11, <2>2, <2>4 DEF TypeOK, PcOK, NewLogger, files
<1>12. ASSUME NEW p \in Procs, Assign(p) PROVE TypeOK'
  <2>1. PcOK'
    BY <1>1, <1>12, MoveOfOne DEF Assign, Go, MainAt, CallerAt
  <2>2. QED
    BY <1>1, <1>2, <1>12, <2>1 DEF TypeOK, PcOK, Assign, files
<1>13. ASSUME NEW p \in Callers, Log(p) PROVE TypeOK'
  <2>1. PcOK'
    BY <1>1, <1>13, MoveOfOne DEF Log, Go, MainAt, CallerAt
  <2>2. logged' = logged + 1 /\ logged' \in 1 .. MaxRecords
    BY <1>1, <1>13 DEF Log, TypeOK
  <2>3. LevelOf[logged'] \in 0 .. 5
    BY <2>2, LoggerAssumption DEF MaxRecords
  <2>4. rec'[p] \in InCall /\ rec' = [rec EXCEPT ![p] = rec'[p]]
    <3>1. [NoRecord EXCEPT !.id = logged', !.level = LevelOf[logged']] \in InCall
      <4>1. logged' \in 0 .. MaxRecords /\ 0 \in 0 .. MaxClock
        BY <2>2, LoggerAssumption
      <4>2. QED
        BY <2>3, <4>1 DEF NoRecord, InCall
    <3>2. QED
      BY <1>1, <1>13, <3>1 DEF Log, TypeOK
  <2>5. rec' \in [Procs -> InCall]
    BY <1>1, <2>4 DEF TypeOK
  <2>6. logged' \in 0 .. MaxRecords
    BY <2>2
  <2>7. QED
    BY <1>1, <1>13, <2>1, <2>5, <2>6 DEF TypeOK, PcOK, Log, default, files
<1>14. ASSUME NEW p \in Callers, NEW panics \in BOOLEAN, Ends(p, panics)
       PROVE  PcOK' /\ at' \in [Procs -> {Nil} \cup Loggers] /\ rec' \in [Procs -> InCall]
  <2>1. PcOK'
    BY <1>1, <1>14, MoveOfOne DEF Ends, CallerAt
  <2>2. QED
    BY <1>1, <1>14, <2>1, NoRecordIsTyped DEF Ends, TypeOK
<1>15. ASSUME NEW p \in Callers, Use(p) PROVE TypeOK'
  <2>1. CASE logger_default = Nil \/ rec[p].level < logger[logger_default].level
    BY <1>1, <1>14, <1>15, <2>1 DEF Use, TypeOK, PcOK, default, files
  <2>2. CASE ~(logger_default = Nil \/ rec[p].level < logger[logger_default].level)
    <3>1. PcOK'
      BY <1>1, <1>15, <2>2, MoveOfOne DEF Use, CallerAt
    <3>2. rec' \in [Procs -> InCall]
      <4>1. rec' = [rec EXCEPT ![p] = [rec[p] EXCEPT !.now = clock]]
        BY <1>15, <2>2 DEF Use
      <4>2. [rec[p] EXCEPT !.now = clock] \in InCall
        BY <1>1, <1>2, RecordTypes DEF TypeOK
      <4>3. QED
        BY <1>1, <4>1, <4>2 DEF TypeOK
    <3>3. at' \in [Procs -> {Nil} \cup Loggers] /\ lastRace' \in 0 .. MaxClock
      BY <1>1, <1>15, <2>2 DEF Use, TypeOK
    <3>4. QED
      BY <1>1, <1>15, <3>1, <3>2, <3>3 DEF Use, TypeOK, PcOK, default, files
  <2>3. QED
    BY <2>1, <2>2
<1>16. ASSUME NEW p \in Callers, Compare(p) PROVE TypeOK'
  <2>1. PcOK'
    BY <1>1, <1>16, MoveOfOne DEF Compare, Go, CallerAt
  <2>2. at[p] \in Loggers /\ rec[p].now \in 0 .. MaxClock
    BY <1>2, <1>3, <1>16, RecordTypes DEF Compare, Go, HoldingAt
  <2>3. logger' \in [Loggers -> LoggerFields]
    BY <1>1, <1>16, <2>2, SetField DEF Compare
  <2>4. Tunnels'
    BY <1>1, <1>16, <2>2 DEF Compare, Tunnels
  <2>5. QED
    BY <1>1, <1>16, <2>1, <2>3, <2>4 DEF Compare, TypeOK, PcOK, Tunnels, default, files
<1>17. ASSUME NEW p \in Callers, Format(p) PROVE TypeOK'
  <2>1. PcOK'
    BY <1>1, <1>17, MoveOfOne DEF Format, Go, CallerAt
  <2>2. at[p] \in Loggers /\ rec[p].now \in 0 .. MaxClock
    BY <1>2, <1>3, <1>17, RecordTypes DEF Format, Go, HoldingAt
  <2>3. logger' \in [Loggers -> LoggerFields]
    BY <1>1, <1>17, <2>2, SetField DEF Format, Stamp
  <2>4. Tunnels'
    BY <1>1, <1>17, <2>2 DEF Format, Tunnels
  <2>5. QED
    BY <1>1, <1>17, <2>1, <2>3, <2>4 DEF Format, TypeOK, PcOK, Tunnels, default, files
<1>18. ASSUME NEW p \in Callers, Take(p) PROVE TypeOK'
  <2>1. PcOK'
    BY <1>1, <1>18, MoveOfOne DEF Take, Go, CallerAt
  <2>2. at[p] \in Loggers
    BY <1>3, <1>18 DEF Take, Go, HoldingAt
  <2>3. logger[at[p]].lastTimeStr \in 0 .. MaxClock
    BY <1>4, <2>2 DEF LoggerFields
  <2>4. rec' \in [Procs -> InCall]
    BY <1>1, <1>2, <1>18, <2>3, RecordTypes DEF Take, TypeOK
  <2>5. QED
    BY <1>1, <1>18, <2>1, <2>4 DEF Take, TypeOK, PcOK, default, files
<1>19. ASSUME NEW p \in Callers, Send(p) PROVE TypeOK'
  <2>1. at[p] \in Loggers /\ rec[p] \in InCall
    BY <1>2, <1>3, <1>19 DEF Send, HoldingAt
  <2>2. PcOK' /\ at' \in [Procs -> {Nil} \cup Loggers] /\ rec' \in [Procs -> InCall]
    BY <1>4, <1>14, <1>19, <2>1 DEF Send
  <2>3. CASE logger[at[p]].closed
    BY <1>1, <1>19, <2>2, <2>3 DEF Send, TypeOK, PcOK, default, files
  <2>4. CASE ~logger[at[p]].closed
    <3>. DEFINE r == Sent(rec[p])
    <3>1. r \in Record
      BY <2>1, RecordTypes
    <3>2. logger[at[p]].tunnel \in Seq(Record) /\ Len(logger[at[p]].tunnel) < TunnelSize
      BY <1>4, <1>19, <2>1, <2>4 DEF Send, LoggerFields
    <3>. HIDE DEF r
    <3>3. /\ Append(logger[at[p]].tunnel, r) \in Seq(Record)
          /\ Len(Append(logger[at[p]].tunnel, r)) <= TunnelSize
      BY <3>1, <3>2, LoggerAssumption
    <3>4. logger' = [logger EXCEPT ![at[p]].tunnel = Append(logger[at[p]].tunnel, r)]
      BY <1>19, <2>4 DEF Send, r
    <3>5. logger' \in [Loggers -> LoggerFields]
      BY <1>1, <2>1, <3>3, <3>4, SetField
    <3>6. Tunnels'
      BY <1>1, <2>1, <3>3, <3>4 DEF Tunnels
    <3>7. With(r) \in [Files -> Seq(Record)]
      <4>1. \A f \in Files : accepted[f] \in Seq(Record) /\ Append(accepted[f], r) \in Seq(Record)
        BY <1>1, <3>1 DEF TypeOK
      <4>2. QED
        BY <4>1 DEF With
    <3>8. accepted' \in [Files -> Seq(Record)]
      BY <1>1, <1>19, <2>4, <3>7 DEF Send, TypeOK, r
    <3>9. QED
      BY <1>1, <1>19, <2>2, <3>5, <3>6, <3>8 DEF Send, TypeOK, PcOK, Tunnels, default, files
  <2>5. QED
    BY <2>3, <2>4
<1>20. ASSUME NEW l \in Loggers, Receive(l) PROVE TypeOK'
  <2>1. /\ buf' \in [Files -> Seq(Record)] /\ disk' \in [Files -> Seq(Record)] /\ Buffers'
        /\ Tail(logger[l].tunnel) \in Seq(Record) /\ logger[l].tunnel \in Seq(Record)
    BY <1>1, <1>20, ReceiveTypes
  <2>2. logger' = [logger EXCEPT ![l].tunnel = Tail(logger[l].tunnel)] /\ logger[l].tunnel # <<>>
    BY <1>20 DEF Receive
  <2>3. Len(Tail(logger[l].tunnel)) <= TunnelSize
    <3>1. Len(Tail(logger[l].tunnel)) = Len(logger[l].tunnel) - 1 /\ Len(logger[l].tunnel) \in Nat
      BY <2>1, <2>2
    <3>2. Len(logger[l].tunnel) <= TunnelSize
      BY <1>1 DEF Tunnels
    <3>3. QED
      BY <3>1, <3>2, LoggerAssumption
  <2>4. logger' \in [Loggers -> LoggerFields]
    BY <1>1, <2>1, <2>2, SetField
  <2>5. Tunnels'
    BY <1>1, <2>2, <2>3 DEF Tunnels
  <2>6. boot' \in [Loggers -> {"none", "first", "loop", "gone"}]
    BY <1>1, <1>20 DEF Receive, TypeOK
  <2>7. QED
    BY <1>1, <1>20, <2>1, <2>4, <2>5, <2>6 DEF Receive, TypeOK, PcOK, Tunnels, Buffers, default
<1>21. ASSUME NEW l \in Loggers, FlushTimer(l) PROVE TypeOK'
  BY <1>1, <1>21, FlushTypes DEF FlushTimer, TypeOK, Buffers, default
<1>22. ASSUME NEW l \in Loggers, BootReturns(l) PROVE TypeOK'
  <2>1. logger[l].c = 0
    BY <1>1, <1>22 DEF BootReturns, BootInv
  <2>2. logger' = [logger EXCEPT ![l].c = 1]
    BY <1>22, <2>1 DEF BootReturns, Signal
  <2>3. logger' \in [Loggers -> LoggerFields]
    <3>1. 1 \in 0 .. 2
      OBVIOUS
    <3>2. QED
      BY <1>1, <2>2, <3>1, SetField
  <2>4. Tunnels'
    BY <1>1, <2>2 DEF Tunnels
  <2>5. boot' \in [Loggers -> {"none", "first", "loop", "gone"}]
    BY <1>1, <1>22 DEF BootReturns, TypeOK
  <2>6. QED
    BY <1>1, <1>22, <2>3, <2>4, <2>5 DEF BootReturns, TypeOK, PcOK, Tunnels, default, files
<1>23. CASE CloseTunnel
  <2>1. PcOK'
    BY <1>1, <1>23, MoveOfOne DEF CloseTunnel, Go, MainAt
  <2>2. logger_default = 1
    BY <1>1, <1>23 DEF CloseTunnel, Go, DefaultInv
  <2>3. logger' = [logger EXCEPT ![1].closed = TRUE]
    BY <1>23, <2>2 DEF CloseTunnel
  <2>4. logger' \in [Loggers -> LoggerFields]
    BY <1>1, <2>3, SetField
  <2>5. Tunnels'
    BY <1>1, <2>3 DEF Tunnels
  <2>6. QED
    BY <1>1, <1>23, <2>1, <2>2, <2>4, <2>5 DEF CloseTunnel, TypeOK, PcOK, Tunnels, default, files
<1>24. CASE CloseWaits
  <2>1. PcOK'
    BY <1>1, <1>24, MoveOfOne DEF CloseWaits, Go, MainAt
  <2>2. at[Main] = 1
    BY <1>1, <1>24 DEF CloseWaits, Go, MainInv
  <2>3. First.c \in 0 .. 2 /\ First.c > 0
    BY <1>4, <1>24, <2>2 DEF CloseWaits, First, LoggerFields
  <2>4. logger' = [logger EXCEPT ![1].c = First.c - 1] /\ First.c - 1 \in 0 .. 2
    BY <1>24, <2>2, <2>3 DEF CloseWaits, First
  <2>5. logger' \in [Loggers -> LoggerFields]
    BY <1>1, <2>4, SetField
  <2>6. Tunnels'
    BY <1>1, <2>4 DEF Tunnels
  <2>7. QED
    BY <1>1, <1>24, <2>1, <2>5, <2>6 DEF CloseWaits, TypeOK, PcOK, Tunnels, default, files
<1>25. CASE CloseFlushes
  <2>1. PcOK'
    BY <1>1, <1>25, MoveOfOne DEF CloseFlushes, Go, MainAt
  <2>2. at[Main] \in Loggers
    BY <1>1, <1>25 DEF CloseFlushes, Go, MainInv
  <2>3. QED
    BY <1>1, <1>25, <2>1, <2>2, FlushTypes DEF CloseFlushes, TypeOK, PcOK, Buffers, default
<1>26. CASE Drop \/ Untake
  <2>1. PcOK'
    BY <1>1, <1>26, MoveOfOne DEF Drop, Untake, Go, MainAt
  <2>2. QED
    BY <1>1, <1>26, <2>1 DEF Drop, Untake, TypeOK, PcOK, files
<1>27. CASE MainReturns
  BY <1>7, <1>27 DEF MainReturns
<1>28. QED
  BY <1>5, <1>6, <1>8, <1>9, <1>10, <1>11, <1>12, <1>13, <1>15, <1>16, <1>17, <1>18, <1>19,
     <1>20, <1>21, <1>22, <1>23, <1>24, <1>25, <1>26, <1>27
     DEF Next, Close, Call, Shared, Boot

-----------------------------------------------------------------------------
(* Closing.                                                                *)

Core == MainInv /\ DefaultInv /\ CallersInv /\ BootInv

\* A step of a calling goroutine that leaves the package's variables alone.
LEMMA CallerMoves ==
    ASSUME IInv, Running, NEW p \in Callers, NEW v \in CallerAt, NEW x,
           pc' = [pc EXCEPT ![p] = v], at' = [at EXCEPT ![p] = x],
           logger_default' = logger_default, takeup' = takeup, made' = made,
           boot' = boot, buf' = buf,
           \A l \in Loggers : SameClosing(l) /\ (logger[l].closed => SameTunnel(l)),
           v \in HoldingAt => x # Nil,
           pc[Main] # "returns" => v \notin {"new", "assign"} /\ x \in {Nil, 1},
           v = "dead" => First.closed
    PROVE  Core'
<1> USE Constants
<1>1. MainInv /\ DefaultInv /\ CallersInv /\ BootInv /\ pc \in [Procs -> MainAt \cup CallerAt]
      /\ at \in [Procs -> {Nil} \cup Loggers] /\ logger \in [Loggers -> LoggerFields]
  BY DEF IInv, TypeOK
<1>2. /\ pc'[Main] = pc[Main] /\ at'[Main] = at[Main] /\ pc'[p] = v /\ at'[p] = x
      /\ \A o \in Callers \ {p} : pc'[o] = pc[o] /\ at'[o] = at[o]
  BY <1>1
<1>3. /\ First'.closed = First.closed /\ First'.c = First.c /\ First'.writers = First.writers
      /\ First.closed => First'.tunnel = First.tunnel
  BY DEF First, SameClosing, SameTunnel
<1>4. Running'
  BY <1>2 DEF Running, Exited
<1>5. MainInv'
  BY <1>1, <1>2, <1>3 DEF MainInv
<1>6. DefaultInv'
  BY <1>1, <1>2, <1>4 DEF DefaultInv
<1>7. CallersInv'
  <2> SUFFICES ASSUME NEW o \in Callers
               PROVE  /\ pc'[Main] # "returns" =>
                           pc'[o] \notin {"new", "assign"} /\ at'[o] \in {Nil, 1}
                      /\ pc'[o] \in HoldingAt => at'[o] # Nil
                      /\ pc'[o] = "dead" => First'.closed
    BY <1>4 DEF CallersInv
  <2>1. CASE o = p
    BY <1>2, <1>3, <2>1
  <2>2. CASE o # p
    BY <1>1, <1>2, <1>3, <2>2 DEF CallersInv
  <2>3. QED
    BY <2>1, <2>2
<1>8. BootInv'
  <2>1. /\ Running' => First'.writers = Files /\ boot'[1] \in {"first", "loop", "gone"}
        /\ boot'[1] = "gone" => First'.closed /\ First'.tunnel = <<>>
    BY <1>1, <1>3, <1>4 DEF BootInv
  <2>2. /\ pc'[Main] \in ClosedAt \ {"wait"} => boot'[1] = "gone"
        /\ pc'[Main] \in {"drop", "untake", "returns"} => \A f \in Files : buf'[f] = <<>>
    BY <1>1, <1>2 DEF BootInv
  <2>3. \A l \in Loggers : logger'[l].writers = logger[l].writers /\ logger'[l].c = logger[l].c
    BY DEF SameClosing
  <2>4. /\ \A l \in Loggers : l # 1 => logger'[l].writers = {}
        /\ \A l \in Loggers : logger'[l].c = 0 \/ (logger'[l].c = 1 /\ boot'[l] = "gone")
        /\ \A l \in Loggers : l > made' => boot'[l] = "none"
    BY <1>1, <2>3 DEF BootInv
  <2>5. QED
    BY <2>1, <2>2, <2>4 DEF BootInv
<1>9. QED
  BY <1>5, <1>6, <1>7, <1>8 DEF Core

LEMMA CoreStep ==
    ASSUME IInv, Next
    PROVE  Core'
<1> USE Constants
<1>1. MainInv /\ DefaultInv /\ CallersInv /\ BootInv /\ TypeOK
  BY DEF IInv
<1>2. pc \in [Procs -> MainAt \cup CallerAt]
      /\ at \in [Procs -> {Nil} \cup Loggers] /\ logger \in [Loggers -> LoggerFields]
      /\ boot \in [Loggers -> {"none", "first", "loop", "gone"}]
  BY <1>1 DEF TypeOK
<1>3. \A l \in Loggers : logger[l] \in LoggerFields
  BY <1>2
<1>4. at = [at EXCEPT ![Main] = at[Main]] /\ \A p \in Callers : at = [at EXCEPT ![p] = at[p]]
  BY <1>2
<1>5. CASE InitBaseConf
  <2>1. /\ pc[Main] = "setup" /\ pc'[Main] = "up" /\ ~Running /\ Running'
        /\ \A p \in Callers : pc'[p] = "idle"
        /\ logger_default' = 1 /\ made' = 1 /\ takeup' = TRUE /\ buf' = buf
    BY <1>1, <1>2, <1>5 DEF InitBaseConf, CallersInv, Running, Exited, SetLayout, files
  <2>2. /\ First'.writers = Files /\ First'.closed = FALSE /\ First'.c = 0
        /\ boot'[1] = "first"
        /\ \A l \in Loggers \ {1} : logger'[l] = NewOne /\ boot'[l] = "none"
    <3>1. First = NewOne /\ \A l \in Loggers : logger[l] = NewOne /\ boot[l] = "none"
      BY <1>1, <2>1 DEF DefaultInv, First
    <3>2. First'.writers = Files /\ First'.closed = First.closed /\ First'.c = First.c
      BY <1>2, <1>3, <1>5 DEF InitBaseConf, First, LoggerFields
    <3>3. QED
      BY <1>2, <1>5, <3>1, <3>2 DEF InitBaseConf, NewOne
  <2>3. MainInv'
    BY <2>1, <2>2 DEF MainInv, ClosedAt
  <2>4. DefaultInv'
    BY <2>1 DEF DefaultInv
  <2>5. CallersInv'
    <3>1. \A p \in Callers : at'[p] = at[p]
      BY <1>5 DEF InitBaseConf
    <3>2. \A p \in Callers : at[p] \in {Nil, 1}
      BY <1>1, <2>1 DEF CallersInv
    <3>3. QED
      BY <2>1, <3>1, <3>2 DEF CallersInv, HoldingAt
  <2>6. BootInv'
    <3>1. \A l \in Loggers \ {1} : logger'[l].writers = {} /\ logger'[l].c = 0
      BY <2>2 DEF NewOne
    <3>2. \A l \in Loggers : logger'[l].c = 0
      BY <2>2, <3>1 DEF First
    <3>3. \A l \in Loggers : l > made' => boot'[l] = "none"
      BY <2>1, <2>2
    <3>4. QED
      BY <2>1, <2>2, <3>1, <3>2, <3>3 DEF BootInv, ClosedAt
  <2>7. QED
    BY <2>3, <2>4, <2>5, <2>6 DEF Core
<1>6. ASSUME NEW how \in {"exited", "killed"}, Exit(how) PROVE Core'
  <2>1. /\ pc'[Main] = how /\ \A p \in Callers : pc'[p] = "idle" /\ at'[p] = Nil
        /\ made' = 0 /\ lastRace' = 0 /\ \A f \in Files : buf'[f] = <<>>
        /\ \A l \in Loggers : logger'[l] = NewOne /\ boot'[l] = "none"
    BY <1>6 DEF Exit
  <2>2. ~Running' /\ First' = NewOne
    BY <2>1 DEF Running, Exited, First
  <2>3. MainInv'
    BY <2>1, <2>2 DEF MainInv, ClosedAt, NewOne
  <2>4. DefaultInv'
    BY <2>1, <2>2 DEF DefaultInv
  <2>5. CallersInv'
    BY <2>1, <2>2 DEF CallersInv, HoldingAt
  <2>6. BootInv'
    <3>1. \A l \in Loggers : logger'[l].writers = {} /\ logger'[l].c = 0 /\ boot'[l] = "none"
      BY <2>1 DEF NewOne
    <3>2. QED
      BY <2>1, <2>2, <3>1 DEF BootInv, ClosedAt
  <2>7. QED
    BY <2>3, <2>4, <2>5, <2>6 DEF Core
<1>7. CASE Kill
  BY <1>6, <1>7 DEF Kill
<1>8. CASE MainReturns
  BY <1>6, <1>8 DEF MainReturns
<1>9. CASE Tick
  <2>1. UNCHANGED <<logger_default, takeup, made, logger, boot, buf, pc, at, lastRace>>
    BY <1>9 DEF Tick, default, files
  <2>2. QED
    BY <1>1, <2>1 DEF Core, MainInv, DefaultInv, CallersInv, BootInv, Running, Exited, First
<1>10. ASSUME NEW p \in Callers, Check(p) PROVE Core'
  <2>1. Running /\ UNCHANGED <<logger_default, takeup, made, logger, boot, buf, at>>
    BY <1>10 DEF Check, Go, default, files
  <2>2. pc' = [pc EXCEPT ![p] = IF takeup THEN "use" ELSE "new"]
    BY <1>10 DEF Check, Go
  <2>3. pc[Main] # "returns" => takeup /\ at[p] \in {Nil, 1}
    BY <1>1, <2>1 DEF DefaultInv, CallersInv
  <2>4. QED
    BY <1>4, <2>1, <2>2, <2>3, CallerMoves DEF HoldingAt, CallerAt, SameClosing, SameTunnel
<1>11. ASSUME NEW p \in Callers, Log(p) PROVE Core'
  <2>1. Running /\ UNCHANGED <<logger_default, takeup, made, logger, boot, buf, at>>
        /\ pc' = [pc EXCEPT ![p] = "check"]
    BY <1>11 DEF Log, Go, default, files
  <2>2. pc[Main] # "returns" => at[p] \in {Nil, 1}
    BY <1>1, <2>1 DEF CallersInv
  <2>3. QED
    BY <1>4, <2>1, <2>2, CallerMoves DEF HoldingAt, CallerAt, SameClosing, SameTunnel
<1>12. ASSUME NEW p \in Callers, Use(p) PROVE Core'
  <2>1. Running /\ UNCHANGED <<logger_default, takeup, made, logger, boot, buf>>
    BY <1>12 DEF Use, default, files
  <2>2. CASE logger_default = Nil \/ rec[p].level < logger[logger_default].level
    <3>1. /\ pc' = [pc EXCEPT ![p] = IF logger_default = Nil THEN "dead" ELSE "idle"]
          /\ at' = [at EXCEPT ![p] = Nil]
      BY <1>12, <2>2 DEF Use, Ends
    <3>2. logger_default = Nil => First.closed
      BY <1>1, <2>1 DEF DefaultInv, MainInv, ClosedAt, Nil
    <3>3. QED
      BY <2>1, <3>1, <3>2, CallerMoves DEF HoldingAt, CallerAt, SameClosing, SameTunnel
  <2>3. CASE ~(logger_default = Nil \/ rec[p].level < logger[logger_default].level)
    <3>1. pc' = [pc EXCEPT ![p] = "compare"] /\ at' = [at EXCEPT ![p] = logger_default]
          /\ logger_default # Nil
      BY <1>12, <2>3 DEF Use
    <3>2. pc[Main] # "returns" => logger_default \in {Nil, 1}
      BY <1>1, <2>1 DEF DefaultInv
    <3>3. QED
      BY <2>1, <3>1, <3>2, CallerMoves DEF HoldingAt, CallerAt, SameClosing, SameTunnel
  <2>4. QED
    BY <2>2, <2>3
<1>13. ASSUME NEW p \in Callers, Compare(p) \/ Format(p) \/ Take(p) PROVE Core'
  <2>1. Running /\ UNCHANGED <<logger_default, takeup, made, boot, buf>>
        /\ at' = [at EXCEPT ![p] = at[p]]
    BY <1>4, <1>13 DEF Compare, Format, Take, Go, default, files
  <2>2. PICK v \in {"format", "take", "send"} : pc' = [pc EXCEPT ![p] = v]
    BY <1>13 DEF Compare, Format, Take, Go
  <2>3. at[p] # Nil /\ (pc[Main] # "returns" => at[p] \in {Nil, 1})
    BY <1>1, <1>13, <2>1 DEF CallersInv, Compare, Format, Take, Go, HoldingAt
  <2>4. at[p] \in Loggers
    BY <1>2, <2>3 DEF Procs
  <2>5. \A l \in Loggers : SameClosing(l) /\ SameTunnel(l)
    <3>1. CASE Compare(p)
      BY <1>2, <2>4, <3>1, FieldFrame DEF Compare
    <3>2. CASE Format(p)
      BY <1>2, <2>4, <3>2, FieldFrame DEF Format
    <3>3. CASE Take(p)
      BY <3>3 DEF Take, SameClosing, SameTunnel
    <3>4. QED
      BY <1>13, <3>1, <3>2, <3>3
  <2>6. v \in CallerAt /\ v \notin {"new", "assign", "dead"}
    BY DEF CallerAt
  <2>7. QED
    BY <2>1, <2>2, <2>3, <2>5, <2>6, CallerMoves
<1>14. ASSUME NEW p \in Callers, Send(p) PROVE Core'
  <2>1. Running /\ UNCHANGED <<logger_default, takeup, made, boot, buf>>
    BY <1>14 DEF Send, default, files
  <2>2. /\ pc' = [pc EXCEPT ![p] = IF logger[at[p]].closed THEN "dead" ELSE "idle"]
        /\ at' = [at EXCEPT ![p] = Nil]
    BY <1>14 DEF Send, Ends
  <2>3. at[p] \in Loggers
    BY <1>1, <1>2, <1>14 DEF CallersInv, Send, HoldingAt, Procs
  <2>4. \A l \in Loggers : SameClosing(l) /\ (logger[l].closed => SameTunnel(l))
    <3>1. CASE logger[at[p]].closed
      BY <1>14, <3>1 DEF Send, SameClosing, SameTunnel
    <3>2. CASE ~logger[at[p]].closed
      <4>1. logger' = [logger EXCEPT ![at[p]].tunnel = Append(logger[at[p]].tunnel, Sent(rec[p]))]
        BY <1>14, <3>2 DEF Send
      <4>2. QED
        BY <1>2, <2>3, <3>2, <4>1, FieldFrame
    <3>3. QED
      BY <3>1, <3>2
  <2>5. logger[at[p]].closed => First.closed
    <3>1. CASE pc[Main] = "returns"
      BY <1>1, <3>1 DEF MainInv, ClosedAt
    <3>2. CASE pc[Main] # "returns"
      <4>1. at[p] = 1
        BY <1>1, <2>1, <2>3, <3>2 DEF CallersInv, Nil
      <4>2. QED
        BY <4>1 DEF First
    <3>3. QED
      BY <3>1, <3>2
  <2>6. QED
    BY <2>1, <2>2, <2>4, <2>5, CallerMoves DEF HoldingAt, CallerAt
<1>15. ASSUME NEW p \in Callers, NewLogger(p) \/ Assign(p) PROVE Core'
  <2>1. Running /\ pc[p] \in {"new", "assign"} /\ UNCHANGED <<logger, buf>>
    BY <1>15 DEF NewLogger, Assign, Go, files
  <2>2. pc[Main] = "returns" /\ First.closed
    BY <1>1, <2>1 DEF CallersInv, MainInv, ClosedAt
  <2>3. /\ pc'[Main] = "returns" /\ at'[Main] = at[Main]
        /\ pc'[p] \in {"assign", "use"} /\ (pc'[p] = "assign" => at'[p] # Nil)
        /\ \A o \in Callers \ {p} : pc'[o] = pc[o] /\ at'[o] = at[o]
    BY <1>1, <1>2, <1>15, <2>2 DEF NewLogger, Assign, Go, DefaultInv, TypeOK, Nil
  <2>4. Running' /\ First' = First
    BY <2>1, <2>3 DEF Running, Exited, First
  <2>5. made' = made \/ made' = made + 1
    BY <1>15 DEF NewLogger, Assign
  <2>6. made \in Nat /\ made' \in Nat /\ made >= 1 /\ made' >= 1 /\ made' >= made
    BY <1>1, <2>2, <2>5 DEF DefaultInv, TypeOK, Nil
  <2>7. boot' = boot \/ (boot' = [boot EXCEPT ![made + 1] = "first"] /\ made' = made + 1)
    BY <1>15 DEF NewLogger, Assign
  <2>8. boot'[1] = boot[1]
    BY <1>2, <2>6, <2>7
  <2>9. ASSUME NEW l \in Loggers
        PROVE  /\ boot[l] = "gone" => boot'[l] = "gone"
               /\ l > made' => boot'[l] = "none"
    <3>1. l \in Nat /\ (l > made' => l > made)
      BY <2>6
    <3>2. CASE boot' = boot
      BY <1>1, <3>1, <3>2 DEF BootInv
    <3>3. CASE boot' = [boot EXCEPT ![made + 1] = "first"] /\ made' = made + 1
      <4>1. CASE l # made + 1
        BY <1>1, <1>2, <3>1, <3>3, <4>1 DEF BootInv
      <4>2. CASE l = made + 1
        <5>1. ~(l > made') /\ l > made
          BY <2>6, <3>3, <4>2
        <5>2. boot[l] = "none"
          BY <1>1, <5>1 DEF BootInv
        <5>3. QED
          BY <5>1, <5>2
      <4>3. QED
        BY <4>1, <4>2
    <3>4. QED
      BY <2>7, <3>2, <3>3
  <2>10. MainInv'
    BY <2>2, <2>3, <2>4 DEF MainInv, ClosedAt
  <2>11. DefaultInv'
    BY <2>3, <2>4, <2>6 DEF DefaultInv
  <2>12. CallersInv'
    <3>1. ASSUME NEW o \in Callers
          PROVE  (pc'[o] \in HoldingAt => at'[o] # Nil) /\ (pc'[o] = "dead" => First'.closed)
      <4>1. CASE o = p
        BY <2>3, <4>1 DEF HoldingAt
      <4>2. CASE o # p
        BY <1>1, <2>3, <2>4, <4>2 DEF CallersInv
      <4>3. QED
        BY <4>1, <4>2
    <3>2. QED
      BY <2>3, <2>4, <3>1 DEF CallersInv
  <2>13. BootInv'
    BY <1>1, <2>1, <2>2, <2>3, <2>4, <2>8, <2>9 DEF BootInv, ClosedAt
  <2>14. QED
    BY <2>10, <2>11, <2>12, <2>13 DEF Core
<1>16. ASSUME Running, NEW v, pc' = [pc EXCEPT ![Main] = v], v \notin {"setup", "exited", "killed"}
       PROVE  /\ Running' /\ pc'[Main] = v /\ \A p \in Callers : pc'[p] = pc[p]
  BY <1>2, <1>16 DEF Running, Exited
<1>17. CASE Destroy \/ Check(Main)
  <2>1. /\ Running /\ pc[Main] \in {"up", "check"}
        /\ UNCHANGED <<logger_default, takeup, made, logger, boot, buf, at>>
    BY <1>17 DEF Destroy, Check, Go, default, files
  <2>2. takeup
    BY <1>1, <2>1 DEF DefaultInv
  <2>3. PICK v \in {"check", "use"} : pc' = [pc EXCEPT ![Main] = v]
    BY <1>17, <2>2 DEF Destroy, Check, Go
  <2>4. Running' /\ pc'[Main] \in {"check", "use"} /\ \A p \in Callers : pc'[p] = pc[p]
    BY <1>16, <2>1, <2>3
  <2>5. First' = First
    BY <2>1 DEF First
  <2>6. MainInv'
    BY <1>1, <2>1, <2>4, <2>5 DEF MainInv, ClosedAt
  <2>7. DefaultInv'
    BY <1>1, <2>1, <2>4 DEF DefaultInv
  <2>8. CallersInv'
    BY <1>1, <2>1, <2>4, <2>5 DEF CallersInv
  <2>9. BootInv'
    BY <1>1, <2>1, <2>4, <2>5 DEF BootInv, ClosedAt
  <2>10. QED
    BY <2>6, <2>7, <2>8, <2>9 DEF Core
<1>18. ASSUME NewLogger(Main) \/ Assign(Main) PROVE FALSE
  BY <1>1, <1>18 DEF NewLogger, Assign, Go, MainInv
<1>19. CASE CloseTunnel
  <2>1. /\ Running /\ pc[Main] = "use" /\ UNCHANGED <<logger_default, takeup, made, boot, buf>>
        /\ pc' = [pc EXCEPT ![Main] = "wait"]
    BY <1>19 DEF CloseTunnel, Go, default, files
  <2>2. logger_default = 1
    BY <1>1, <2>1 DEF DefaultInv
  <2>3. Running' /\ pc'[Main] = "wait" /\ \A p \in Callers : pc'[p] = pc[p]
    BY <1>16, <2>1
  <2>4. at'[Main] = 1 /\ \A p \in Callers : at'[p] = at[p]
    BY <1>2, <1>19, <2>2 DEF CloseTunnel
  <2>5. /\ First'.closed = TRUE /\ First'.writers = First.writers /\ First'.tunnel = First.tunnel
        /\ \A l \in Loggers : logger'[l].c = logger[l].c /\ logger'[l].writers = logger[l].writers
    BY <1>2, <1>19, <2>2, FieldFrame DEF CloseTunnel, First, SameTunnel
  <2>6. MainInv'
    BY <2>3, <2>4, <2>5 DEF MainInv, ClosedAt
  <2>7. DefaultInv'
    BY <1>1, <2>1, <2>3 DEF DefaultInv
  <2>8. CallersInv'
    BY <1>1, <2>1, <2>3, <2>4, <2>5 DEF CallersInv
  <2>9. BootInv'
    BY <1>1, <2>1, <2>3, <2>5 DEF BootInv, ClosedAt
  <2>10. QED
    BY <2>6, <2>7, <2>8, <2>9 DEF Core
<1>20. CASE CloseWaits
  <2>1. /\ Running /\ pc[Main] = "wait" /\ UNCHANGED <<logger_default, takeup, made, boot, buf, at>>
        /\ pc' = [pc EXCEPT ![Main] = "flush"] /\ at[Main] = 1
    BY <1>1, <1>20 DEF CloseWaits, Go, default, files, MainInv
  <2>2. Running' /\ pc'[Main] = "flush" /\ \A p \in Callers : pc'[p] = pc[p]
    BY <1>16, <2>1
  <2>3. First.c = 1 /\ boot[1] = "gone"
    BY <1>1, <1>20, <2>1 DEF CloseWaits, BootInv, First
  <2>4. logger' = [logger EXCEPT ![1].c = First.c - 1] /\ First.c - 1 = 0
    BY <1>20, <2>1, <2>3 DEF CloseWaits, First
  <2>5. /\ First'.closed = First.closed /\ First'.writers = First.writers /\ First'.tunnel = First.tunnel
        /\ \A l \in Loggers : logger'[l].c \in {0, logger[l].c} /\ logger'[l].writers = logger[l].writers
    BY <1>2, <2>4, FieldFrame DEF First, SameTunnel, SameClosing
  <2>6. MainInv'
    BY <1>1, <2>1, <2>2, <2>5 DEF MainInv, ClosedAt
  <2>7. DefaultInv'
    BY <1>1, <2>1, <2>2 DEF DefaultInv
  <2>8. CallersInv'
    BY <1>1, <2>1, <2>2, <2>5 DEF CallersInv
  <2>9. BootInv'
    BY <1>1, <2>1, <2>2, <2>3, <2>5 DEF BootInv, ClosedAt
  <2>10. QED
    BY <2>6, <2>7, <2>8, <2>9 DEF Core
<1>21. CASE CloseFlushes \/ Drop \/ Untake
  <2>1. /\ Running /\ UNCHANGED <<made, logger, boot, at>>
        /\ \/ CloseFlushes /\ pc[Main] = "flush" /\ pc' = [pc EXCEPT ![Main] = "drop"]
           \/ Drop /\ pc[Main] = "drop" /\ pc' = [pc EXCEPT ![Main] = "untake"]
           \/ Untake /\ pc[Main] = "untake" /\ pc' = [pc EXCEPT ![Main] = "returns"]
    BY <1>21 DEF CloseFlushes, Drop, Untake, Go, default
  <2>2. /\ Running' /\ \A p \in Callers : pc'[p] = pc[p]
        /\ \/ CloseFlushes /\ pc[Main] = "flush" /\ pc'[Main] = "drop"
           \/ Drop /\ pc[Main] = "drop" /\ pc'[Main] = "untake"
           \/ Untake /\ pc[Main] = "untake" /\ pc'[Main] = "returns"
    BY <1>16, <2>1
  <2>3. First' = First
    BY <2>1 DEF First
  <2>4. First.closed /\ boot[1] = "gone"
    BY <1>1, <2>2 DEF MainInv, BootInv, ClosedAt
  <2>5. \A f \in Files : buf'[f] = <<>>
    <3>1. CASE CloseFlushes
      <4>1. at[Main] = 1 /\ First.writers = Files
        BY <1>1, <2>1, <2>2, <3>1 DEF MainInv, BootInv, CloseFlushes, Go
      <4>2. QED
        BY <3>1, <4>1 DEF CloseFlushes, Flush, First
    <3>2. CASE Drop \/ Untake
      BY <1>1, <2>2, <3>2 DEF BootInv, Drop, Untake, files, Go
    <3>3. QED
      BY <1>21, <3>1, <3>2
  <2>6. MainInv'
    BY <1>1, <2>2, <2>3, <2>4 DEF MainInv, ClosedAt
  <2>7. DefaultInv'
    <3>1. CASE CloseFlushes
      BY <1>1, <2>1, <2>2, <3>1 DEF DefaultInv, CloseFlushes, default, Go
    <3>2. CASE Drop
      BY <1>1, <2>1, <2>2, <3>2 DEF DefaultInv, Drop, Go
    <3>3. CASE Untake
      BY <1>1, <2>1, <2>2, <3>3 DEF DefaultInv, Untake, Go
    <3>4. QED
      BY <1>21, <3>1, <3>2, <3>3
  <2>8. CallersInv'
    BY <1>1, <2>1, <2>2, <2>3 DEF CallersInv
  <2>9. BootInv'
    BY <1>1, <2>1, <2>2, <2>3, <2>4, <2>5 DEF BootInv
  <2>10. QED
    BY <2>6, <2>7, <2>8, <2>9 DEF Core
<1>22. ASSUME NEW l \in Loggers, Receive(l) \/ FlushTimer(l) PROVE Core'
  <2>1. Running /\ UNCHANGED <<logger_default, takeup, made, pc, at>> /\ boot[l] \in {"first", "loop"}
    BY <1>22 DEF Receive, FlushTimer, default
  <2>2. \A k \in Loggers : SameClosing(k) /\ (k # l => SameTunnel(k))
    <3>1. CASE Receive(l)
      <4>1. logger' = [logger EXCEPT ![l].tunnel = Tail(logger[l].tunnel)]
        BY <3>1 DEF Receive
      <4>2. QED
        BY <1>2, <4>1, FieldFrame
    <3>2. CASE FlushTimer(l)
      BY <3>2 DEF FlushTimer, SameClosing, SameTunnel
    <3>3. QED
      BY <1>22, <3>1, <3>2
  <2>3. boot' = boot \/ boot' = [boot EXCEPT ![l] = "loop"]
    BY <1>22 DEF Receive, FlushTimer
  <2>4. \A k \in Loggers : boot'[k] = boot[k] \/ (k = l /\ boot'[k] = "loop")
    BY <1>2, <2>3
  <2>5. Running' /\ pc'[Main] = pc[Main]
    BY <2>1 DEF Running, Exited
  <2>6. First'.closed = First.closed /\ First'.writers = First.writers
        /\ (l # 1 => First'.tunnel = First.tunnel)
    BY <2>2 DEF SameClosing, SameTunnel, First
  <2>7. pc[Main] \in {"drop", "untake", "returns"} => \A f \in Files : buf'[f] = buf[f]
    <3>1. ASSUME pc[Main] \in {"drop", "untake", "returns"} PROVE logger[l].writers = {}
      BY <1>1, <2>1, <3>1 DEF BootInv, ClosedAt
    <3>2. ASSUME logger[l].writers = {}, NEW f \in Files PROVE buf'[f] = buf[f]
      BY <1>22, <3>2 DEF Receive, FlushTimer
    <3>3. QED
      BY <3>1, <3>2
  <2>8. MainInv'
    BY <1>1, <2>1, <2>6 DEF MainInv
  <2>9. DefaultInv'
    BY <1>1, <2>1, <2>5 DEF DefaultInv
  <2>10. CallersInv'
    BY <1>1, <2>1, <2>5, <2>6 DEF CallersInv
  <2>11. BootInv'
    <3>1. /\ Running' => First'.writers = Files /\ boot'[1] \in {"first", "loop", "gone"}
          /\ boot'[1] = "gone" => First'.closed /\ First'.tunnel = <<>>
          /\ pc'[Main] \in ClosedAt \ {"wait"} => boot'[1] = "gone"
      BY <1>1, <2>1, <2>4, <2>6 DEF BootInv
    <3>2. pc'[Main] \in {"drop", "untake", "returns"} => \A f \in Files : buf'[f] = <<>>
      BY <1>1, <2>1, <2>7 DEF BootInv
    <3>3. ASSUME NEW k \in Loggers
          PROVE  /\ k # 1 => logger'[k].writers = {}
                 /\ logger'[k].c = 0 \/ (logger'[k].c = 1 /\ boot'[k] = "gone")
                 /\ k > made' => boot'[k] = "none"
      BY <1>1, <2>1, <2>2, <2>4 DEF BootInv, SameClosing
    <3>4. QED
      BY <3>1, <3>2, <3>3 DEF BootInv
  <2>12. QED
    BY <2>8, <2>9, <2>10, <2>11 DEF Core
<1>23. ASSUME NEW l \in Loggers, BootReturns(l) PROVE Core'
  <2>1. /\ Running /\ UNCHANGED <<logger_default, takeup, made, buf, pc, at>>
        /\ boot[l] \in {"first", "loop"} /\ logger[l].closed /\ logger[l].tunnel = <<>>
    BY <1>23 DEF BootReturns, Drained, default, files
  <2>2. logger[l].c = 0
    BY <1>1, <2>1 DEF BootInv
  <2>3. logger' = [logger EXCEPT ![l].c = 1]
    BY <1>23, <2>2 DEF BootReturns, Signal
  <2>4. /\ \A k \in Loggers : /\ SameTunnel(k) /\ (k # l => SameClosing(k))
                              /\ logger'[k].closed = logger[k].closed /\ logger'[k].writers = logger[k].writers
        /\ logger'[l].c = 1
    BY <1>2, <2>3, FieldFrame
  <2>5. boot'[l] = "gone" /\ \A k \in Loggers : k # l => boot'[k] = boot[k]
    BY <1>2, <1>23 DEF BootReturns
  <2>6. Running' /\ pc'[Main] = pc[Main]
    BY <2>1 DEF Running, Exited
  <2>7. First'.closed = First.closed /\ First'.writers = First.writers /\ First'.tunnel = First.tunnel
    BY <2>4 DEF SameTunnel, First
  <2>8. MainInv'
    BY <1>1, <2>1, <2>7 DEF MainInv
  <2>9. DefaultInv'
    BY <1>1, <2>1, <2>6 DEF DefaultInv
  <2>10. CallersInv'
    BY <1>1, <2>1, <2>6, <2>7 DEF CallersInv
  <2>11. BootInv'
    <3>1. /\ Running' => First'.writers = Files /\ boot'[1] \in {"first", "loop", "gone"}
          /\ boot'[1] = "gone" => First'.closed /\ First'.tunnel = <<>>
          /\ pc'[Main] \in ClosedAt \ {"wait"} => boot'[1] = "gone"
      BY <1>1, <2>1, <2>5, <2>7 DEF BootInv, First
    <3>2. pc'[Main] \in {"drop", "untake", "returns"} => \A f \in Files : buf'[f] = <<>>
      BY <1>1, <2>1 DEF BootInv
    <3>3. ASSUME NEW k \in Loggers
          PROVE  /\ k # 1 => logger'[k].writers = {}
                 /\ logger'[k].c = 0 \/ (logger'[k].c = 1 /\ boot'[k] = "gone")
                 /\ k > made' => boot'[k] = "none"
      BY <1>1, <2>1, <2>4, <2>5 DEF BootInv, SameClosing
    <3>4. QED
      BY <3>1, <3>2, <3>3 DEF BootInv
  <2>12. QED
    BY <2>8, <2>9, <2>10, <2>11 DEF Core
<1>24. QED
  BY <1>5, <1>7, <1>8, <1>9, <1>10, <1>11, <1>12, <1>13, <1>14, <1>15, <1>17, <1>18,
     <1>19, <1>20, <1>21, <1>22, <1>23
     DEF Next, Close, Call, Shared, Boot

-----------------------------------------------------------------------------
(* How many loggers are made.                                              *)

LEMMA CountStep ==
    ASSUME IInv, Next
    PROVE  CountInv'
<1> USE Constants
<1>1. MainInv /\ DefaultInv /\ CallersInv /\ CountInv /\ TypeOK
  BY DEF IInv
<1>2. /\ pc \in [Procs -> MainAt \cup CallerAt] /\ made \in Nat /\ logged \in Nat
      /\ IsFiniteSet(Pending) /\ Cardinality(Pending) \in Nat
      /\ made + Cardinality(Pending) <= logged + 1
  BY <1>1, FS_CardinalityType DEF TypeOK, CountInv, Nil
<1>3. ASSUME Pending' \subseteq Pending, made' = made, logged' = logged PROVE CountInv'
  <2>1. PICK S : S = Pending'
    OBVIOUS
  <2>2. IsFiniteSet(S) /\ Cardinality(S) <= Cardinality(Pending) /\ Cardinality(S) \in Nat
    BY <1>2, <1>3, <2>1, FS_Subset, FS_CardinalityType
  <2>3. made + Cardinality(S) <= logged + 1
    BY <1>2, <2>2
  <2>4. QED
    BY <1>3, <2>1, <2>2, <2>3 DEF CountInv
<1>4. ASSUME UNCHANGED <<made, logged>>,
             \A p \in Callers : pc'[p] \in {"check", "new"} => pc[p] \in {"check", "new"}
      PROVE  CountInv'
  BY <1>3, <1>4 DEF Pending
<1>5. ASSUME Pending' = {}, made' \in {0, 1}, logged' \in Nat PROVE CountInv'
  <2>1. Cardinality({}) = 0 /\ IsFiniteSet({})
    BY FS_EmptySet
  <2>2. QED
    BY <1>5, <2>1 DEF CountInv
<1>6. CASE InitBaseConf
  <2>1. \A p \in Callers : pc'[p] = "idle"
    BY <1>1, <1>2, <1>6 DEF InitBaseConf, CallersInv, Running
  <2>2. Pending' = {} /\ made' = 1 /\ logged' = logged
    BY <1>6, <2>1 DEF Pending, InitBaseConf
  <2>3. QED
    BY <1>2, <1>5, <2>2
<1>7. ASSUME NEW how, Exit(how) PROVE CountInv'
  <2>1. Pending' = {} /\ made' = 0 /\ logged' = 0
    BY <1>7 DEF Exit, Pending
  <2>2. QED
    BY <1>5, <2>1
<1>8. CASE Kill \/ MainReturns
  BY <1>7, <1>8 DEF Kill, MainReturns
<1>9. CASE Tick \/ Destroy \/ CloseTunnel \/ CloseWaits \/ CloseFlushes \/ Drop \/ Untake
  <2>1. UNCHANGED <<made, logged>>
    BY <1>9 DEF Tick, Destroy, CloseTunnel, CloseWaits, CloseFlushes, Drop, Untake, default
  <2>2. pc' = pc \/ \E v : pc' = [pc EXCEPT ![Main] = v]
    BY <1>9 DEF Tick, Destroy, CloseTunnel, CloseWaits, CloseFlushes, Drop, Untake, Go
  <2>3. \A p \in Callers : pc'[p] = pc[p]
    BY <1>2, <2>2
  <2>4. QED
    BY <1>4, <2>1, <2>3
<1>10. ASSUME NEW l \in Loggers, Receive(l) \/ FlushTimer(l) \/ BootReturns(l) PROVE CountInv'
  <2>1. UNCHANGED <<made, logged, pc>>
    BY <1>10 DEF Receive, FlushTimer, BootReturns, default
  <2>2. QED
    BY <1>4, <2>1
<1>11. ASSUME NEW p \in Callers, Log(p) PROVE CountInv'
  <2>1. Pending' = Pending \cup {p} /\ made' = made /\ logged' = logged + 1
    BY <1>2, <1>11 DEF Pending, Log, Go, default
  <2>2. p \notin Pending
    BY <1>11 DEF Pending, Log, Go
  <2>3. PICK S : S = Pending'
    OBVIOUS
  <2>4. IsFiniteSet(S) /\ Cardinality(S) = Cardinality(Pending) + 1
    BY <1>2, <2>1, <2>2, <2>3, FS_AddElement
  <2>5. made + Cardinality(S) <= (logged + 1) + 1
    BY <1>2, <2>4
  <2>6. QED
    BY <2>1, <2>3, <2>4, <2>5 DEF CountInv
<1>12. ASSUME NEW p \in Procs, Check(p) PROVE CountInv'
  BY <1>2, <1>4, <1>12 DEF Check, Go, default
<1>13. ASSUME NEW p \in Procs, Assign(p) PROVE CountInv'
  BY <1>2, <1>4, <1>13 DEF Assign, Go
<1>14. ASSUME NEW p \in Procs, NewLogger(p) PROVE CountInv'
  <2>1. p \in Callers /\ pc[p] = "new"
    BY <1>1, <1>14 DEF NewLogger, Go, MainInv, Procs
  <2>2. Pending' = Pending \ {p} /\ p \in Pending /\ logged' = logged
    BY <1>2, <1>14, <2>1 DEF Pending, NewLogger, Go
  <2>3. made' \in {made, made + 1}
    BY <1>14 DEF NewLogger
  <2>4. PICK S : S = Pending'
    OBVIOUS
  <2>5. IsFiniteSet(S) /\ Cardinality(S) = Cardinality(Pending) - 1
    BY <1>2, <2>2, <2>4, FS_RemoveElement
  <2>6. made' + Cardinality(S) <= logged + 1
    BY <1>2, <2>3, <2>5
  <2>7. QED
    BY <2>2, <2>4, <2>5, <2>6 DEF CountInv
<1>15. ASSUME NEW p \in Callers, Use(p) \/ Compare(p) \/ Format(p) \/ Take(p) \/ Send(p) PROVE CountInv'
  <2>1. UNCHANGED <<made, logged>>
    BY <1>15 DEF Use, Compare, Format, Take, Send, default
  <2>2. PICK v \in {"dead", "idle", "compare", "format", "take", "send"} : pc' = [pc EXCEPT ![p] = v]
    BY <1>15 DEF Use, Compare, Format, Take, Send, Ends, Go
  <2>3. QED
    BY <1>2, <1>4, <2>1, <2>2
<1>16. QED
  BY <1>6, <1>8, <1>9, <1>10, <1>11, <1>12, <1>13, <1>14, <1>15
     DEF Next, Close, Call, Shared, Boot

-----------------------------------------------------------------------------
(* The records between the callers and the disk.                           *)

LEMMA AppendOfConcat ==
    \A s, q \in Seq(Record) : \A e \in Record : Append(s \o q, e) = s \o Append(q, e)
<1> SUFFICES ASSUME NEW s \in Seq(Record), NEW q \in Seq(Record), NEW e \in Record
             PROVE  Append(s \o q, e) = s \o Append(q, e)
  OBVIOUS
<1>1. s \o q \in Seq(Record) /\ <<e>> \in Seq(Record)
  OBVIOUS
<1>2. Append(s \o q, e) = (s \o q) \o <<e>> /\ Append(q, e) = q \o <<e>>
  BY <1>1, AppendIsConcat
<1>3. (s \o q) \o <<e>> = s \o (q \o <<e>>)
  BY <1>1, ConcatAssociative
<1>4. QED
  BY <1>2, <1>3

LEMMA HeadOfConcat ==
    ASSUME NEW R, NEW s \in Seq(R), NEW q \in Seq(R), q # <<>>
    PROVE  s \o q = Append(s, Head(q)) \o Tail(q)
<1>1. PICK r \in R : r = Head(q)
  OBVIOUS
<1>2. <<r>> \in Seq(R) /\ Tail(q) \in Seq(R) /\ q = <<r>> \o Tail(q)
  BY <1>1
<1>3. s \o (<<r>> \o Tail(q)) = (s \o <<r>>) \o Tail(q)
  BY <1>2, ConcatAssociative
<1>4. Append(s, r) = s \o <<r>>
  BY AppendIsConcat
<1>5. QED
  BY <1>1, <1>2, <1>3, <1>4

\* What is at the end of disk[f] and buf[f] moves in one piece.
LEMMA MovesToDisk ==
    ASSUME TypeOK, QueueInv, ~Exited, accepted' = accepted, First'.tunnel = First.tunnel,
           \A f \in Files : disk'[f] \o buf'[f] = disk[f] \o buf[f]
    PROVE  QueueInv'
<1> SUFFICES ASSUME NEW f \in Files
             PROVE  \E q \in Seq(Record) :
                        /\ accepted'[f] = (disk'[f] \o buf'[f]) \o q
                        /\ Selection(q, First'.tunnel, FileLevels[f])
  BY DEF QueueInv
<1>1. PICK q \in Seq(Record) : /\ accepted[f] = (disk[f] \o buf[f]) \o q
                               /\ Selection(q, First.tunnel, FileLevels[f])
  BY DEF QueueInv
<1>2. accepted'[f] = (disk'[f] \o buf'[f]) \o q /\ Selection(q, First'.tunnel, FileLevels[f])
  BY <1>1
<1>3. QED
  BY <1>2

LEMMA FlushMoves ==
    ASSUME TypeOK, NEW l \in Loggers, Flush(l), NEW f \in Files
    PROVE  disk'[f] \o buf'[f] = disk[f] \o buf[f]
<1>1. disk[f] \in Seq(Record) /\ buf[f] \in Seq(Record) /\ disk[f] \o buf[f] \in Seq(Record)
  BY DEF TypeOK
<1>2. (disk[f] \o buf[f]) \o <<>> = disk[f] \o buf[f]
  BY <1>1, ConcatEmptySeq
<1>3. QED
  BY <1>2, FlushTypes

\* The record that is received goes behind what the buffer holds.
LEMMA ReceiveMoves ==
    ASSUME TypeOK, BootInv, Running, Receive(1), NEW f \in Files, NEW q \in Seq(Record),
           accepted[f] = (disk[f] \o buf[f]) \o q,
           Selection(q, First.tunnel, FileLevels[f])
    PROVE  \E rest \in Seq(Record) :
               /\ accepted[f] = (disk'[f] \o buf'[f]) \o rest
               /\ Selection(rest, Tail(First.tunnel), FileLevels[f])
<1>. DEFINE t == First.tunnel
            r == Head(t)
<1>1. /\ t \in Seq(Record) /\ r \in Record /\ Tail(t) \in Seq(Record) /\ t # <<>>
      /\ <<buf'[f], disk'[f]>> = Written(f, r)
  BY Constants, ReceiveTypes DEF First, BootInv, Receive
<1>2. disk[f] \in Seq(Record) /\ buf[f] \in Seq(Record) /\ disk[f] \o buf[f] \in Seq(Record)
  BY DEF TypeOK
<1>. HIDE DEF t
<1>3. IF r.level \in FileLevels[f]
      THEN q # <<>> /\ Head(q) = r /\ Selection(Tail(q), Tail(t), FileLevels[f])
      ELSE Selection(q, Tail(t), FileLevels[f])
  BY <1>1, SelectionOfTail DEF t
<1>. HIDE DEF r
<1>4. CASE r.level \in FileLevels[f]
  <2>1. q # <<>> /\ Head(q) = r /\ Tail(q) \in Seq(Record)
        /\ Selection(Tail(q), Tail(t), FileLevels[f])
    BY <1>3, <1>4
  <2>2. accepted[f] = Append(disk[f] \o buf[f], r) \o Tail(q)
    <3>1. PICK s \in Seq(Record) : s = disk[f] \o buf[f]
      BY <1>2
    <3>2. s \o q = Append(s, Head(q)) \o Tail(q)
      BY <2>1, HeadOfConcat
    <3>3. QED
      BY <2>1, <3>1, <3>2
  <2>3. disk'[f] \o buf'[f] = Append(disk[f] \o buf[f], r)
    <3>1. CASE Fits(f)
      <4>1. disk'[f] = disk[f] /\ buf'[f] = Append(buf[f], r)
        BY <1>1, <1>4, <3>1 DEF Written
      <4>2. Append(disk[f] \o buf[f], r) = disk[f] \o Append(buf[f], r)
        BY <1>1, <1>2, AppendOfConcat
      <4>3. QED
        BY <4>1, <4>2
    <3>2. CASE ~Fits(f)
      <4>1. disk'[f] = disk[f] \o buf[f] /\ buf'[f] = <<r>>
        BY <1>1, <1>4, <3>2 DEF Written
      <4>2. QED
        BY <1>1, <1>2, <4>1, AppendIsConcat
    <3>3. QED
      BY <3>1, <3>2
  <2>4. QED
    BY <2>1, <2>2, <2>3 DEF t
<1>5. CASE r.level \notin FileLevels[f]
  <2>1. disk'[f] = disk[f] /\ buf'[f] = buf[f]
    BY <1>1, <1>5 DEF Written
  <2>2. QED
    BY <1>3, <1>5, <2>1 DEF t
<1>6. QED
  BY <1>4, <1>5

\* An accepted record is the last one of the channel.
LEMMA SendQueues ==
    ASSUME TypeOK, NEW r \in Record, NEW f \in Files, NEW q \in Seq(Record),
           accepted[f] = (disk[f] \o buf[f]) \o q,
           Selection(q, First.tunnel, FileLevels[f])
    PROVE  \E more \in Seq(Record) :
               /\ With(r)[f] = (disk[f] \o buf[f]) \o more
               /\ Selection(more, Append(First.tunnel, r), FileLevels[f])
<1>1. disk[f] \o buf[f] \in Seq(Record) /\ First.tunnel \in Seq(Record)
  <2>1. disk[f] \in Seq(Record) /\ buf[f] \in Seq(Record) /\ First \in LoggerFields
    BY Constants DEF TypeOK, First
  <2>2. QED
    BY <2>1 DEF LoggerFields
<1>. DEFINE more == IF r.level \in FileLevels[f] THEN Append(q, r) ELSE q
<1>2. more \in Seq(Record)
  OBVIOUS
<1>3. Selection(more, Append(First.tunnel, r), FileLevels[f])
  BY <1>1, SelectionOfAppend
<1>4. With(r)[f] = (disk[f] \o buf[f]) \o more
  <2>1. Append((disk[f] \o buf[f]) \o q, r) = (disk[f] \o buf[f]) \o Append(q, r)
    <3>1. PICK s \in Seq(Record) : s = disk[f] \o buf[f]
      BY <1>1
    <3>2. Append(s \o q, r) = s \o Append(q, r)
      BY AppendOfConcat
    <3>3. QED
      BY <3>1, <3>2
  <2>2. With(r)[f] = IF r.level \in FileLevels[f] THEN Append(accepted[f], r) ELSE accepted[f]
    BY DEF With
  <2>3. QED
    BY <2>1, <2>2
<1>5. QED
  BY <1>2, <1>3, <1>4

LEMMA QueueStep ==
    ASSUME IInv, Next
    PROVE  QueueInv'
<1> USE Constants
<1>1. /\ MainInv /\ DefaultInv /\ CallersInv /\ BootInv /\ TypeOK /\ QueueInv
      /\ logger \in [Loggers -> LoggerFields] /\ pc \in [Procs -> MainAt \cup CallerAt]
      /\ \A l \in Loggers : logger[l] \in LoggerFields
  BY DEF IInv, TypeOK
<1>2. ASSUME ~Exited, UNCHANGED <<files, accepted>>, First'.tunnel = First.tunnel PROVE QueueInv'
  BY <1>1, <1>2, MovesToDisk DEF files
<1>3. CASE InitBaseConf
  <2>1. ~Exited /\ UNCHANGED <<files, accepted>>
    BY <1>3 DEF InitBaseConf, Exited
  <2>2. First'.tunnel = First.tunnel
    BY <1>1, <1>3 DEF InitBaseConf, First, LoggerFields
  <2>3. QED
    BY <1>2, <2>1, <2>2
<1>4. CASE Kill \/ MainReturns
  <2>1. PICK how \in {"exited", "killed"} : Exit(how)
    BY <1>4 DEF Kill, MainReturns
  <2>2. Exited'
    BY <2>1 DEF Exit, Exited
  <2>3. QED
    BY <2>2 DEF QueueInv
<1>5. CASE Tick \/ Destroy \/ Drop \/ Untake
  <2>1. Running /\ UNCHANGED <<files, accepted, logger>>
    BY <1>5 DEF Tick, Destroy, Drop, Untake, Go
  <2>2. QED
    BY <1>2, <2>1 DEF First, Running
<1>6. ASSUME NEW p \in Procs, Check(p) \/ NewLogger(p) \/ Assign(p) PROVE QueueInv'
  <2>1. Running /\ UNCHANGED <<files, accepted, logger>>
    BY <1>6 DEF Check, NewLogger, Assign, Go
  <2>2. QED
    BY <1>2, <2>1 DEF First, Running
<1>7. ASSUME NEW p \in Callers, Log(p) \/ Use(p) \/ Take(p) PROVE QueueInv'
  <2>1. Running /\ UNCHANGED <<files, accepted, logger>>
    BY <1>7 DEF Log, Use, Take, Go
  <2>2. QED
    BY <1>2, <2>1 DEF First, Running
<1>8. ASSUME NEW p \in Callers, Compare(p) \/ Format(p) PROVE QueueInv'
  <2>1. Running /\ UNCHANGED <<files, accepted>>
    BY <1>8 DEF Compare, Format, Go
  <2>2. at[p] \in Loggers
    BY <1>1, <1>8 DEF Compare, Format, Go, CallersInv, HoldingAt, TypeOK
  <2>3. \A l \in Loggers : SameTunnel(l)
    BY <1>1, <1>8, <2>2, FieldFrame DEF Compare, Format
  <2>4. QED
    BY <1>2, <2>1, <2>3 DEF First, SameTunnel, Running
<1>9. CASE CloseTunnel \/ CloseWaits
  <2>1. Running /\ UNCHANGED <<files, accepted>>
    BY <1>9 DEF CloseTunnel, CloseWaits, Go
  <2>2. \A l \in Loggers : SameTunnel(l)
    <3>1. CASE CloseTunnel
      <4>1. logger_default = 1
        BY <1>1, <3>1 DEF CloseTunnel, Go, DefaultInv
      <4>2. QED
        BY <1>1, <3>1, <4>1, FieldFrame DEF CloseTunnel
    <3>2. CASE CloseWaits
      <4>1. at[Main] = 1
        BY <1>1, <3>2 DEF CloseWaits, Go, MainInv
      <4>2. logger' = [logger EXCEPT ![1].c = logger[1].c - 1]
        BY <3>2, <4>1 DEF CloseWaits
      <4>3. logger \in [Loggers -> LoggerFields]
        BY <1>1
      <4>4. QED
        BY <4>2, <4>3, FieldFrame
    <3>3. QED
      BY <1>9, <3>1, <3>2
  <2>3. QED
    BY <1>2, <2>1, <2>2 DEF First, SameTunnel, Running
<1>10. CASE CloseFlushes
  <2>1. Running /\ UNCHANGED <<accepted, logger>> /\ Flush(at[Main]) /\ at[Main] = 1
    BY <1>1, <1>10 DEF CloseFlushes, Go, MainInv
  <2>2. \A f \in Files : disk'[f] \o buf'[f] = disk[f] \o buf[f]
    BY <1>1, <2>1, FlushMoves
  <2>3. QED
    BY <1>1, <2>1, <2>2, MovesToDisk DEF Running, First
<1>11. ASSUME NEW l \in Loggers, FlushTimer(l) PROVE QueueInv'
  <2>1. Running /\ UNCHANGED <<accepted, logger>> /\ Flush(l)
    BY <1>11 DEF FlushTimer
  <2>2. \A f \in Files : disk'[f] \o buf'[f] = disk[f] \o buf[f]
    BY <1>1, <2>1, FlushMoves
  <2>3. QED
    BY <1>1, <2>1, <2>2, MovesToDisk DEF Running, First
<1>12. ASSUME NEW l \in Loggers, BootReturns(l) PROVE QueueInv'
  <2>1. Running /\ UNCHANGED <<files, accepted>>
    BY <1>12 DEF BootReturns
  <2>2. logger' = [logger EXCEPT ![l].c = logger[l].c + Signal(l)]
    BY <1>12 DEF BootReturns
  <2>3. \A k \in Loggers : SameTunnel(k)
    BY <1>1, <2>2, FieldFrame
  <2>4. QED
    BY <1>2, <2>1, <2>3 DEF First, SameTunnel, Running
<1>13. ASSUME NEW l \in Loggers, Receive(l) PROVE QueueInv'
  <2>1. Running /\ UNCHANGED accepted /\ logger' = [logger EXCEPT ![l].tunnel = Tail(logger[l].tunnel)]
    BY <1>13 DEF Receive
  <2>2. /\ \A k \in Loggers : k # l => SameTunnel(k)
        /\ logger'[l].tunnel = Tail(logger[l].tunnel)
    BY <1>1, <2>1, FieldFrame
  <2>3. CASE l = 1
    <3>1. First'.tunnel = Tail(First.tunnel)
      BY <2>2, <2>3 DEF First
    <3>2. ASSUME NEW f \in Files
          PROVE  \E q \in Seq(Record) :
                     /\ accepted'[f] = (disk'[f] \o buf'[f]) \o q
                     /\ Selection(q, First'.tunnel, FileLevels[f])
      <4>1. PICK q \in Seq(Record) : /\ accepted[f] = (disk[f] \o buf[f]) \o q
                                     /\ Selection(q, First.tunnel, FileLevels[f])
        BY <1>1, <2>1 DEF QueueInv, Running
      <4>2. QED
        BY <1>1, <1>13, <2>1, <2>3, <3>1, <4>1, ReceiveMoves
    <3>3. QED
      BY <3>2 DEF QueueInv
  <2>4. CASE l # 1
    <3>1. logger[l].writers = {}
      BY <1>1, <2>4 DEF BootInv
    <3>2. \A f \in Files : disk'[f] = disk[f] /\ buf'[f] = buf[f]
      BY <1>13, <3>1 DEF Receive
    <3>3. First'.tunnel = First.tunnel
      BY <2>2, <2>4 DEF First, SameTunnel
    <3>4. QED
      BY <1>1, <2>1, <3>2, <3>3, MovesToDisk DEF Running
  <2>5. QED
    BY <2>3, <2>4
<1>14. ASSUME NEW p \in Callers, Send(p) PROVE QueueInv'
  <2>1. Running /\ UNCHANGED files
    BY <1>14 DEF Send
  <2>2. at[p] \in Loggers /\ rec[p] \in InCall
    BY <1>1, <1>14 DEF Send, CallersInv, HoldingAt, TypeOK
  <2>3. CASE logger[at[p]].closed
    BY <1>2, <1>14, <2>1, <2>3 DEF Send, First, Running
  <2>4. CASE ~logger[at[p]].closed
    <3>. DEFINE r == Sent(rec[p])
    <3>1. r \in Record
      BY <2>2, RecordTypes
    <3>2. /\ logger' = [logger EXCEPT ![at[p]].tunnel = Append(logger[at[p]].tunnel, r)]
          /\ accepted' = IF at[p] = 1 THEN With(r) ELSE accepted
      BY <1>14, <2>4 DEF Send
    <3>. HIDE DEF r
    <3>3. /\ \A k \in Loggers : k # at[p] => SameTunnel(k)
          /\ logger'[at[p]].tunnel = Append(logger[at[p]].tunnel, r)
      BY <1>1, <2>2, <3>2, FieldFrame
    <3>4. CASE at[p] = 1
      <4>1. First'.tunnel = Append(First.tunnel, r) /\ accepted' = With(r)
        BY <3>2, <3>3, <3>4 DEF First
      <4>2. ASSUME NEW f \in Files
            PROVE  \E q \in Seq(Record) :
                       /\ accepted'[f] = (disk'[f] \o buf'[f]) \o q
                       /\ Selection(q, First'.tunnel, FileLevels[f])
        <5>1. PICK q \in Seq(Record) : /\ accepted[f] = (disk[f] \o buf[f]) \o q
                                       /\ Selection(q, First.tunnel, FileLevels[f])
          BY <1>1, <2>1 DEF QueueInv, Running
        <5>2. PICK more \in Seq(Record) :
                  /\ With(r)[f] = (disk[f] \o buf[f]) \o more
                  /\ Selection(more, Append(First.tunnel, r), FileLevels[f])
          BY <1>1, <3>1, <5>1, SendQueues
        <5>3. QED
          BY <2>1, <4>1, <5>2 DEF files
      <4>3. QED
        BY <4>2 DEF QueueInv
    <3>5. CASE at[p] # 1
      <4>1. First'.tunnel = First.tunnel /\ accepted' = accepted
        BY <3>2, <3>3, <3>5 DEF First, SameTunnel
      <4>2. QED
        BY <1>2, <2>1, <4>1 DEF Running
    <3>6. QED
      BY <3>4, <3>5
  <2>5. QED
    BY <2>3, <2>4
<1>15. QED
  BY <1>3, <1>4, <1>5, <1>6, <1>7, <1>8, <1>9, <1>10, <1>11, <1>12, <1>13, <1>14
     DEF Next, Close, Call, Shared, Boot

-----------------------------------------------------------------------------
(* The second a record is given.                                           *)

\* A caller keeps its place in lines 153-162, or stays out of them.
StampPlace(p) ==
    \/ pc'[p] = pc[p] /\ at'[p] = at[p] /\ rec'[p] = rec[p]
    \/ /\ pc[p] \notin StampingAt /\ pc'[p] \notin StampingAt \cup {"send"}
       /\ rec'[p].now \in {0, rec[p].now}

LEMMA StampFrame ==
    ASSUME TypeOK, CallersInv, StampInv, lastRace' = lastRace, clock' \in Nat, clock' >= clock,
           \A l \in Loggers : SameStamps(l),
           \A p \in Callers : StampPlace(p)
    PROVE  StampInv'
<1> USE Constants
<1>1. /\ clock \in Nat /\ lastRace \in Nat
      /\ \A p \in Callers : rec[p].now \in Nat /\ rec'[p].now \in Nat
      /\ \A p \in Callers : pc[p] \in HoldingAt => at[p] \in Loggers
  <2>1. clock \in Nat /\ lastRace \in Nat /\ \A p \in Procs : rec[p] \in InCall /\ at[p] \in {Nil} \cup Loggers
    BY LoggerAssumption DEF TypeOK
  <2>2. \A p \in Callers : rec[p].now \in Nat
    BY <2>1 DEF InCall
  <2>3. \A p \in Callers : rec'[p].now \in Nat
    BY <2>2 DEF StampPlace
  <2>4. QED
    BY <2>1, <2>2, <2>3 DEF CallersInv
<1>2. \A p \in Callers :
        /\ pc'[p] \in StampingAt \cup {"send"} => pc'[p] = pc[p] /\ at'[p] = at[p] /\ rec'[p] = rec[p]
        /\ pc[p] = "format" => pc'[p] = pc[p] /\ at'[p] = at[p] /\ rec'[p] = rec[p]
  BY DEF StampPlace, StampingAt
<1>3. Stamping' = Stamping
  BY DEF Stamping, StampPlace, StampingAt
<1>4. \A s : Raced(s)' <=> Raced(s)
  BY DEF Raced
<1>5. lastRace' <= clock'
  BY <1>1 DEF StampInv
<1>6. \A p \in Callers : rec'[p].now <= clock'
  BY <1>1 DEF StampInv, StampPlace
<1>7. \A p \in Stamping' : Raced(rec[p].now)' \/ Stamping' = {p}
  BY <1>2, <1>3 DEF StampInv, Stamping, StampingAt, Raced
<1>8. ASSUME NEW l \in Loggers
      PROVE  \/ logger'[l].lastTimeStr = logger'[l].lastTime
             \/ lastRace' >= logger'[l].lastTime
             \/ \E p \in Callers : pc'[p] = "format" /\ at'[p] = l /\ rec'[p].now = logger'[l].lastTime
  BY <1>2 DEF StampInv, SameStamps, Raced
<1>9. ASSUME NEW p \in Callers
      PROVE  /\ pc'[p] = "format" => logger'[at'[p]].lastTime = rec'[p].now \/ lastRace' >= logger'[at'[p]].lastTime
             /\ pc'[p] = "take" => logger'[at'[p]].lastTimeStr = rec'[p].now \/ lastRace' >= rec'[p].now
             /\ pc'[p] = "send" => rec'[p].time = rec'[p].now \/ lastRace' >= rec'[p].now
  <2>1. CASE pc'[p] = "format"
    <3>1. pc[p] = "format" /\ at'[p] = at[p] /\ rec'[p] = rec[p]
      BY <1>2, <2>1 DEF StampingAt
    <3>2. SameStamps(at[p])
      BY <1>1, <3>1 DEF HoldingAt
    <3>3. logger[at[p]].lastTime = rec[p].now \/ lastRace >= logger[at[p]].lastTime
      BY <3>1 DEF StampInv, Raced
    <3>4. QED
      BY <2>1, <3>1, <3>2, <3>3 DEF SameStamps
  <2>2. CASE pc'[p] = "take"
    <3>1. pc[p] = "take" /\ at'[p] = at[p] /\ rec'[p] = rec[p]
      BY <1>2, <2>2 DEF StampingAt
    <3>2. SameStamps(at[p])
      BY <1>1, <3>1 DEF HoldingAt
    <3>3. logger[at[p]].lastTimeStr = rec[p].now \/ lastRace >= rec[p].now
      BY <3>1 DEF StampInv, Raced
    <3>4. QED
      BY <2>2, <3>1, <3>2, <3>3 DEF SameStamps
  <2>3. CASE pc'[p] = "send"
    <3>1. pc[p] = "send" /\ rec'[p] = rec[p]
      BY <1>2, <2>3
    <3>2. rec[p].time = rec[p].now \/ lastRace >= rec[p].now
      BY <3>1 DEF StampInv, Raced
    <3>3. QED
      BY <2>3, <3>1, <3>2
  <2>4. QED
    BY <2>1, <2>2, <2>3
<1>10. QED
  BY <1>5, <1>6, <1>7, <1>8, <1>9 DEF StampInv, Raced

LEMMA StampStep ==
    ASSUME IInv, Next
    PROVE  StampInv'
<1> USE Constants
<1>1. TypeOK /\ MainInv /\ CallersInv /\ DefaultInv /\ StampInv
  BY DEF IInv
<1>2. /\ pc \in [Procs -> MainAt \cup CallerAt] /\ at \in [Procs -> {Nil} \cup Loggers]
      /\ rec \in [Procs -> InCall] /\ logger \in [Loggers -> LoggerFields]
      /\ clock \in Nat /\ lastRace \in Nat
  BY <1>1, LoggerAssumption DEF TypeOK
<1>3. /\ \A p \in Procs : rec[p] \in InCall /\ rec[p].now \in Nat
      /\ \A p \in Callers : pc[p] \in HoldingAt => at[p] \in Loggers
      /\ \A l \in Loggers : logger[l].lastTime \in Nat /\ logger[l].lastTimeStr \in Nat
  <2>1. \A p \in Procs : rec[p] \in InCall /\ rec[p].now \in Nat
    <3>1. \A p \in Procs : rec[p] \in InCall
      BY <1>2
    <3>2. \A p \in Procs : rec[p].now \in 0 .. MaxClock
      BY <3>1, RecordTypes
    <3>3. 0 .. MaxClock \subseteq Nat
      BY LoggerAssumption
    <3>4. QED
      BY <3>1, <3>2, <3>3
  <2>2. \A l \in Loggers : logger[l].lastTime \in Nat /\ logger[l].lastTimeStr \in Nat
    BY <1>2 DEF LoggerFields
  <2>3. \A p \in Callers : pc[p] \in HoldingAt => at[p] \in Loggers
    BY <1>1, <1>2 DEF CallersInv
  <2>4. QED
    BY <2>1, <2>2, <2>3
<1>4. ASSUME UNCHANGED <<lastRace, clock>>, \A l \in Loggers : SameStamps(l),
             \A p \in Callers : StampPlace(p)
      PROVE  StampInv'
  BY <1>1, <1>2, <1>4, StampFrame
<1>5. ASSUME UNCHANGED <<lastRace, clock, at, rec>>, \A l \in Loggers : SameStamps(l),
             \A p \in Callers : pc'[p] = pc[p]
      PROVE  StampInv'
  BY <1>4, <1>5 DEF StampPlace
<1>6. CASE InitBaseConf
  <2>1. \A l \in Loggers : SameStamps(l)
    BY <1>2, <1>6 DEF InitBaseConf, SameStamps, LoggerFields
  <2>2. \A p \in Callers : pc'[p] = pc[p]
    BY <1>2, <1>6 DEF InitBaseConf
  <2>3. QED
    BY <1>5, <1>6, <2>1, <2>2 DEF InitBaseConf
<1>7. ASSUME NEW how, Exit(how) PROVE StampInv'
  <2>1. \A p \in Callers : pc'[p] = "idle" /\ rec'[p].now = 0
    BY <1>7 DEF Exit, NoRecord
  <2>2. Stamping' = {}
    BY <2>1 DEF Stamping
  <2>3. \A l \in Loggers : logger'[l].lastTimeStr = logger'[l].lastTime
    BY <1>7 DEF Exit, NewOne
  <2>4. clock' = 0 /\ lastRace' = 0
    BY <1>7 DEF Exit
  <2>5. QED
    BY <2>1, <2>2, <2>3, <2>4 DEF StampInv
<1>8. CASE Kill \/ MainReturns
  BY <1>7, <1>8 DEF Kill, MainReturns
<1>9. CASE Tick
  <2>1. clock' \in Nat /\ clock' >= clock /\ lastRace' = lastRace
    BY <1>2, <1>9 DEF Tick
  <2>2. \A l \in Loggers : SameStamps(l)
    BY <1>9 DEF Tick, SameStamps
  <2>3. \A p \in Callers : StampPlace(p)
    BY <1>9 DEF Tick, StampPlace
  <2>4. QED
    BY <1>1, <2>1, <2>2, <2>3, StampFrame
<1>10. CASE Destroy \/ CloseFlushes \/ Drop \/ Untake
  <2>1. UNCHANGED <<lastRace, clock, at, rec, logger>>
    BY <1>10 DEF Destroy, CloseFlushes, Drop, Untake
  <2>2. \A p \in Callers : pc'[p] = pc[p]
    BY <1>2, <1>10 DEF Destroy, CloseFlushes, Drop, Untake, Go
  <2>3. QED
    BY <1>5, <2>1, <2>2 DEF SameStamps
<1>11. CASE CloseTunnel
  <2>1. logger_default = 1
    BY <1>1, <1>11 DEF CloseTunnel, Go, DefaultInv
  <2>2. \A l \in Loggers : SameStamps(l)
    BY <1>2, <1>11, <2>1, FieldFrame DEF CloseTunnel
  <2>3. \A p \in Callers : pc'[p] = pc[p] /\ at'[p] = at[p]
    BY <1>2, <1>11 DEF CloseTunnel, Go
  <2>4. QED
    BY <1>4, <1>11, <2>2, <2>3 DEF CloseTunnel, StampPlace
<1>12. CASE CloseWaits
  <2>1. at[Main] = 1
    BY <1>1, <1>12 DEF CloseWaits, Go, MainInv
  <2>2. PICK x : logger' = [logger EXCEPT ![1].c = x]
    BY <1>12, <2>1 DEF CloseWaits
  <2>3. \A l \in Loggers : SameStamps(l)
    BY <1>2, <2>2, FieldFrame
  <2>4. \A p \in Callers : pc'[p] = pc[p]
    BY <1>2, <1>12 DEF CloseWaits, Go
  <2>5. QED
    BY <1>5, <1>12, <2>3, <2>4 DEF CloseWaits
<1>13. ASSUME NEW l \in Loggers, Receive(l) \/ FlushTimer(l) \/ BootReturns(l) PROVE StampInv'
  <2>1. UNCHANGED <<lastRace, clock, at, rec, pc>>
    BY <1>13 DEF Receive, FlushTimer, BootReturns
  <2>2. \A k \in Loggers : SameStamps(k)
    <3>1. CASE Receive(l)
      <4>1. logger' = [logger EXCEPT ![l].tunnel = Tail(logger[l].tunnel)]
        BY <3>1 DEF Receive
      <4>2. QED
        BY <1>2, <4>1, FieldFrame
    <3>2. CASE FlushTimer(l)
      BY <3>2 DEF FlushTimer, SameStamps
    <3>3. CASE BootReturns(l)
      <4>1. PICK x : logger' = [logger EXCEPT ![l].c = x]
        BY <3>3 DEF BootReturns
      <4>2. QED
        BY <1>2, <4>1, FieldFrame
    <3>4. QED
      BY <1>13, <3>1, <3>2, <3>3
  <2>3. QED
    BY <1>5, <2>1, <2>2
<1>14. ASSUME NEW p \in Procs, Check(p) \/ NewLogger(p) \/ Assign(p) PROVE StampInv'
  <2>1. UNCHANGED <<lastRace, clock, rec, logger>>
    BY <1>14 DEF Check, NewLogger, Assign
  <2>2. pc[p] \in {"check", "new", "assign"}
    BY <1>14 DEF Check, NewLogger, Assign, Go
  <2>3. PICK v \in {"use", "new", "assign"} : pc' = [pc EXCEPT ![p] = v]
    BY <1>14 DEF Check, NewLogger, Assign, Go
  <2>4. PICK x : at' = [at EXCEPT ![p] = x] \/ at' = at
    BY <1>14 DEF Check, NewLogger, Assign
  <2>5. ASSUME NEW o \in Callers PROVE StampPlace(o)
    <3>1. CASE o = p
      BY <1>2, <2>1, <2>2, <2>3, <3>1 DEF StampPlace, StampingAt
    <3>2. CASE o # p
      BY <1>2, <2>1, <2>3, <2>4, <3>2 DEF StampPlace
    <3>3. QED
      BY <3>1, <3>2
  <2>6. QED
    BY <1>4, <2>1, <2>5 DEF SameStamps
<1>15. ASSUME NEW p \in Callers, Log(p) PROVE StampInv'
  <2>1. UNCHANGED <<lastRace, clock, logger, at>>
    BY <1>15 DEF Log
  <2>2. pc[p] = "idle" /\ pc' = [pc EXCEPT ![p] = "check"]
    BY <1>15 DEF Log, Go
  <2>3. rec'[p].now = 0 /\ \A o \in Callers : o # p => rec'[o] = rec[o]
    BY <1>2, <1>15 DEF Log, NoRecord
  <2>4. ASSUME NEW o \in Callers PROVE StampPlace(o)
    <3>1. CASE o = p
      BY <1>2, <2>2, <2>3, <3>1 DEF StampPlace, StampingAt
    <3>2. CASE o # p
      BY <1>2, <2>1, <2>2, <2>3, <3>2 DEF StampPlace
    <3>3. QED
      BY <3>1, <3>2
  <2>5. QED
    BY <1>4, <2>1, <2>4 DEF SameStamps
<1>16. ASSUME NEW p \in Callers, NEW panics, Ends(p, panics), pc[p] \in {"use", "send"},
              UNCHANGED <<lastRace, clock>>, \A l \in Loggers : SameStamps(l)
       PROVE  StampInv'
  <2>1. PICK v \in {"dead", "idle"} : pc' = [pc EXCEPT ![p] = v]
    BY <1>16 DEF Ends
  <2>2. at' = [at EXCEPT ![p] = Nil] /\ rec' = [rec EXCEPT ![p] = NoRecord] /\ NoRecord.now = 0
    BY <1>16 DEF Ends, NoRecord
  <2>3. ASSUME NEW o \in Callers PROVE StampPlace(o)
    <3>1. CASE o = p
      BY <1>2, <1>16, <2>1, <2>2, <3>1 DEF StampPlace, StampingAt
    <3>2. CASE o # p
      BY <1>2, <2>1, <2>2, <3>2 DEF StampPlace
    <3>3. QED
      BY <3>1, <3>2
  <2>4. QED
    BY <1>4, <1>16, <2>3
<1>17. ASSUME NEW p \in Callers, Send(p) PROVE StampInv'
  <2>1. at[p] \in Loggers /\ pc[p] = "send" /\ UNCHANGED <<lastRace, clock>>
    BY <1>3, <1>17 DEF Send, HoldingAt
  <2>2. PICK panics : Ends(p, panics)
    BY <1>17 DEF Send
  <2>3. \A l \in Loggers : SameStamps(l)
    <3>1. CASE logger[at[p]].closed
      BY <1>17, <3>1 DEF Send, SameStamps
    <3>2. CASE ~logger[at[p]].closed
      <4>1. PICK x : logger' = [logger EXCEPT ![at[p]].tunnel = x]
        BY <1>17, <3>2 DEF Send
      <4>2. QED
        BY <1>2, <2>1, <4>1, FieldFrame
    <3>3. QED
      BY <3>1, <3>2
  <2>4. QED
    BY <1>16, <2>1, <2>2, <2>3
<1>18. ASSUME NEW p \in Callers, Use(p) PROVE StampInv'
  <2>1. pc[p] = "use" /\ UNCHANGED <<logger, clock>>
    BY <1>18 DEF Use
  <2>2. CASE logger_default = Nil \/ rec[p].level < logger[logger_default].level
    <3>1. Ends(p, logger_default = Nil) /\ lastRace' = lastRace
      BY <1>18, <2>2 DEF Use
    <3>2. QED
      BY <1>16, <2>1, <3>1 DEF SameStamps
  <2>3. CASE ~(logger_default = Nil \/ rec[p].level < logger[logger_default].level)
    <3>1. /\ at' = [at EXCEPT ![p] = logger_default]
          /\ rec' = [rec EXCEPT ![p] = [rec[p] EXCEPT !.now = clock]]
          /\ pc' = [pc EXCEPT ![p] = "compare"]
          /\ lastRace' = IF Stamping # {} THEN clock ELSE lastRace
      BY <1>18, <2>3 DEF Use
    <3>2. /\ pc'[p] = "compare" /\ rec'[p].now = clock
          /\ \A o \in Callers : o # p => pc'[o] = pc[o] /\ at'[o] = at[o] /\ rec'[o] = rec[o]
      <4>1. [rec[p] EXCEPT !.now = clock].now = clock
        BY <1>3 DEF InCall
      <4>2. QED
        BY <1>2, <3>1, <4>1
    <3>3. lastRace <= lastRace' /\ lastRace' <= clock /\ lastRace' \in Nat
      BY <1>1, <1>2, <3>1 DEF StampInv
    <3>4. Stamping' = Stamping \cup {p}
      BY <3>2 DEF Stamping
    <3>5. \A o \in Callers : rec'[o].now <= clock /\ rec'[o].now \in Nat
      BY <1>1, <1>2, <1>3, <3>2 DEF StampInv
    <3>6. ASSUME NEW o \in Stamping' PROVE lastRace' >= rec'[o].now \/ Stamping' = {o}
      <4>1. CASE Stamping = {}
        BY <3>4, <3>6, <4>1
      <4>2. CASE Stamping # {}
        <5>1. o \in Callers /\ lastRace' = clock
          BY <3>1, <4>2 DEF Stamping
        <5>2. QED
          BY <1>2, <3>5, <5>1
      <4>3. QED
        BY <4>1, <4>2
    <3>7. ASSUME NEW l \in Loggers
          PROVE  \/ logger'[l].lastTimeStr = logger'[l].lastTime
                 \/ lastRace' >= logger'[l].lastTime
                 \/ \E o \in Callers : pc'[o] = "format" /\ at'[o] = l /\ rec'[o].now = logger'[l].lastTime
      <4>1. CASE lastRace >= logger[l].lastTime
        BY <1>2, <1>3, <2>1, <3>3, <4>1
      <4>2. ASSUME NEW o \in Callers, pc[o] = "format", at[o] = l, rec[o].now = logger[l].lastTime
            PROVE  pc'[o] = "format" /\ at'[o] = l /\ rec'[o].now = logger'[l].lastTime
        BY <2>1, <3>2, <4>2
      <4>3. QED
        BY <1>1, <2>1, <4>1, <4>2 DEF StampInv, Raced
    <3>8. ASSUME NEW o \in Callers
          PROVE  /\ pc'[o] = "format" => logger'[at'[o]].lastTime = rec'[o].now \/ lastRace' >= logger'[at'[o]].lastTime
                 /\ pc'[o] = "take" => logger'[at'[o]].lastTimeStr = rec'[o].now \/ lastRace' >= rec'[o].now
                 /\ pc'[o] = "send" => rec'[o].time = rec'[o].now \/ lastRace' >= rec'[o].now
      <4>1. CASE o = p
        BY <3>2, <4>1
      <4>2. CASE o # p
        <5>1. pc'[o] = pc[o] /\ at'[o] = at[o] /\ rec'[o] = rec[o] /\ logger' = logger
          BY <2>1, <3>2, <4>2
        <5>2. CASE pc[o] = "format"
          <6>1. at[o] \in Loggers /\ logger[at[o]].lastTime \in Nat
            BY <1>3, <5>2 DEF HoldingAt
          <6>2. logger[at[o]].lastTime = rec[o].now \/ lastRace >= logger[at[o]].lastTime
            BY <1>1, <5>2 DEF StampInv, Raced
          <6>3. lastRace >= logger[at[o]].lastTime => lastRace' >= logger[at[o]].lastTime
            BY <1>2, <3>3, <6>1
          <6>4. QED
            BY <5>1, <5>2, <6>2, <6>3
        <5>3. lastRace >= rec[o].now => lastRace' >= rec[o].now
          BY <1>2, <1>3, <3>3
        <5>4. CASE pc[o] = "take"
          BY <1>1, <5>1, <5>3, <5>4 DEF StampInv, Raced
        <5>5. CASE pc[o] = "send"
          BY <1>1, <5>1, <5>3, <5>5 DEF StampInv, Raced
        <5>6. QED
          BY <5>1, <5>2, <5>4, <5>5
      <4>3. QED
        BY <4>1, <4>2
    <3>9. QED
      BY <2>1, <3>3, <3>5, <3>6, <3>7, <3>8 DEF StampInv, Raced
  <2>4. QED
    BY <2>2, <2>3
<1>19. ASSUME NEW p \in Stamping, NEW o \in Stamping, p # o
       PROVE  lastRace >= rec[p].now /\ lastRace >= rec[o].now
  BY <1>1, <1>19 DEF StampInv, Raced
<1>20. ASSUME NEW p \in Callers, pc[p] \in {"compare", "format"}, NEW v \in {"format", "take"},
              pc' = [pc EXCEPT ![p] = v], UNCHANGED <<clock, lastRace, at, rec>>,
              \A l \in Loggers :
                  \/ logger'[l].lastTimeStr = logger'[l].lastTime
                  \/ lastRace >= logger'[l].lastTime
                  \/ \E o \in Callers : pc'[o] = "format" /\ at[o] = l /\ rec[o].now = logger'[l].lastTime,
              \A o \in Callers :
                  /\ pc'[o] = "format" => logger'[at[o]].lastTime = rec[o].now \/ lastRace >= logger'[at[o]].lastTime
                  /\ pc'[o] = "take" => logger'[at[o]].lastTimeStr = rec[o].now \/ lastRace >= rec[o].now
       PROVE  StampInv'
  <2>1. pc'[p] = v /\ \A o \in Callers : o # p => pc'[o] = pc[o]
    BY <1>2, <1>20
  <2>2. Stamping' = Stamping
    BY <1>20, <2>1 DEF Stamping
  <2>3. \A o \in Callers : pc'[o] = "send" => rec[o].time = rec[o].now \/ lastRace >= rec[o].now
    BY <1>1, <1>20, <2>1 DEF StampInv, Raced
  <2>4. lastRace <= clock /\ \A o \in Callers : rec[o].now <= clock
    BY <1>1 DEF StampInv
  <2>5. \A o \in Stamping : lastRace >= rec[o].now \/ Stamping = {o}
    BY <1>1 DEF StampInv, Raced
  <2>6. QED
    BY <1>20, <2>2, <2>3, <2>4, <2>5 DEF StampInv, Raced
<1>21. ASSUME NEW p \in Callers, Compare(p) PROVE StampInv'
  <2>. DEFINE k == at[p]
              v == IF logger[k].lastTime = rec[p].now THEN "take" ELSE "format"
  <2>1. /\ k \in Loggers /\ pc[p] = "compare" /\ UNCHANGED <<clock, lastRace, at, rec>>
        /\ pc' = [pc EXCEPT ![p] = v]
    BY <1>3, <1>21 DEF Compare, Go, HoldingAt
  <2>2. pc'[p] = v /\ \A o \in Callers : o # p => pc'[o] = pc[o]
    BY <1>2, <2>1
  <2>3. /\ \A l \in Loggers : logger'[l].lastTimeStr = logger[l].lastTimeStr
        /\ \A l \in Loggers : l # k => logger'[l].lastTime = logger[l].lastTime
        /\ logger'[k].lastTime = rec[p].now
    BY <1>2, <1>21, <2>1, FieldFrame DEF Compare, SameStamps
  <2>4. p \in Stamping
    BY <2>1 DEF Stamping
  <2>5. ASSUME NEW o \in Callers, pc[o] = "format" PROVE lastRace >= rec[p].now /\ lastRace >= rec[o].now
    <3>1. o \in Stamping /\ o # p
      BY <2>1, <2>5 DEF Stamping
    <3>2. QED
      BY <1>19, <2>4, <3>1
  <2>6. ASSUME NEW l \in Loggers
        PROVE  \/ logger[l].lastTimeStr = logger[l].lastTime
               \/ lastRace >= logger[l].lastTime
               \/ \E o \in Callers : pc[o] = "format" /\ at[o] = l /\ rec[o].now = logger[l].lastTime
    BY <1>1 DEF StampInv, Raced
  <2>. HIDE DEF k
  <2>7. ASSUME NEW l \in Loggers
        PROVE  \/ logger'[l].lastTimeStr = logger'[l].lastTime
               \/ lastRace >= logger'[l].lastTime
               \/ \E o \in Callers : pc'[o] = "format" /\ at[o] = l /\ rec[o].now = logger'[l].lastTime
    <3>1. CASE l # k
      <4>1. ASSUME NEW o \in Callers, pc[o] = "format" PROVE pc'[o] = "format"
        BY <2>1, <2>2, <4>1
      <4>2. QED
        BY <2>3, <2>6, <3>1, <4>1
    <3>2. CASE l = k /\ v = "format"
      <4>1. pc'[p] = "format" /\ at[p] = l /\ rec[p].now = logger'[l].lastTime
        BY <2>2, <2>3, <3>2 DEF k
      <4>2. QED
        BY <4>1
    <3>3. CASE l = k /\ v = "take"
      <4>1. logger'[l].lastTime = logger[l].lastTime /\ logger[l].lastTime = rec[p].now
        BY <2>3, <3>3
      <4>2. QED
        BY <2>3, <2>5, <2>6, <4>1
    <3>4. QED
      BY <3>1, <3>2, <3>3
  <2>8. ASSUME NEW o \in Callers
        PROVE  /\ pc'[o] = "format" => logger'[at[o]].lastTime = rec[o].now \/ lastRace >= logger'[at[o]].lastTime
               /\ pc'[o] = "take" => logger'[at[o]].lastTimeStr = rec[o].now \/ lastRace >= rec[o].now
    <3>1. CASE o = p /\ v = "format"
      BY <2>2, <2>3, <3>1 DEF k
    <3>2. CASE o = p /\ v = "take"
      <4>1. logger[k].lastTimeStr = rec[p].now \/ lastRace >= rec[p].now
        BY <2>1, <2>5, <2>6, <3>2
      <4>2. QED
        BY <2>1, <2>2, <2>3, <3>2, <4>1 DEF k
    <3>3. CASE o # p /\ pc[o] = "format"
      <4>1. at[o] \in Loggers /\ pc'[o] = "format"
        BY <1>3, <2>2, <3>3 DEF HoldingAt
      <4>2. CASE at[o] = k
        BY <2>3, <2>5, <3>3, <4>1, <4>2
      <4>3. CASE at[o] # k
        <5>1. logger[at[o]].lastTime = rec[o].now \/ lastRace >= logger[at[o]].lastTime
          BY <1>1, <3>3 DEF StampInv, Raced
        <5>2. QED
          BY <2>3, <4>1, <4>3, <5>1
      <4>4. QED
        BY <4>2, <4>3
    <3>4. CASE o # p /\ pc[o] = "take"
      <4>1. at[o] \in Loggers /\ pc'[o] = "take"
        BY <1>3, <2>2, <3>4 DEF HoldingAt
      <4>2. logger[at[o]].lastTimeStr = rec[o].now \/ lastRace >= rec[o].now
        BY <1>1, <3>4 DEF StampInv, Raced
      <4>3. QED
        BY <2>3, <4>1, <4>2
    <3>5. CASE o # p /\ pc[o] \notin {"format", "take"}
      BY <2>2, <3>5
    <3>6. QED
      BY <3>1, <3>2, <3>3, <3>4, <3>5
  <2>9. v \in {"format", "take"}
    OBVIOUS
  <2>. HIDE DEF v
  <2>10. QED
    BY <1>20, <2>1, <2>7, <2>8, <2>9
<1>22. ASSUME NEW p \in Callers, Format(p) PROVE StampInv'
  <2>. DEFINE k == at[p]
  <2>1. /\ k \in Loggers /\ pc[p] = "format" /\ UNCHANGED <<clock, lastRace, at, rec>>
        /\ pc' = [pc EXCEPT ![p] = "take"]
    BY <1>3, <1>22 DEF Format, Go, HoldingAt
  <2>2. pc'[p] = "take" /\ \A o \in Callers : o # p => pc'[o] = pc[o]
    BY <1>2, <2>1
  <2>3. /\ \A l \in Loggers : logger'[l].lastTime = logger[l].lastTime
        /\ \A l \in Loggers : l # k => logger'[l].lastTimeStr = logger[l].lastTimeStr
        /\ logger'[k].lastTimeStr = rec[p].now
    BY <1>2, <1>22, <2>1, FieldFrame DEF Format, Stamp, SameStamps
  <2>4. p \in Stamping
    BY <2>1 DEF Stamping
  <2>5. logger[k].lastTime = rec[p].now \/ lastRace >= logger[k].lastTime
    BY <1>1, <2>1 DEF StampInv, Raced
  <2>. HIDE DEF k
  <2>6. ASSUME NEW l \in Loggers
        PROVE  \/ logger'[l].lastTimeStr = logger'[l].lastTime
               \/ lastRace >= logger'[l].lastTime
               \/ \E o \in Callers : pc'[o] = "format" /\ at[o] = l /\ rec[o].now = logger'[l].lastTime
    <3>1. CASE l = k
      BY <2>3, <2>5, <3>1
    <3>2. CASE l # k
      <4>1. ASSUME NEW o \in Callers, pc[o] = "format", at[o] = l PROVE pc'[o] = "format"
        BY <2>2, <3>2, <4>1 DEF k
      <4>2. \/ logger[l].lastTimeStr = logger[l].lastTime
            \/ lastRace >= logger[l].lastTime
            \/ \E o \in Callers : pc[o] = "format" /\ at[o] = l /\ rec[o].now = logger[l].lastTime
        BY <1>1 DEF StampInv, Raced
      <4>3. QED
        BY <2>3, <3>2, <4>1, <4>2
    <3>3. QED
      BY <3>1, <3>2
  <2>7. ASSUME NEW o \in Callers
        PROVE  /\ pc'[o] = "format" => logger'[at[o]].lastTime = rec[o].now \/ lastRace >= logger'[at[o]].lastTime
               /\ pc'[o] = "take" => logger'[at[o]].lastTimeStr = rec[o].now \/ lastRace >= rec[o].now
    <3>1. CASE o = p
      BY <2>2, <2>3, <3>1 DEF k
    <3>2. CASE o # p /\ pc[o] = "format"
      <4>1. at[o] \in Loggers /\ pc'[o] = "format"
        BY <1>3, <2>2, <3>2 DEF HoldingAt
      <4>2. logger[at[o]].lastTime = rec[o].now \/ lastRace >= logger[at[o]].lastTime
        BY <1>1, <3>2 DEF StampInv, Raced
      <4>3. QED
        BY <2>3, <4>1, <4>2
    <3>3. CASE o # p /\ pc[o] = "take"
      <4>1. pc'[o] = "take" /\ o \in Stamping
        BY <2>2, <3>3 DEF Stamping
      <4>2. lastRace >= rec[o].now
        BY <1>19, <2>4, <3>3, <4>1
      <4>3. QED
        BY <4>1, <4>2
    <3>4. CASE o # p /\ pc[o] \notin {"format", "take"}
      BY <2>2, <3>4
    <3>5. QED
      BY <3>1, <3>2, <3>3, <3>4
  <2>8. QED
    BY <1>20, <2>1, <2>6, <2>7
<1>23. ASSUME NEW p \in Callers, Take(p) PROVE StampInv'
  <2>1. /\ at[p] \in Loggers /\ pc[p] = "take" /\ UNCHANGED <<clock, lastRace, at, logger>>
        /\ pc' = [pc EXCEPT ![p] = "send"]
        /\ rec' = [rec EXCEPT ![p] = [rec[p] EXCEPT !.time = logger[at[p]].lastTimeStr]]
    BY <1>3, <1>23 DEF Take, Go, HoldingAt
  <2>2. /\ pc'[p] = "send" /\ rec'[p].now = rec[p].now /\ rec'[p].time = logger[at[p]].lastTimeStr
        /\ \A o \in Callers : o # p => pc'[o] = pc[o] /\ rec'[o] = rec[o]
    <3>1. /\ [rec[p] EXCEPT !.time = logger[at[p]].lastTimeStr].now = rec[p].now
          /\ [rec[p] EXCEPT !.time = logger[at[p]].lastTimeStr].time = logger[at[p]].lastTimeStr
      BY <1>3 DEF InCall
    <3>2. QED
      BY <1>2, <2>1, <3>1
  <2>3. lastRace' <= clock' /\ \A o \in Callers : rec'[o].now <= clock'
    BY <1>1, <2>1, <2>2 DEF StampInv
  <2>4. ASSUME NEW o \in Stamping' PROVE lastRace' >= rec'[o].now \/ Stamping' = {o}
    <3>1. o \in Callers /\ o # p /\ o \in Stamping /\ p \in Stamping
      BY <2>1, <2>2 DEF Stamping
    <3>2. QED
      BY <1>19, <2>1, <2>2, <3>1
  <2>5. ASSUME NEW l \in Loggers
        PROVE  \/ logger'[l].lastTimeStr = logger'[l].lastTime
               \/ lastRace' >= logger'[l].lastTime
               \/ \E o \in Callers : pc'[o] = "format" /\ at'[o] = l /\ rec'[o].now = logger'[l].lastTime
    <3>1. ASSUME NEW o \in Callers, pc[o] = "format"
          PROVE  pc'[o] = "format" /\ at'[o] = at[o] /\ rec'[o].now = rec[o].now
      BY <2>1, <2>2, <3>1
    <3>2. \/ logger[l].lastTimeStr = logger[l].lastTime
          \/ lastRace >= logger[l].lastTime
          \/ \E o \in Callers : pc[o] = "format" /\ at[o] = l /\ rec[o].now = logger[l].lastTime
      BY <1>1 DEF StampInv, Raced
    <3>3. QED
      BY <2>1, <3>1, <3>2
  <2>6. ASSUME NEW o \in Callers
        PROVE  /\ pc'[o] = "format" => logger'[at'[o]].lastTime = rec'[o].now \/ lastRace' >= logger'[at'[o]].lastTime
               /\ pc'[o] = "take" => logger'[at'[o]].lastTimeStr = rec'[o].now \/ lastRace' >= rec'[o].now
               /\ pc'[o] = "send" => rec'[o].time = rec'[o].now \/ lastRace' >= rec'[o].now
    <3>1. CASE o = p
      <4>1. logger[at[p]].lastTimeStr = rec[p].now \/ lastRace >= rec[p].now
        BY <1>1, <2>1 DEF StampInv, Raced
      <4>2. QED
        BY <2>1, <2>2, <3>1, <4>1
    <3>2. CASE o # p
      <4>1. pc'[o] = pc[o] /\ rec'[o] = rec[o] /\ at'[o] = at[o] /\ logger' = logger /\ lastRace' = lastRace
        BY <2>1, <2>2, <3>2
      <4>2. /\ pc[o] = "format" => logger[at[o]].lastTime = rec[o].now \/ lastRace >= logger[at[o]].lastTime
            /\ pc[o] = "take" => logger[at[o]].lastTimeStr = rec[o].now \/ lastRace >= rec[o].now
            /\ pc[o] = "send" => rec[o].time = rec[o].now \/ lastRace >= rec[o].now
        BY <1>1 DEF StampInv, Raced
      <4>3. QED
        BY <4>1, <4>2
    <3>3. QED
      BY <3>1, <3>2
  <2>7. QED
    BY <2>3, <2>4, <2>5, <2>6 DEF StampInv, Raced
<1>24. QED
  BY <1>6, <1>8, <1>9, <1>10, <1>11, <1>12, <1>13, <1>14, <1>15, <1>17, <1>18, <1>21, <1>22, <1>23
     DEF Next, Close, Call, Shared, Boot

-----------------------------------------------------------------------------
LEMMA NextIInv == IInv /\ [Next]_vars => IInv'
<1>1. ASSUME IInv, Next PROVE IInv'
  BY <1>1, TypeStep, CoreStep, CountStep, QueueStep, StampStep DEF IInv, Core
<1>2. ASSUME IInv, UNCHANGED vars PROVE IInv'
  <2>1. /\ UNCHANGED <<logger_default, takeup, made, logger, boot, buf, disk, pc, at, rec, clock>>
        /\ UNCHANGED <<logged, accepted, lastRace>>
    BY <1>2 DEF vars, default, files
  <2>2. TypeOK' /\ MainInv' /\ CallersInv' /\ CountInv' /\ QueueInv'
    BY <1>2, <2>1 DEF IInv, TypeOK, MainInv, CallersInv, CountInv, QueueInv,
                      Running, Exited, First, Pending
  <2>3. DefaultInv' /\ BootInv' /\ StampInv'
    BY <1>2, <2>1 DEF IInv, DefaultInv, BootInv, StampInv, Running, Exited, First, Stamping, Raced
  <2>4. QED
    BY <2>2, <2>3 DEF IInv
<1>3. QED
  BY <1>1, <1>2

LEMMA Inductive == Spec => []IInv
<1>1. QED
  BY InitIInv, NextIInv, PTL DEF Spec

\* The types, and what is bounded: a channel holds at most TunnelSize records
\* although several goroutines send, a buffer at most BufSize, and no more
\* loggers are made than there are log calls, and one: log.go:67-87, 281-292.
THEOREM TypesCorrect == Spec => []TypeOK
<1>1. IInv => TypeOK
  BY DEF IInv
<1>2. QED
  BY <1>1, Inductive, PTL

\* No goroutine dies of a log call and none logs into a logger without
\* writers before Destroy has closed the first one, however many goroutines
\* log: log.go:64-67 and 281-292.
THEOREM NoLossBeforeClose == Spec => []LossOnlyAfterClose
<1>1. IInv => LossOnlyAfterClose
  <2> SUFFICES ASSUME IInv, made > 1 \/ \E p \in Callers : pc[p] = "dead" PROVE First.closed
    BY DEF LossOnlyAfterClose, First
  <2>1. CASE \E p \in Callers : pc[p] = "dead"
    BY <2>1 DEF IInv, CallersInv
  <2>2. CASE made > 1
    <3>1. pc[Main] = "returns"
      <4>1. made # 0 /\ made # 1
        BY <2>2
      <4>2. QED
        BY <4>1 DEF IInv, DefaultInv
    <3>2. QED
      BY <3>1 DEF IInv, MainInv, ClosedAt
  <2>3. QED
    BY <2>1, <2>2
<1>2. QED
  BY <1>1, Inductive, PTL

\* The race for lastTime and lastTimeStr spoils a record's second only if two
\* goroutines met between lines 153 and 162 of log.go in that second or later,
\* however many goroutines log and whatever was raced before.
THEOREM StampsWrongForCause == Spec => []StampWrongForCause
<1>1. IInv => StampWrongForCause
  BY DEF IInv, StampInv, StampWrongForCause, Raced
<1>2. QED
  BY <1>1, Inductive, PTL

-----------------------------------------------------------------------------
(* The logger implements RecordLog, its safety part.                       *)

LEMMA PrefixOfConcat ==
    ASSUME NEW s \in Seq(Record), NEW t \in Seq(Record)
    PROVE  Abstract!IsPrefix(s, s \o t)
<1>1. Len(s) \in Nat /\ Len(t) \in Nat /\ Len(s \o t) = Len(s) + Len(t)
  OBVIOUS
<1>2. SubSeq(s \o t, 1, Len(s)) = SubSeq(s, 1, Len(s))
  <2>1. CASE Len(s) = 0
    BY <1>1, <2>1
  <2>2. CASE Len(s) # 0
    <3>1. 1 \in 1 .. Len(s) /\ Len(s) \in 1 .. Len(s)
      BY <1>1, <2>2
    <3>2. QED
      BY <3>1, SubSeqOfConcat1
  <2>3. QED
    BY <2>1, <2>2
<1>3. QED
  BY <1>1, <1>2 DEF Abstract!IsPrefix

\* What the state of Logger says of ended.
Ended == IF pc[Main] = "killed" THEN "killed" ELSE IF pc[Main] \in Closed THEN "closed" ELSE "no"

LEMMA NotEnded ==
    ASSUME MainInv, Running, pc[Main] \notin {"untake", "returns"}
    PROVE  Ended = "no"
BY DEF Ended, Running, Exited, Closed

\* More of a file is on disk, and nothing that was not accepted.
LEMMA PersistStep ==
    ASSUME TypeOK, TypeOK', QueueInv', ~Exited', Ended = "no", Ended' = "no", accepted' = accepted,
           \A f \in Files : disk'[f] = disk[f] \/ disk'[f] = disk[f] \o buf[f]
    PROVE  Abstract!Persist
<1>1. DOMAIN disk' = Files
  BY DEF TypeOK
<1>2. ASSUME NEW f \in Files
      PROVE  Abstract!IsPrefix(disk[f], disk'[f]) /\ Abstract!IsPrefix(disk'[f], accepted[f])
  <2>1. /\ disk[f] \in Seq(Record) /\ buf[f] \in Seq(Record)
        /\ disk'[f] \in Seq(Record) /\ buf'[f] \in Seq(Record)
    BY DEF TypeOK
  <2>2. Abstract!IsPrefix(disk[f], disk'[f])
    <3>1. disk[f] \o <<>> = disk[f] /\ <<>> \in Seq(Record)
      BY <2>1, ConcatEmptySeq
    <3>2. Abstract!IsPrefix(disk[f], disk[f] \o <<>>) /\ Abstract!IsPrefix(disk[f], disk[f] \o buf[f])
      BY <2>1, <3>1, PrefixOfConcat
    <3>3. QED
      BY <3>1, <3>2
  <2>3. PICK q \in Seq(Record) : accepted[f] = (disk'[f] \o buf'[f]) \o q
    BY DEF QueueInv
  <2>4. accepted[f] = disk'[f] \o (buf'[f] \o q) /\ buf'[f] \o q \in Seq(Record)
    <3>1. PICK d \in Seq(Record) : d = disk'[f]
      BY <2>1
    <3>2. PICK b \in Seq(Record) : b = buf'[f]
      BY <2>1
    <3>3. (d \o b) \o q = d \o (b \o q)
      BY ConcatAssociative
    <3>4. b \o q \in Seq(Record)
      BY ConcatProperties
    <3>5. QED
      BY <2>3, <3>1, <3>2, <3>3, <3>4
  <2>5. Abstract!IsPrefix(disk'[f], accepted[f])
    BY <2>1, <2>4, PrefixOfConcat
  <2>6. QED
    BY <2>2, <2>5
<1>3. QED
  BY <1>1, <1>2 DEF Abstract!Persist, Ended

LEMMA Stutter ==
    ASSUME UNCHANGED <<accepted, disk>>, Ended' = Ended
    PROVE  UNCHANGED Abstract!vars
BY DEF Abstract!vars, Ended

LEMMA StepRefines ==
    ASSUME IInv, IInv', Next
    PROVE  [Abstract!Next]_(Abstract!vars)
<1> USE Constants
<1>1. /\ TypeOK /\ TypeOK' /\ MainInv /\ DefaultInv /\ CallersInv /\ BootInv /\ QueueInv /\ QueueInv'
      /\ pc \in [Procs -> MainAt \cup CallerAt]
  BY DEF IInv, TypeOK
<1>2. ASSUME UNCHANGED <<accepted, disk>>, pc'[Main] = pc[Main] PROVE UNCHANGED Abstract!vars
  BY <1>2, Stutter DEF Ended
<1>3. CASE InitBaseConf \/ Destroy \/ CloseTunnel \/ CloseWaits \/ Untake
  <2>1. UNCHANGED <<accepted, disk>>
    BY <1>3 DEF InitBaseConf, Destroy, CloseTunnel, CloseWaits, Untake, files
  <2>2. \/ /\ pc[Main] \in {"setup", "up", "use", "wait"} /\ pc'[Main] \in {"up", "check", "wait", "flush"}
        \/ pc[Main] = "untake" /\ pc'[Main] = "returns"
    BY <1>1, <1>3 DEF InitBaseConf, Destroy, CloseTunnel, CloseWaits, Untake, Go
  <2>3. Ended' = Ended
    BY <2>2 DEF Ended, Closed
  <2>4. QED
    BY <2>1, <2>3, Stutter
<1>4. CASE Kill
  <2>1. UNCHANGED <<accepted, disk>> /\ pc'[Main] = IF pc[Main] \in Closed THEN "exited" ELSE "killed"
    BY <1>4 DEF Kill, Exit
  <2>2. CASE pc[Main] \in Closed
    BY <2>1, <2>2, Stutter DEF Ended, Closed
  <2>3. CASE pc[Main] \notin Closed
    <3>1. Ended = "no" /\ Ended' = "killed"
      BY <1>4, <2>1, <2>3 DEF Ended, Kill, Exited
    <3>2. QED
      BY <2>1, <3>1 DEF Abstract!Next, Abstract!Kill, Ended
  <2>4. QED
    BY <2>2, <2>3
<1>5. CASE MainReturns
  <2>1. UNCHANGED <<accepted, disk>> /\ pc[Main] = "returns" /\ pc'[Main] = "exited"
    BY <1>5 DEF MainReturns, Exit
  <2>2. QED
    BY <2>1, Stutter DEF Ended, Closed
<1>6. CASE Tick
  BY <1>2, <1>6 DEF Tick, files
<1>7. ASSUME NEW p \in Procs, Check(p) \/ NewLogger(p) \/ Assign(p) PROVE UNCHANGED Abstract!vars
  <2>1. UNCHANGED <<accepted, disk>> /\ pc[p] \in {"check", "new", "assign"}
    BY <1>7 DEF Check, NewLogger, Assign, Go, files
  <2>2. PICK v \in {"use", "new", "assign"} : pc' = [pc EXCEPT ![p] = v]
    BY <1>7 DEF Check, NewLogger, Assign, Go
  <2>3. Ended' = Ended
    BY <1>1, <2>1, <2>2 DEF Ended, Closed
  <2>4. QED
    BY <2>1, <2>3, Stutter
<1>8. ASSUME NEW p \in Callers, Log(p) \/ Use(p) \/ Compare(p) \/ Format(p) \/ Take(p)
      PROVE  UNCHANGED Abstract!vars
  <2>1. UNCHANGED <<accepted, disk>>
    BY <1>8 DEF Log, Use, Compare, Format, Take, files
  <2>2. PICK v : pc' = [pc EXCEPT ![p] = v]
    BY <1>8 DEF Log, Use, Compare, Format, Take, Go, Ends
  <2>3. QED
    BY <1>1, <1>2, <2>1, <2>2
<1>9. ASSUME NEW p \in Callers, Send(p) PROVE [Abstract!Next]_(Abstract!vars)
  <2>1. UNCHANGED disk /\ Running /\ pc[p] = "send"
    BY <1>9 DEF Send, files
  <2>2. PICK v : pc' = [pc EXCEPT ![p] = v]
    BY <1>9 DEF Send, Ends
  <2>3. pc'[Main] = pc[Main]
    BY <1>1, <2>2
  <2>4. CASE accepted' = accepted
    BY <1>2, <2>1, <2>3, <2>4
  <2>5. CASE accepted' # accepted
    <3>1. at[p] = 1 /\ ~First.closed /\ accepted' = With(Sent(rec[p]))
      BY <1>9, <2>5 DEF Send, First
    <3>2. Sent(rec[p]) \in Record
      BY <1>1, RecordTypes DEF TypeOK
    <3>3. Ended = "no" /\ Ended' = "no"
      BY <1>1, <2>1, <2>3, <3>1 DEF MainInv, ClosedAt, Ended, Closed, Running, Exited
    <3>4. \E r \in Record : accepted' = Abstract!With(r)
      BY <3>1, <3>2 DEF With, Abstract!With
    <3>5. Abstract!Accept
      BY <2>1, <3>3, <3>4 DEF Abstract!Accept, Ended
    <3>6. QED
      BY <3>5 DEF Abstract!Next
  <2>6. QED
    BY <2>4, <2>5
<1>10. ASSUME NEW l \in Loggers, Receive(l) \/ FlushTimer(l) PROVE [Abstract!Next]_(Abstract!vars)
  <2>1. Running /\ UNCHANGED <<accepted, pc>> /\ boot[l] \in {"first", "loop"}
    BY <1>10 DEF Receive, FlushTimer
  <2>2. CASE l # 1
    <3>1. logger[l].writers = {}
      BY <1>1, <2>2 DEF BootInv
    <3>2. \A f \in Files : disk'[f] = disk[f]
      BY <1>10, <3>1 DEF Receive, FlushTimer, Flush
    <3>3. disk' = disk
      BY <1>1, <3>2 DEF TypeOK
    <3>4. QED
      BY <1>2, <2>1, <3>3
  <2>3. CASE l = 1
    <3>1. pc[Main] \notin {"untake", "returns"}
      BY <1>1, <2>1, <2>3 DEF BootInv, ClosedAt
    <3>2. Ended = "no" /\ Ended' = "no" /\ ~Exited'
      BY <1>1, <2>1, <3>1, NotEnded DEF Ended, Running, Exited
    <3>3. \A f \in Files : disk'[f] = disk[f] \/ disk'[f] = disk[f] \o buf[f]
      <4>1. CASE Receive(l)
        BY <1>1, <4>1, ReceiveTypes DEF Written
      <4>2. CASE FlushTimer(l)
        BY <1>1, <4>2, FlushTypes DEF FlushTimer
      <4>3. QED
        BY <1>10, <4>1, <4>2
    <3>4. Abstract!Persist
      BY <1>1, <2>1, <3>2, <3>3, PersistStep
    <3>5. QED
      BY <3>4 DEF Abstract!Next
  <2>4. QED
    BY <2>2, <2>3
<1>11. ASSUME NEW l \in Loggers, BootReturns(l) PROVE UNCHANGED Abstract!vars
  BY <1>2, <1>11 DEF BootReturns, files
<1>12. CASE CloseFlushes
  <2>1. /\ Running /\ accepted' = accepted /\ pc[Main] = "flush" /\ pc'[Main] = "drop"
        /\ Flush(at[Main]) /\ at[Main] = 1
    BY <1>1, <1>12 DEF CloseFlushes, Go, MainInv
  <2>2. Ended = "no" /\ Ended' = "no" /\ ~Exited'
    BY <2>1 DEF Ended, Closed, Exited
  <2>3. \A f \in Files : disk'[f] = disk[f] \/ disk'[f] = disk[f] \o buf[f]
    BY <1>1, <2>1, FlushTypes
  <2>4. Abstract!Persist
    BY <1>1, <2>1, <2>2, <2>3, PersistStep
  <2>5. QED
    BY <2>4 DEF Abstract!Next
<1>13. CASE Drop
  <2>1. /\ Running /\ UNCHANGED <<accepted, disk>> /\ pc[Main] = "drop" /\ pc'[Main] = "untake"
    BY <1>1, <1>13 DEF Drop, Go, files
  <2>2. Ended = "no" /\ Ended' = "closed"
    BY <2>1 DEF Ended, Closed
  <2>3. First.tunnel = <<>> /\ \A f \in Files : buf[f] = <<>>
    BY <1>1, <2>1 DEF BootInv, ClosedAt
  <2>4. ASSUME NEW f \in Files PROVE disk[f] = accepted[f]
    <3>1. PICK q \in Seq(Record) : /\ accepted[f] = (disk[f] \o buf[f]) \o q
                                   /\ Selection(q, First.tunnel, FileLevels[f])
      BY <1>1, <2>1 DEF QueueInv, Running
    <3>2. q = <<>>
      BY <2>3, <3>1, SelectionOfEmpty
    <3>3. disk[f] \in Seq(Record)
      BY <1>1 DEF TypeOK
    <3>4. (disk[f] \o <<>>) \o <<>> = disk[f]
      BY <3>3, ConcatEmptySeq
    <3>5. QED
      BY <2>3, <3>1, <3>2, <3>4
  <2>5. Abstract!Close
    BY <2>1, <2>2, <2>4 DEF Abstract!Close, Ended
  <2>6. QED
    BY <2>5 DEF Abstract!Next
<1>14. QED
  BY <1>3, <1>4, <1>5, <1>6, <1>7, <1>8, <1>9, <1>10, <1>11, <1>12, <1>13
     DEF Next, Close, Call, Shared, Boot

\* The logger keeps the order and the number of the records it accepted: what
\* is in a file is always a prefix of what was accepted for it, nothing that
\* is on disk changes, and all of it is there when Close has returned:
\* log.go:122-132 and 168-228.  (That it gets there is checked by TLC.)
THEOREM ImplementsRecordLogSafely == Spec => Abstract!Safety
<1>1. Init => Abstract!Init
  BY Constants DEF Init, Abstract!Init, Closed
<1>2. IInv /\ IInv' /\ [Next]_vars => [Abstract!Next]_(Abstract!vars)
  <2>1. ASSUME IInv, IInv', Next PROVE [Abstract!Next]_(Abstract!vars)
    BY <2>1, StepRefines
  <2>2. ASSUME UNCHANGED vars PROVE UNCHANGED Abstract!vars
    BY <2>2, Stutter DEF vars, files, Ended
  <2>3. QED
    BY <2>1, <2>2
<1>3. QED
  BY <1>1, <1>2, Inductive, PTL DEF Spec, Abstract!Safety

-----------------------------------------------------------------------------
(* The log files: what is true of them at every step.                      *)

\* In records, those that process p wrote in time are of hour h, or none is.
Ours(records, p, h) ==
    \A n \in DOMAIN records : records[n].by = p => records[n].late \/ records[n].hour = h

NoneOf(records, p) == \A n \in DOMAIN records : records[n].by # p

Twice(h) == \E p, q \in renamedBy[h] : p # q

\* The inode of the name has no other, and only the second rename to an hour
\* takes a name from an inode.
NamesInv ==
    /\ live # None => \A h \in Hours : rotated[h] # live
    /\ \A h \in Hours : rotated[h] # None => renamedBy[h] # {}
    /\ \A i \in Inodes : i \notin Named => \E h \in Hours : Twice(h)

\* A process renames to an hour once: the hours it still renames to come later.
HoursInv ==
    \A p \in Processes :
        /\ stage[p] # "down" => writer[p].variables <= hour
        /\ stage[p] = "rename" => writer[p].old < writer[p].variables
        /\ \A h \in Hours :
              p \in renamedBy[h] =>
                  /\ h < hour
                  /\ stage[p] # "down" => h < writer[p].variables
                  /\ stage[p] = "rename" => h < writer[p].old

\* Where a process has its file open and writes, or still renames it.
InUse == {"run", "rename"}

BuffersInv == \A p \in Processes : \A n \in DOMAIN writer[p].buf : writer[p].buf[n].by = p

\* A process without trouble: what it still buffers is of its hour, and it does
\* not write into a file that it alone has renamed.
FaultlessWriter(p) ==
    /\ ~writer[p].failed
    /\ stage[p] \in {"run", "rename", "close"} => writer[p].file # None
    /\ stage[p] \in InUse => \A h \in Hours : writer[p].file = rotated[h] => renamedBy[h] # {p}
    /\ stage[p] # "run" => writer[p].buf = <<>>
    /\ stage[p] = "run" => Ours(writer[p].buf, p, writer[p].variables)

\* In the file of the name it has records of the hour it will rename it to.
LiveHasOwnHour(p) ==
    live # None =>
        /\ stage[p] = "run" => Ours(content[live], p, writer[p].variables)
        /\ stage[p] = "rename" => Ours(content[live], p, writer[p].old)
        /\ stage[p] \notin InUse => NoneOf(content[live], p)

FilesOf(p) ==
    /\ FaultlessWriter(p)
    /\ LiveHasOwnHour(p)
    /\ stage[p] = "down" => \A i \in Inodes : NoneOf(content[i], p)
    /\ \A h \in Hours : rotated[h] # None /\ renamedBy[h] = {p} => Ours(content[rotated[h]], p, h)

FilesInv == \A p \in Processes \ troubled : FilesOf(p)

FInv == FTypeOK /\ NamesInv /\ HoursInv /\ BuffersInv /\ FilesInv
-----------------------------------------------------------------------------
(* The log files: types and the frame of a step.                           *)

LEMMA FileConstants ==
    /\ BufferSize \in Nat /\ BufferSize >= 1 /\ MaxWritten \in Nat /\ MaxHour \in Nat
    /\ MaxFaults \in Nat /\ MaxCrashes \in Nat
    /\ 0 \in Hours /\ Hours \subseteq Nat
    /\ <<>> \in Seq(FileRecord) /\ Len(<<>>) = 0 /\ Len(<<>>) <= BufferSize
    /\ \A r \in FileRecord : <<r>> \in Seq(FileRecord) /\ Len(<<r>>) <= BufferSize
<1>1. BufferSize \in Nat \ {0} /\ {MaxWritten, MaxHour, MaxFaults, MaxCrashes} \subseteq Nat
  BY FileWriterAssumption
<1>2. QED
  BY <1>1 DEF Hours

\* What becomes of the types in a step of p: one more inode, or records of
\* p's buffer in an inode.
LEMMA FlushedTypes ==
    ASSUME FTypeOK, NEW p \in Processes, writer[p].file # None
    PROVE  /\ writer[p].file \in Inodes
           /\ Flushed(p) \in Seq(Seq(FileRecord)) /\ DOMAIN Flushed(p) = Inodes
           /\ Flushed(p)[writer[p].file] = content[writer[p].file] \o writer[p].buf
           /\ \A i \in Inodes : i # writer[p].file => Flushed(p)[i] = content[i]
<1>. DEFINE f == writer[p].file
<1>1. content \in Seq(Seq(FileRecord)) /\ writer[p] \in Writers
  BY DEF FTypeOK
<1>2. f \in Inodes /\ writer[p].buf \in Seq(FileRecord)
  BY <1>1 DEF Writers
<1>3. content[f] \in Seq(FileRecord) /\ Inodes = 1 .. Len(content)
  BY <1>1, <1>2 DEF Inodes
<1>4. content[f] \o writer[p].buf \in Seq(FileRecord)
  BY <1>2, <1>3
<1>5. Flushed(p) = [content EXCEPT ![f] = content[f] \o writer[p].buf]
  BY DEF Flushed
<1>6. Flushed(p) \in Seq(Seq(FileRecord)) /\ DOMAIN Flushed(p) = Inodes
  BY <1>1, <1>2, <1>3, <1>4, <1>5, ExceptSeq DEF Inodes
<1>7. QED
  BY <1>1, <1>2, <1>3, <1>5, <1>6 DEF Inodes

LEMMA OpenTypes ==
    ASSUME FTypeOK, NEW p \in Processes, NEW fields \in Writers, Open(p, fields)
    PROVE  /\ content' \in Seq(Seq(FileRecord)) /\ Inodes \subseteq Inodes'
           /\ live' \in Inodes' /\ live' # None /\ rotated' = rotated
           /\ \A i \in Inodes : content'[i] = content[i]
           /\ \A i \in Inodes' \ Inodes : content'[i] = <<>>
           /\ live' = live \/ live' \in Inodes' \ Inodes
           /\ live # None => live' = live
           /\ writer' = [writer EXCEPT ![p] = [fields EXCEPT !.file = live']]
           /\ [fields EXCEPT !.file = live'] \in Writers'
<1>1. content \in Seq(Seq(FileRecord)) /\ live \in {None} \cup Inodes
  BY DEF FTypeOK
<1>2. Inodes = 1 .. Len(content) /\ Len(content) \in Nat
  BY <1>1 DEF Inodes
<1>3. CASE live = None
  <2>1. live' = Len(content) + 1 /\ content' = Append(content, <<>>)
    BY <1>3 DEF Open
  <2>2. content' \in Seq(Seq(FileRecord)) /\ Inodes' = 1 .. Len(content) + 1
    BY <1>1, <2>1 DEF Inodes
  <2>3. /\ \A i \in Inodes : content'[i] = content[i]
        /\ content'[Len(content) + 1] = <<>>
    BY <1>1, <1>2, <2>1
  <2>4. Inodes \subseteq Inodes' /\ Inodes' \ Inodes = {Len(content) + 1} /\ live' # None
    BY <1>2, <2>1, <2>2 DEF None
  <2>5. [fields EXCEPT !.file = live'] \in Writers'
    BY <2>1, <2>4 DEF Writers, Hours
  <2>6. QED
    BY <1>3, <2>1, <2>2, <2>3, <2>4, <2>5 DEF Open
<1>4. CASE live # None
  <2>1. live' = live /\ content' = content
    BY <1>4 DEF Open
  <2>2. Inodes' = Inodes
    BY <2>1 DEF Inodes
  <2>3. [fields EXCEPT !.file = live'] \in Writers'
    BY <1>1, <1>4, <2>1, <2>2 DEF Writers, Hours
  <2>4. QED
    BY <1>1, <1>4, <2>1, <2>2, <2>3 DEF Open
<1>5. QED
  BY <1>3, <1>4

\* Other inodes and fields of p's writer: types and p's alone.
LEMMA WriterMoves ==
    ASSUME FTypeOK, NEW p \in Processes, NEW w,
           Inodes \subseteq Inodes', w \in Writers', Len(w.buf) <= BufferSize,
           writer' = [writer EXCEPT ![p] = w]
    PROVE  /\ writer' \in [Processes -> Writers'] /\ writer'[p] = w
           /\ \A q \in Processes : Len(writer'[q].buf) <= BufferSize
           /\ \A q \in Processes \ {p} : writer'[q] = writer[q]
<1>1. writer \in [Processes -> Writers] /\ \A q \in Processes : Len(writer[q].buf) <= BufferSize
  BY DEF FTypeOK
<1>2. Writers \subseteq Writers'
  BY DEF Writers, Hours
<1>3. QED
  BY <1>1, <1>2

LEMMA StageMoves ==
    ASSUME FTypeOK, NEW p \in Processes, NEW to, stage' = [stage EXCEPT ![p] = to]
    PROVE  stage'[p] = to /\ \A q \in Processes \ {p} : stage'[q] = stage[q]
BY DEF FTypeOK

LEMMA FileTypeStep == FTypeOK /\ [FNext]_fvars => FTypeOK'
<1>. SUFFICES ASSUME FTypeOK, [FNext]_fvars PROVE FTypeOK'
  OBVIOUS
<1>. USE FileConstants DEF None
<1>1. CASE UNCHANGED fvars
  BY <1>1 DEF FTypeOK, fvars, directory, bounds, history, Inodes, Writers, Hours
<1>2. CASE HourPasses
  BY <1>2 DEF HourPasses, FTypeOK, directory, bounds, history, Inodes, Writers, Hours
<1>3. ASSUME NEW p \in Processes,
             Start(p) \/ Write(p) \/ FlushFile(p) \/ Rotate(p) \/ Crash(p)
      PROVE  FTypeOK'
  <2>. DEFINE w == writer[p]
  <2>1. /\ w \in Writers /\ Len(w.buf) <= BufferSize /\ stage[p] \in {"down", "run", "rename", "close", "create"}
        /\ hour \in Hours /\ p \in Processes
    BY DEF FTypeOK
  <2>2. /\ w.file \in {None} \cup Inodes /\ w.buf \in Seq(FileRecord) /\ w.failed \in BOOLEAN
        /\ w.variables \in Hours /\ w.timing \in BOOLEAN /\ w.old \in Hours
    BY <2>1 DEF Writers
  \* A step that leaves the names alone and changes contents and p only.
  <2>3. ASSUME NEW v, Inodes \subseteq Inodes', content' \in Seq(Seq(FileRecord)),
               v \in Writers', Len(v.buf) <= BufferSize, writer' = [writer EXCEPT ![p] = v]
        PROVE  /\ writer' \in [Processes -> Writers']
               /\ \A q \in Processes : Len(writer'[q].buf) <= BufferSize
    BY <2>3, WriterMoves
  <2>4. ASSUME content' = content PROVE Inodes' = Inodes /\ Writers' = Writers
    BY <2>4 DEF Inodes, Writers, Hours
  <2>5. NoFault \/ Fail(p) => faults' \in 0 .. MaxFaults /\ troubled' \subseteq Processes
    BY DEF NoFault, Fail, FTypeOK
  <2>6. ASSUME NEW rest \in Seq(FileRecord), Len(rest) <= BufferSize, FlushWorks(p, rest)
        PROVE  /\ content' \in Seq(Seq(FileRecord)) /\ Inodes' = Inodes
               /\ writer' \in [Processes -> Writers']
               /\ \A q \in Processes : Len(writer'[q].buf) <= BufferSize
    <3>1. content' \in Seq(Seq(FileRecord)) /\ Inodes' = Inodes
      BY <2>6, FlushedTypes DEF FlushWorks, Inodes
    <3>2. Writers' = Writers
      BY <3>1 DEF Writers, Hours
    <3>. DEFINE v == [w EXCEPT !.buf = rest]
    <3>3. v \in Writers /\ v.buf = rest
      BY <2>1, <2>6 DEF Writers
    <3>4. writer' = [writer EXCEPT ![p] = v]
      BY <2>6 DEF FlushWorks
    <3>. HIDE DEF v, w
    <3>5. QED
      BY <2>3, <2>6, <3>1, <3>2, <3>3, <3>4
  <2>7. ASSUME FlushFails(p)
        PROVE  /\ content' = content /\ Inodes' = Inodes
               /\ writer' \in [Processes -> Writers']
               /\ \A q \in Processes : Len(writer'[q].buf) <= BufferSize
    <3>1. content' = content
      BY <2>7 DEF FlushFails
    <3>. DEFINE v == [w EXCEPT !.failed = TRUE]
    <3>3. v \in Writers /\ v.buf = w.buf
      BY <2>1 DEF Writers
    <3>4. writer' = [writer EXCEPT ![p] = v]
      BY <2>7 DEF FlushFails
    <3>5. content' \in Seq(Seq(FileRecord))
      BY <3>1 DEF FTypeOK
    <3>. HIDE DEF v, w
    <3>6. QED
      BY <2>1, <2>3, <2>4, <3>1, <3>3, <3>4, <3>5
  <2>8. FlushFails(p) \/ (\E rest : FlushWorks(p, rest)) => NoFault \/ Fail(p)
    BY DEF FlushFails, FlushWorks
  <2>9. CASE Start(p)
    <3>. DEFINE fields == NewWriter(None, hour)
    <3>1. fields \in Writers /\ fields.buf = <<>>
      BY <2>1 DEF NewWriter, Writers
    <3>2. Open(p, fields)
      BY <2>9 DEF Start
    <3>. DEFINE v == [fields EXCEPT !.file = live']
    <3>3. v.buf = <<>>
      BY <3>1 DEF Writers
    <3>. HIDE DEF fields
    <3>4. /\ content' \in Seq(Seq(FileRecord)) /\ Inodes \subseteq Inodes'
          /\ live' \in Inodes' /\ rotated' = rotated /\ v \in Writers'
          /\ writer' = [writer EXCEPT ![p] = v]
      BY <3>1, <3>2, OpenTypes
    <3>. HIDE DEF v
    <3>5. /\ writer' \in [Processes -> Writers']
          /\ \A q \in Processes : Len(writer'[q].buf) <= BufferSize
      BY <2>3, <3>3, <3>4
    <3>6. rotated' \in [Hours -> {None} \cup Inodes']
      BY <3>4 DEF FTypeOK
    <3>7. QED
      BY <2>9, <3>4, <3>5, <3>6 DEF Start, FTypeOK, bounds, history
  <2>10. CASE Write(p)
    <3>. DEFINE r == [id |-> written', by |-> p, hour |-> hour, late |-> w.variables # hour]
    <3>1. written' \in 1 .. MaxWritten /\ written' \in 0 .. MaxWritten
      BY <2>10 DEF Write, FTypeOK
    <3>2. r \in FileRecord
      BY <2>1, <3>1 DEF FileRecord
    <3>3. UNCHANGED <<hour, live, rotated, stage, crashes, renamedBy>>
      BY <2>10 DEF Write
    <3>4. \/ UNCHANGED <<content, writer>> /\ NoFault
          \/ /\ Len(w.buf) < BufferSize
             /\ writer' = [writer EXCEPT ![p].buf = Append(@, r), ![p].timing = TRUE]
             /\ UNCHANGED content /\ NoFault
          \/ FlushWorks(p, <<r>>) \/ FlushFails(p)
      BY <2>10 DEF Write
    <3>. HIDE DEF r
    <3>5. /\ content' \in Seq(Seq(FileRecord)) /\ Inodes' = Inodes
          /\ writer' \in [Processes -> Writers']
          /\ \A q \in Processes : Len(writer'[q].buf) <= BufferSize
          /\ NoFault \/ Fail(p)
      <4>1. CASE UNCHANGED <<content, writer>> /\ NoFault
        BY <4>1, <2>4 DEF FTypeOK
      <4>2. CASE /\ Len(w.buf) < BufferSize
                 /\ writer' = [writer EXCEPT ![p].buf = Append(@, r), ![p].timing = TRUE]
                 /\ UNCHANGED content /\ NoFault
        <5>. DEFINE v == [w EXCEPT !.buf = Append(w.buf, r), !.timing = TRUE]
        <5>1. Append(w.buf, r) \in Seq(FileRecord) /\ Len(Append(w.buf, r)) <= BufferSize
          BY <2>2, <3>2, <4>2
        <5>2. v \in Writers /\ v.buf = Append(w.buf, r)
          BY <2>1, <5>1 DEF Writers
        <5>3. writer' = [writer EXCEPT ![p] = v]
          BY <4>2
        <5>4. content' \in Seq(Seq(FileRecord))
          BY <4>2 DEF FTypeOK
        <5>. HIDE DEF v, w
        <5>5. QED
          BY <2>3, <2>4, <4>2, <5>1, <5>2, <5>3, <5>4
      <4>3. CASE FlushWorks(p, <<r>>)
        BY <2>6, <2>8, <3>2, <4>3
      <4>4. CASE FlushFails(p)
        BY <2>7, <2>8, <4>4 DEF FTypeOK
      <4>5. QED
        BY <3>4, <4>1, <4>2, <4>3, <4>4
    <3>6. QED
      BY <2>5, <3>1, <3>3, <3>5 DEF FTypeOK
  <2>11. CASE FlushFile(p)
    <3>1. /\ content' \in Seq(Seq(FileRecord)) /\ Inodes' = Inodes
          /\ writer' \in [Processes -> Writers']
          /\ \A q \in Processes : Len(writer'[q].buf) <= BufferSize
          /\ NoFault \/ Fail(p)
      <4>1. CASE FlushWorks(p, <<>>)
        BY <2>6, <2>8, <4>1
      <4>2. CASE FlushFails(p)
        BY <2>7, <2>8, <4>2 DEF FTypeOK
      <4>3. QED
        BY <2>11, <4>1, <4>2 DEF FlushFile
    <3>2. UNCHANGED <<hour, live, rotated, stage, crashes, written, renamedBy>>
      BY <2>11 DEF FlushFile
    <3>3. QED
      BY <2>5, <3>1, <3>2 DEF FTypeOK
  <2>12. Advanced(p) \in Writers /\ Advanced(p).buf = w.buf
    BY <2>1, <2>2 DEF Advanced, OldHour, NewHour, Writers
  <2>13. CASE RotateFlushes(p)
    <3>1. content' \in Seq(Seq(FileRecord)) /\ Inodes' = Inodes
      <4>1. CASE w.buf = <<>>
        BY <2>13, <4>1 DEF RotateFlushes, BeforeRotation, FTypeOK, Inodes
      <4>2. CASE w.buf # <<>>
        BY <2>13, <4>2, FlushedTypes DEF RotateFlushes, BeforeRotation, Inodes
      <4>3. QED
        BY <4>1, <4>2
    <3>2. Writers' = Writers
      BY <3>1 DEF Writers, Hours
    <3>. DEFINE v == [Advanced(p) EXCEPT !.buf = <<>>]
    <3>3. v \in Writers /\ v.buf = <<>>
      BY <2>12 DEF Writers
    <3>4. writer' = [writer EXCEPT ![p] = v]
      BY <2>13 DEF RotateFlushes
    <3>. HIDE DEF v, w
    <3>5. /\ writer' \in [Processes -> Writers']
          /\ \A q \in Processes : Len(writer'[q].buf) <= BufferSize
      BY <2>3, <3>1, <3>2, <3>3, <3>4
    <3>6. stage' \in [Processes -> {"down", "run", "rename", "close", "create"}]
      BY <2>13 DEF RotateFlushes, FTypeOK
    <3>7. QED
      BY <2>13, <3>1, <3>5, <3>6 DEF RotateFlushes, FTypeOK, bounds, history
  <2>14. CASE RotateFails(p)
    <3>1. NoFault \/ Fail(p)
      BY <2>14 DEF RotateFails
    <3>2. content' = content /\ live' = live /\ rotated' = rotated
      BY <2>14 DEF RotateFails, directory
    <3>. DEFINE v == [Advanced(p) EXCEPT !.failed = TRUE]
    <3>3. v \in Writers /\ v.buf = w.buf
      BY <2>12 DEF Writers
    <3>4. writer' = [writer EXCEPT ![p] = v]
      BY <2>14 DEF RotateFails
    <3>5. content' \in Seq(Seq(FileRecord))
      BY <3>2 DEF FTypeOK
    <3>. HIDE DEF v, w
    <3>6. /\ writer' \in [Processes -> Writers']
          /\ \A q \in Processes : Len(writer'[q].buf) <= BufferSize
      BY <2>1, <2>3, <2>4, <3>2, <3>3, <3>4, <3>5
    <3>7. stage' \in [Processes -> {"down", "run", "rename", "close", "create"}]
      BY <2>14 DEF RotateFails, AfterFailedFlush, FTypeOK
    <3>8. QED
      BY <2>4, <2>5, <2>14, <3>1, <3>2, <3>6, <3>7 DEF RotateFails, FTypeOK
  <2>15. CASE Rename(p)
    <3>1. content' = content /\ writer' = writer
      BY <2>15 DEF Rename
    <3>2. rotated' \in [Hours -> {None} \cup Inodes]
      BY <2>2, <2>15 DEF Rename, FTypeOK
    <3>3. renamedBy' \in [Hours -> SUBSET Processes]
      BY <2>2, <2>15 DEF Rename, FTypeOK
    <3>4. stage' \in [Processes -> {"down", "run", "rename", "close", "create"}]
      BY <2>15 DEF Rename, FTypeOK
    <3>5. QED
      BY <2>4, <2>15, <3>1, <3>2, <3>3, <3>4 DEF Rename, FTypeOK, bounds
  <2>16. CASE RenameFails(p)
    <3>1. faults' \in 0 .. MaxFaults /\ troubled' \subseteq Processes
      BY <2>5, <2>16 DEF RenameFails, FTypeOK
    <3>2. stage' \in [Processes -> {"down", "run", "rename", "close", "create"}]
      BY <2>16 DEF RenameFails, FTypeOK
    <3>3. QED
      BY <2>4, <2>16, <3>1, <3>2 DEF RenameFails, FTypeOK, directory
  <2>17. CASE CloseFile(p)
    <3>1. NoFault \/ Fail(p)
      BY <2>17 DEF CloseFile
    <3>2. content' = content /\ live' = live /\ rotated' = rotated
      BY <2>17 DEF CloseFile, directory
    <3>. DEFINE v == [w EXCEPT !.file = None]
    <3>3. v \in Writers /\ v.buf = w.buf
      BY <2>1 DEF Writers
    <3>4. writer' = [writer EXCEPT ![p] = v]
      BY <2>17 DEF CloseFile
    <3>5. content' \in Seq(Seq(FileRecord))
      BY <3>2 DEF FTypeOK
    <3>. HIDE DEF v, w
    <3>6. /\ writer' \in [Processes -> Writers']
          /\ \A q \in Processes : Len(writer'[q].buf) <= BufferSize
      BY <2>1, <2>3, <2>4, <3>2, <3>3, <3>4, <3>5
    <3>7. stage' \in [Processes -> {"down", "run", "rename", "close", "create"}]
      BY <2>17 DEF CloseFile, FTypeOK
    <3>8. QED
      BY <2>4, <2>5, <2>17, <3>1, <3>2, <3>6, <3>7 DEF CloseFile, FTypeOK
  <2>18. CASE Create(p)
    <3>. DEFINE fields == [w EXCEPT !.failed = FALSE, !.buf = <<>>]
    <3>1. fields \in Writers /\ fields.buf = <<>>
      BY <2>1 DEF Writers
    <3>2. Open(p, fields)
      BY <2>18 DEF Create
    <3>. DEFINE v == [fields EXCEPT !.file = live']
    <3>3. v.buf = <<>>
      BY <3>1 DEF Writers
    <3>. HIDE DEF fields
    <3>4. /\ content' \in Seq(Seq(FileRecord)) /\ Inodes \subseteq Inodes'
          /\ live' \in Inodes' /\ rotated' = rotated /\ v \in Writers'
          /\ writer' = [writer EXCEPT ![p] = v]
      BY <3>1, <3>2, OpenTypes
    <3>. HIDE DEF v
    <3>5. /\ writer' \in [Processes -> Writers']
          /\ \A q \in Processes : Len(writer'[q].buf) <= BufferSize
      BY <2>3, <3>3, <3>4
    <3>6. rotated' \in [Hours -> {None} \cup Inodes']
      BY <3>4 DEF FTypeOK
    <3>7. QED
      BY <2>18, <3>4, <3>5, <3>6 DEF Create, FTypeOK, bounds, history
  <2>19. CASE CreateFails(p)
    <3>1. stage' \in [Processes -> {"down", "run", "rename", "close", "create"}]
      BY <2>19 DEF CreateFails, FTypeOK
    <3>2. QED
      BY <2>4, <2>5, <2>19, <3>1 DEF CreateFails, FTypeOK, directory
  <2>20. CASE Crash(p)
    <3>. DEFINE v == NewWriter(None, 0)
    <3>1. v \in Writers /\ v.buf = <<>>
      BY DEF NewWriter, Writers
    <3>2. content' = content /\ live' = live /\ rotated' = rotated /\ writer' = [writer EXCEPT ![p] = v]
      BY <2>20 DEF Crash, directory
    <3>3. content' \in Seq(Seq(FileRecord))
      BY <3>2 DEF FTypeOK
    <3>. HIDE DEF v
    <3>4. /\ writer' \in [Processes -> Writers']
          /\ \A q \in Processes : Len(writer'[q].buf) <= BufferSize
      BY <2>3, <2>4, <3>1, <3>2, <3>3
    <3>5. stage' \in [Processes -> {"down", "run", "rename", "close", "create"}] /\ crashes' \in 0 .. MaxCrashes
      BY <2>20 DEF Crash, FTypeOK
    <3>6. QED
      BY <2>4, <2>20, <3>2, <3>4, <3>5 DEF Crash, FTypeOK
  <2>21. QED
    BY <1>3, <2>9, <2>10, <2>11, <2>13, <2>14, <2>15, <2>16, <2>17, <2>18, <2>19, <2>20 DEF Rotate
<1>4. QED
  BY <1>1, <1>2, <1>3 DEF FNext

-----------------------------------------------------------------------------
(* The log files: the invariants, step by step.                            *)

LEMMA NoneIsNoInode == FTypeOK => None \notin Inodes
BY DEF FTypeOK, None, Inodes

LEMMA OpenNewInode ==
    ASSUME FTypeOK, NEW p \in Processes, NEW fields, Open(p, fields)
    PROVE  \A i \in Inodes' : i \in Inodes \/ i = live'
<1>1. content \in Seq(Seq(FileRecord))
  BY DEF FTypeOK
<1>2. QED
  BY <1>1 DEF Open, Inodes

Act(p) == Start(p) \/ Write(p) \/ FlushFile(p) \/ Rotate(p) \/ Crash(p)

\* A process changes its own writer and place only.
LEMMA OthersStay ==
    ASSUME FTypeOK, NEW p \in Processes, Act(p)
    PROVE  /\ hour' = hour
           /\ \A q \in Processes \ {p} : writer'[q] = writer[q] /\ stage'[q] = stage[q]
<1>1. writer \in [Processes -> Writers] /\ stage \in [Processes -> {"down", "run", "rename", "close", "create"}]
  BY DEF FTypeOK
<1>2. hour' = hour
  BY DEF Act, Start, Write, FlushFile, Rotate, RotateFlushes, RotateFails, Rename, RenameFails,
         CloseFile, Create, CreateFails, Crash
<1>3. \A q \in Processes \ {p} : stage'[q] = stage[q]
  BY <1>1 DEF Act, Start, Write, FlushFile, Rotate, RotateFlushes, RotateFails, Rename, RenameFails,
              CloseFile, Create, CreateFails, Crash
<1>4. \A q \in Processes \ {p} : writer'[q] = writer[q]
  <2>1. ASSUME NEW rest, FlushWorks(p, rest) PROVE \A q \in Processes \ {p} : writer'[q] = writer[q]
    BY <1>1, <2>1 DEF FlushWorks
  <2>2. ASSUME FlushFails(p) PROVE \A q \in Processes \ {p} : writer'[q] = writer[q]
    BY <1>1, <2>2 DEF FlushFails
  <2>3. ASSUME NEW fields, Open(p, fields) PROVE \A q \in Processes \ {p} : writer'[q] = writer[q]
    BY <1>1, <2>3 DEF Open
  <2>4. CASE Start(p)
    BY <2>3, <2>4 DEF Start
  <2>5. CASE Write(p)
    BY <1>1, <2>1, <2>2, <2>5 DEF Write
  <2>6. CASE FlushFile(p)
    BY <2>1, <2>2, <2>6 DEF FlushFile
  <2>7. CASE RotateFlushes(p) \/ RotateFails(p) \/ Rename(p) \/ RenameFails(p) \/ CloseFile(p)
             \/ CreateFails(p) \/ Crash(p)
    BY <1>1, <2>7 DEF RotateFlushes, RotateFails, Rename, RenameFails, CloseFile, CreateFails, Crash
  <2>8. CASE Create(p)
    BY <2>3, <2>8 DEF Create
  <2>9. QED
    BY <2>4, <2>5, <2>6, <2>7, <2>8 DEF Act, Rotate
<1>5. QED
  BY <1>2, <1>3, <1>4

\* Only Open makes an inode, and only a rename takes a name away.
LEMMA NamesMove ==
    ASSUME FTypeOK, NEW p \in Processes, Act(p)
    PROVE  \/ UNCHANGED <<live, rotated, renamedBy>> /\ Inodes' = Inodes
           \/ /\ \E fields \in Writers : Open(p, fields)
              /\ renamedBy' = renamedBy
           \/ Rename(p)
<1>1. ASSUME content' = content PROVE Inodes' = Inodes
  BY <1>1 DEF Inodes
<1>2. ASSUME NEW rest, FlushWorks(p, rest) PROVE Inodes' = Inodes
  BY <1>2, FlushedTypes DEF FlushWorks, Inodes
<1>3. ASSUME FlushFails(p) PROVE Inodes' = Inodes
  BY <1>1, <1>3 DEF FlushFails
<1>4. writer[p] \in Writers /\ hour \in Hours
  BY DEF FTypeOK
<1>5. CASE Start(p)
  <2>1. NewWriter(None, hour) \in Writers
    BY <1>4 DEF NewWriter, Writers
  <2>2. QED
    BY <1>5, <2>1 DEF Start, history
<1>6. CASE Write(p)
  BY <1>1, <1>2, <1>3, <1>6 DEF Write
<1>7. CASE FlushFile(p)
  BY <1>2, <1>3, <1>7 DEF FlushFile
<1>8. CASE RotateFlushes(p)
  <2>1. Inodes' = Inodes
    <3>1. CASE writer[p].buf = <<>>
      BY <1>1, <1>8, <3>1 DEF RotateFlushes, BeforeRotation
    <3>2. CASE writer[p].buf # <<>>
      BY <1>8, <3>2, FlushedTypes DEF RotateFlushes, BeforeRotation, Inodes
    <3>3. QED
      BY <3>1, <3>2
  <2>2. QED
    BY <1>8, <2>1 DEF RotateFlushes, history
<1>9. CASE RotateFails(p) \/ RenameFails(p) \/ CloseFile(p) \/ CreateFails(p) \/ Crash(p)
  BY <1>1, <1>9 DEF RotateFails, RenameFails, CloseFile, CreateFails, Crash, directory
<1>10. CASE Create(p)
  <2>1. [writer[p] EXCEPT !.failed = FALSE, !.buf = <<>>] \in Writers
    BY <1>4, FileConstants DEF Writers
  <2>2. QED
    BY <1>10, <2>1 DEF Create, history
<1>11. QED
  BY <1>5, <1>6, <1>7, <1>8, <1>9, <1>10 DEF Act, Rotate

LEMMA NamesStep == FTypeOK /\ NamesInv /\ HoursInv /\ [FNext]_fvars => NamesInv'
<1>. SUFFICES ASSUME FTypeOK, NamesInv, HoursInv, [FNext]_fvars PROVE NamesInv'
  OBVIOUS
<1>1. /\ live \in {None} \cup Inodes /\ rotated \in [Hours -> {None} \cup Inodes]
      /\ content \in Seq(Seq(FileRecord)) /\ renamedBy \in [Hours -> SUBSET Processes]
  BY DEF FTypeOK
<1>2. ASSUME UNCHANGED <<live, rotated, renamedBy>>, Inodes' = Inodes PROVE NamesInv'
  BY <1>2 DEF NamesInv, Named, Twice
<1>3. CASE UNCHANGED fvars \/ HourPasses
  BY <1>2, <1>3 DEF fvars, HourPasses, directory, history, Inodes
<1>4. ASSUME NEW p \in Processes, Act(p) PROVE NamesInv'
  <2>1. CASE \E fields \in Writers : Open(p, fields) /\ renamedBy' = renamedBy
    <3>1. /\ live' \in Inodes' /\ live' # None /\ rotated' = rotated
          /\ live' = live \/ live' \notin Inodes
          /\ live # None => live' = live
          /\ Inodes \subseteq Inodes'
      BY <2>1, OpenTypes
    <3>2. ASSUME NEW h \in Hours, rotated'[h] = live' PROVE FALSE
      <4>1. rotated[h] = live' /\ rotated[h] \in {None} \cup Inodes /\ live' # None
        BY <1>1, <3>1, <3>2
      <4>2. live' = live /\ live # None
        BY <3>1, <4>1
      <4>3. QED
        BY <4>1, <4>2 DEF NamesInv
    <3>3. \A i \in Inodes' : i \in Inodes \/ i = live'
      BY <2>1, OpenNewInode
    <3>4. ASSUME NEW i \in Inodes', i \notin Named' PROVE \E h \in Hours : Twice(h)
      <4>1. i # live' /\ \A h \in Hours : i # rotated'[h]
        BY <3>4 DEF Named
      <4>2. i \in Inodes
        BY <3>3, <4>1
      <4>3. i # live
        BY <1>1, <3>1, <4>1, <4>2, NoneIsNoInode
      <4>4. i \notin Named
        BY <3>1, <4>1, <4>3 DEF Named
      <4>5. QED
        BY <4>2, <4>4 DEF NamesInv
    <3>5. renamedBy' = renamedBy /\ \A h \in Hours : Twice(h) => Twice(h)'
      BY <2>1 DEF Twice
    <3>6. \A h \in Hours : rotated'[h] # None => renamedBy'[h] # {}
      BY <3>1, <3>5 DEF NamesInv
    <3>7. QED
      BY <3>2, <3>4, <3>5, <3>6 DEF NamesInv
  <2>2. CASE Rename(p)
    <3>. DEFINE o == writer[p].old
    <3>1. o \in Hours
      BY DEF FTypeOK, Writers
    <3>2. /\ live # None /\ live' = None /\ rotated' = [rotated EXCEPT ![o] = live]
          /\ renamedBy' = [renamedBy EXCEPT ![o] = @ \cup {p}] /\ Inodes' = Inodes
          /\ stage[p] = "rename"
      BY <2>2 DEF Rename, Inodes
    <3>. HIDE DEF o
    <3>3. ASSUME NEW h \in Hours, Twice(h) PROVE \E q, r \in renamedBy'[h] : q # r
      BY <1>1, <3>1, <3>2, <3>3 DEF Twice
    <3>4. \A h \in Hours : rotated'[h] # None => renamedBy'[h] # {}
      BY <1>1, <3>1, <3>2 DEF NamesInv
    <3>5. p \notin renamedBy[o]
      <4>1. ASSUME p \in renamedBy[o] PROVE FALSE
        <5>1. o < o
          BY <3>1, <3>2, <4>1 DEF HoursInv, o
        <5>2. o \in Nat
          BY <3>1, FileConstants
        <5>3. QED
          BY <5>1, <5>2
      <4>2. QED
        BY <4>1
    <3>6. ASSUME NEW i \in Inodes', i \notin Named' 
          PROVE  \E h \in Hours : \E q, r \in renamedBy'[h] : q # r
      <4>1. \A h \in Hours : i # rotated'[h]
        BY <3>6 DEF Named
      <4>2. i # live
        BY <1>1, <3>1, <3>2, <4>1
      <4>3. CASE i = rotated[o]
        <5>1. renamedBy[o] # {}
          BY <3>1, <3>2, <3>6, <4>3, NoneIsNoInode DEF NamesInv
        <5>2. PICK q \in renamedBy[o] : q # p
          BY <3>5, <5>1
        <5>3. p \in renamedBy'[o] /\ q \in renamedBy'[o]
          BY <1>1, <3>1, <3>2, <5>2
        <5>4. QED
          BY <3>1, <5>2, <5>3
      <4>4. CASE i # rotated[o]
        <5>1. \A h \in Hours : i # rotated[h]
          BY <1>1, <3>2, <4>1, <4>4
        <5>2. i \notin Named
          BY <4>2, <5>1 DEF Named
        <5>3. QED
          BY <3>2, <3>3, <3>6, <5>2 DEF NamesInv
      <4>5. QED
        BY <4>3, <4>4
    <3>7. QED
      BY <3>2, <3>4, <3>6 DEF NamesInv, Twice
  <2>3. QED
    BY <1>2, <1>4, <2>1, <2>2, NamesMove
<1>5. QED
  BY <1>3, <1>4 DEF FNext, Act

\* What a step of p makes of the hours p has taken.
LEMMA HoursMove ==
    ASSUME FTypeOK, HoursInv, NEW p \in Processes, Act(p)
    PROVE  /\ stage'[p] # "down" => \/ writer'[p].variables = hour
                                    \/ /\ stage[p] # "down"
                                       /\ writer'[p].variables = writer[p].variables
           /\ stage'[p] = "rename" => /\ stage[p] = "run" /\ writer[p].variables # hour
                                      /\ writer'[p].old = writer[p].variables
                                      /\ writer'[p].variables = hour
           /\ \/ renamedBy' = renamedBy
              \/ /\ stage[p] = "rename" /\ stage'[p] = "close" /\ writer' = writer
                 /\ renamedBy' = [renamedBy EXCEPT ![writer[p].old] = @ \cup {p}]
<1>1. /\ writer \in [Processes -> Writers] /\ writer[p] \in Writers
      /\ stage \in [Processes -> {"down", "run", "rename", "close", "create"}]
  BY DEF FTypeOK
<1>2. ASSUME NEW rest, FlushWorks(p, rest) \/ FlushFails(p)
      PROVE writer'[p].variables = writer[p].variables
  BY <1>1, <1>2 DEF FlushWorks, FlushFails, Writers
<1>3. CASE Start(p)
  <2>1. writer'[p].variables = hour
    BY <1>1, <1>3 DEF Start, Open, NewWriter, Writers
  <2>2. QED
    BY <1>1, <1>3, <2>1 DEF Start, history
<1>4. CASE Write(p)
  <2>1. stage' = stage /\ stage[p] = "run" /\ renamedBy' = renamedBy
    BY <1>4 DEF Write
  <2>. DEFINE r == [id |-> written', by |-> p, hour |-> hour, late |-> writer[p].variables # hour]
  <2>2. \/ writer' = writer
        \/ writer' = [writer EXCEPT ![p].buf = Append(@, r), ![p].timing = TRUE]
        \/ FlushWorks(p, <<r>>) \/ FlushFails(p)
    BY <1>4 DEF Write
  <2>. HIDE DEF r
  <2>3. writer'[p].variables = writer[p].variables
    <3>1. CASE writer' = [writer EXCEPT ![p].buf = Append(@, r), ![p].timing = TRUE]
      BY <1>1, <3>1 DEF Writers
    <3>2. QED
      BY <1>2, <2>2, <3>1
  <2>4. QED
    BY <2>1, <2>3
<1>5. CASE FlushFile(p)
  BY <1>2, <1>5 DEF FlushFile
<1>6. Advanced(p).old = writer[p].variables /\ Advanced(p).variables = hour /\ Advanced(p) \in Writers
  BY <1>1 DEF Advanced, OldHour, NewHour, Writers, FTypeOK
<1>7. CASE RotateFlushes(p)
  <2>1. writer'[p].old = writer[p].variables /\ writer'[p].variables = hour
    BY <1>1, <1>6, <1>7 DEF RotateFlushes, Writers
  <2>2. QED
    BY <1>1, <1>7, <2>1 DEF RotateFlushes, Due, history
<1>8. CASE RotateFails(p)
  <2>1. writer'[p].variables = hour
    BY <1>1, <1>6, <1>8 DEF RotateFails, Writers
  <2>2. QED
    BY <1>1, <1>8, <2>1 DEF RotateFails, AfterFailedFlush
<1>9. CASE Rename(p)
  BY <1>1, <1>9 DEF Rename
<1>10. CASE RenameFails(p)
  BY <1>1, <1>10 DEF RenameFails
<1>11. CASE CloseFile(p)
  <2>1. writer'[p].variables = writer[p].variables
    BY <1>1, <1>11 DEF CloseFile, Writers
  <2>2. QED
    BY <1>1, <1>11, <2>1 DEF CloseFile
<1>12. CASE Create(p)
  <2>1. writer'[p].variables = writer[p].variables
    BY <1>1, <1>12 DEF Create, Open, Writers
  <2>2. QED
    BY <1>1, <1>12, <2>1 DEF Create, history
<1>13. CASE CreateFails(p)
  BY <1>1, <1>13 DEF CreateFails
<1>14. CASE Crash(p)
  BY <1>1, <1>14 DEF Crash
<1>15. QED
  BY <1>3, <1>4, <1>5, <1>7, <1>8, <1>9, <1>10, <1>11, <1>12, <1>13, <1>14 DEF Act, Rotate

LEMMA HoursStep == FTypeOK /\ HoursInv /\ [FNext]_fvars => HoursInv'
<1>. SUFFICES ASSUME FTypeOK, HoursInv, [FNext]_fvars PROVE HoursInv'
  OBVIOUS
<1>1. CASE UNCHANGED fvars
  BY <1>1 DEF HoursInv, fvars, history
<1>2. CASE HourPasses
  <2>1. hour \in Nat /\ hour' = hour + 1 /\ UNCHANGED <<stage, writer, renamedBy>>
    BY <1>2, FileConstants DEF HourPasses, history, FTypeOK
  <2>2. \A p \in Processes : writer[p].variables \in Nat
    BY FileConstants DEF FTypeOK, Writers
  <2>3. \A h \in Hours : h \in Nat
    BY FileConstants
  <2>4. QED
    BY <2>1, <2>2, <2>3 DEF HoursInv
<1>3. ASSUME NEW p \in Processes, Act(p) PROVE HoursInv'
  <2>1. /\ hour' = hour
        /\ \A q \in Processes \ {p} : writer'[q] = writer[q] /\ stage'[q] = stage[q]
    BY <1>3, OthersStay
  <2>2. \A q \in Processes : {writer[q].variables, writer[q].old} \subseteq Hours /\ hour \in Hours
    BY DEF FTypeOK, Writers
  <2>3. \A q \in Processes \ {p} : \A h \in Hours : q \in renamedBy'[h] <=> q \in renamedBy[h]
    <3>1. \/ renamedBy' = renamedBy
          \/ renamedBy' = [renamedBy EXCEPT ![writer[p].old] = @ \cup {p}]
      BY <1>3, HoursMove
    <3>2. renamedBy \in [Hours -> SUBSET Processes] /\ writer[p].old \in Hours
      BY <2>2 DEF FTypeOK
    <3>3. QED
      BY <3>1, <3>2
  <2>. DEFINE Fine(q) ==
                /\ stage'[q] # "down" => writer'[q].variables <= hour'
                /\ stage'[q] = "rename" => writer'[q].old < writer'[q].variables
                /\ \A h \in Hours :
                      q \in renamedBy'[h] =>
                          /\ h < hour'
                          /\ stage'[q] # "down" => h < writer'[q].variables
                          /\ stage'[q] = "rename" => h < writer'[q].old
  <2>4. ASSUME NEW q \in Processes \ {p} PROVE Fine(q)
    BY <2>1, <2>3 DEF HoursInv
  <2>5. Fine(p)
    <3>. DEFINE v == writer[p].variables
                o == writer[p].old
                vn == writer'[p].variables
                on == writer'[p].old
    <3>1. v \in Nat /\ o \in Nat /\ hour \in Nat /\ Hours \subseteq Nat
      BY <2>2, FileConstants
    <3>2. /\ stage[p] # "down" => v <= hour
          /\ stage[p] = "rename" => o < v
          /\ \A h \in Hours :
                p \in renamedBy[h] => /\ h < hour
                                      /\ stage[p] # "down" => h < v
                                      /\ stage[p] = "rename" => h < o
      BY DEF HoursInv
    <3>3. /\ stage'[p] # "down" => vn = hour \/ (stage[p] # "down" /\ vn = v)
          /\ stage'[p] = "rename" => stage[p] = "run" /\ v # hour /\ on = v /\ vn = hour
      BY <1>3, HoursMove
    <3>4. \A h \in Hours :
             p \in renamedBy'[h] => \/ p \in renamedBy[h]
                                    \/ /\ h = o /\ stage[p] = "rename" /\ stage'[p] = "close"
                                       /\ vn = v
      BY <1>3, <2>2, HoursMove DEF FTypeOK
    <3>. HIDE DEF v, o, vn, on
    <3>5. stage'[p] # "down" => vn <= hour
      BY <3>1, <3>2, <3>3
    <3>6. stage'[p] = "rename" => on < vn
      BY <3>1, <3>2, <3>3
    <3>7. ASSUME NEW h \in Hours, p \in renamedBy'[h]
          PROVE  /\ h < hour
                 /\ stage'[p] # "down" => h < vn
                 /\ stage'[p] = "rename" => h < on
      <4>1. CASE p \in renamedBy[h]
        BY <3>1, <3>2, <3>3, <4>1
      <4>2. CASE h = o /\ stage[p] = "rename" /\ stage'[p] = "close" /\ vn = v
        BY <3>1, <3>2, <4>2
      <4>3. QED
        BY <3>4, <3>7, <4>1, <4>2
    <3>8. QED
      BY <2>1, <3>5, <3>6, <3>7 DEF v, o, vn, on
  <2>6. QED
    BY <2>4, <2>5 DEF HoursInv
<1>4. QED
  BY <1>1, <1>2, <1>3 DEF FNext, Act

\* Only p writes into p's buffer.
LEMMA BuffersMove ==
    ASSUME FTypeOK, NEW p \in Processes, Act(p)
    PROVE  \/ writer'[p].buf = writer[p].buf
           \/ writer'[p].buf = <<>>
           \/ \E r \in FileRecord :
                 /\ r.by = p /\ r.hour = hour /\ r.late = (writer[p].variables # hour)
                 /\ stage[p] = "run" /\ stage' = stage /\ writer'[p].variables = writer[p].variables
                 /\ \/ writer'[p].buf = Append(writer[p].buf, r)
                    \/ writer'[p].buf = <<r>>
<1>1. /\ writer \in [Processes -> Writers] /\ writer[p] \in Writers
      /\ stage \in [Processes -> {"down", "run", "rename", "close", "create"}]
      /\ writer[p].variables \in Hours /\ hour \in Hours
  BY DEF FTypeOK, Writers
<1>2. ASSUME FlushFails(p) PROVE writer'[p].buf = writer[p].buf
  BY <1>1, <1>2 DEF FlushFails, Writers
<1>3. ASSUME NEW rest, FlushWorks(p, rest)
      PROVE writer'[p].buf = rest /\ writer'[p].variables = writer[p].variables
  BY <1>1, <1>3 DEF FlushWorks, Writers
<1>4. CASE Start(p)
  BY <1>1, <1>4 DEF Start, Open, NewWriter, Writers
<1>5. CASE Write(p)
  <2>1. stage' = stage /\ stage[p] = "run" /\ written' \in 1 .. MaxWritten
    BY <1>5, FileConstants DEF Write, FTypeOK
  <2>. DEFINE r == [id |-> written', by |-> p, hour |-> hour, late |-> writer[p].variables # hour]
  <2>2. \/ writer' = writer
        \/ writer' = [writer EXCEPT ![p].buf = Append(@, r), ![p].timing = TRUE]
        \/ FlushWorks(p, <<r>>) \/ FlushFails(p)
    BY <1>5 DEF Write
  <2>3. /\ r \in FileRecord /\ r.by = p /\ r.hour = hour /\ r.late = (writer[p].variables # hour)
    BY <1>1, <2>1 DEF FileRecord
  <2>. HIDE DEF r
  <2>4. CASE writer' = [writer EXCEPT ![p].buf = Append(@, r), ![p].timing = TRUE]
    <3>1. writer'[p].buf = Append(writer[p].buf, r) /\ writer'[p].variables = writer[p].variables
      BY <1>1, <2>4 DEF Writers
    <3>2. QED
      BY <2>1, <2>3, <3>1
  <2>5. QED
    BY <1>2, <1>3, <2>1, <2>2, <2>3, <2>4
<1>6. CASE FlushFile(p)
  BY <1>2, <1>3, <1>6 DEF FlushFile
<1>7. Advanced(p).buf = writer[p].buf /\ Advanced(p) \in Writers
  BY <1>1 DEF Advanced, OldHour, NewHour, Writers
<1>8. CASE RotateFlushes(p)
  BY <1>1, <1>7, <1>8 DEF RotateFlushes, Writers
<1>9. CASE RotateFails(p)
  BY <1>1, <1>7, <1>9 DEF RotateFails, Writers
<1>10. CASE Rename(p) \/ RenameFails(p) \/ CreateFails(p)
  BY <1>10 DEF Rename, RenameFails, CreateFails
<1>11. CASE CloseFile(p)
  BY <1>1, <1>11 DEF CloseFile, Writers
<1>12. CASE Create(p)
  BY <1>1, <1>12 DEF Create, Open, Writers
<1>13. CASE Crash(p)
  BY <1>1, <1>13 DEF Crash, NewWriter
<1>14. QED
  BY <1>4, <1>5, <1>6, <1>8, <1>9, <1>10, <1>11, <1>12, <1>13 DEF Act, Rotate

LEMMA BuffersStep == FTypeOK /\ BuffersInv /\ [FNext]_fvars => BuffersInv'
<1>. SUFFICES ASSUME FTypeOK, BuffersInv, [FNext]_fvars PROVE BuffersInv'
  OBVIOUS
<1>1. CASE UNCHANGED fvars \/ HourPasses
  BY <1>1 DEF BuffersInv, fvars, HourPasses
<1>2. ASSUME NEW p \in Processes, Act(p) PROVE BuffersInv'
  <2>. DEFINE b == writer[p].buf
              bn == writer'[p].buf
  <2>1. b \in Seq(FileRecord)
    BY DEF FTypeOK, Writers
  <2>2. \A n \in DOMAIN b : b[n].by = p
    BY DEF BuffersInv
  <2>3. \/ bn = b \/ bn = <<>>
        \/ \E r \in FileRecord : r.by = p /\ (bn = Append(b, r) \/ bn = <<r>>)
    BY <1>2, BuffersMove
  <2>4. \A q \in Processes \ {p} : writer'[q] = writer[q]
    BY <1>2, OthersStay
  <2>. HIDE DEF b, bn
  <2>5. \A n \in DOMAIN bn : bn[n].by = p
    BY <2>1, <2>2, <2>3
  <2>6. QED
    BY <2>4, <2>5 DEF BuffersInv, bn
<1>3. QED
  BY <1>1, <1>2 DEF FNext, Act

LEMMA OursJoin ==
    ASSUME NEW s \in Seq(FileRecord), NEW t \in Seq(FileRecord), NEW p, NEW h
    PROVE  /\ Ours(s, p, h) /\ Ours(t, p, h) => Ours(s \o t, p, h)
           /\ NoneOf(s, p) /\ NoneOf(t, p) => NoneOf(s \o t, p)
<1>1. \A n \in DOMAIN (s \o t) : \/ n \in DOMAIN s /\ (s \o t)[n] = s[n]
                                 \/ n - Len(s) \in DOMAIN t /\ (s \o t)[n] = t[n - Len(s)]
  OBVIOUS
<1>2. QED
  BY <1>1 DEF Ours, NoneOf

LEMMA OursAppend ==
    ASSUME NEW s \in Seq(FileRecord), NEW r \in FileRecord, NEW p, NEW h,
           r.late \/ r.hour = h
    PROVE  /\ Ours(s, p, h) => Ours(Append(s, r), p, h)
           /\ Ours(<<r>>, p, h)
<1>1. \A n \in DOMAIN Append(s, r) : \/ n \in DOMAIN s /\ Append(s, r)[n] = s[n]
                                     \/ Append(s, r)[n] = r
  OBVIOUS
<1>2. QED
  BY <1>1 DEF Ours

\* What a step of p does to the contents and the names.
LEMMA ContentsMove ==
    ASSUME FTypeOK, NEW p \in Processes, Act(p)
    PROVE  /\ Inodes \subseteq Inodes'
           /\ \A i \in Inodes' \ Inodes : content'[i] = <<>>
           /\ \A i \in Inodes : \/ content'[i] = content[i]
                                \/ content'[i] = content[i] \o writer[p].buf
           /\ live' = live \/ live' = None \/ live' \in Inodes' \ Inodes
           /\ troubled \subseteq troubled'
<1>1. ASSUME content' = content PROVE Inodes' = Inodes
  BY <1>1 DEF Inodes
<1>2. ASSUME NEW rest, FlushWorks(p, rest)
      PROVE  /\ Inodes' = Inodes /\ troubled' = troubled
             /\ \A i \in Inodes : \/ content'[i] = content[i]
                                  \/ content'[i] = content[i] \o writer[p].buf
  BY <1>2, FlushedTypes DEF FlushWorks, NoFault, Inodes
<1>3. ASSUME FlushFails(p) PROVE content' = content /\ troubled \subseteq troubled'
  BY <1>3 DEF FlushFails, NoFault, Fail
<1>4. writer[p] \in Writers /\ hour \in Hours
  BY DEF FTypeOK
<1>5. ASSUME NEW fields \in Writers, Open(p, fields)
      PROVE  /\ Inodes \subseteq Inodes'
             /\ \A i \in Inodes' \ Inodes : content'[i] = <<>>
             /\ \A i \in Inodes : content'[i] = content[i]
             /\ live' = live \/ live' \in Inodes' \ Inodes
  BY <1>5, OpenTypes
<1>6. CASE Start(p)
  <2>1. NewWriter(None, hour) \in Writers
    BY <1>4, FileConstants DEF NewWriter, Writers, None
  <2>2. QED
    BY <1>5, <1>6, <2>1 DEF Start, history
<1>7. CASE Write(p)
  BY <1>1, <1>2, <1>3, <1>7 DEF Write, NoFault
<1>8. CASE FlushFile(p)
  BY <1>1, <1>2, <1>3, <1>8 DEF FlushFile
<1>9. CASE RotateFlushes(p)
  <2>1. Inodes' = Inodes /\ \A i \in Inodes : \/ content'[i] = content[i]
                                              \/ content'[i] = content[i] \o writer[p].buf
    <3>1. CASE writer[p].buf = <<>>
      BY <1>1, <1>9, <3>1 DEF RotateFlushes, BeforeRotation
    <3>2. CASE writer[p].buf # <<>>
      BY <1>9, <3>2, FlushedTypes DEF RotateFlushes, BeforeRotation, Inodes
    <3>3. QED
      BY <3>1, <3>2
  <2>2. QED
    BY <1>9, <2>1 DEF RotateFlushes, history
<1>10. CASE RotateFails(p) \/ RenameFails(p) \/ CloseFile(p) \/ CreateFails(p) \/ Crash(p) \/ Rename(p)
  BY <1>1, <1>10 DEF RotateFails, RenameFails, CloseFile, CreateFails, Crash, Rename, directory,
                     NoFault, Fail
<1>11. CASE Create(p)
  <2>1. [writer[p] EXCEPT !.failed = FALSE, !.buf = <<>>] \in Writers
    BY <1>4, FileConstants DEF Writers
  <2>2. QED
    BY <1>5, <1>11, <2>1 DEF Create, history
<1>12. QED
  BY <1>6, <1>7, <1>8, <1>9, <1>10, <1>11 DEF Act, Rotate

\* A step of p leaves q's records where they are and adds none of q.
LEMMA FilesOfOther ==
    ASSUME FTypeOK, BuffersInv, NEW p \in Processes, Act(p), NEW q \in Processes, q # p, FilesOf(q)
    PROVE  FilesOf(q)'
<1>1. writer'[q] = writer[q] /\ stage'[q] = stage[q]
  BY OthersStay
<1>2. /\ Inodes \subseteq Inodes'
      /\ \A i \in Inodes' \ Inodes : content'[i] = <<>>
      /\ \A i \in Inodes : \/ content'[i] = content[i]
                           \/ content'[i] = content[i] \o writer[p].buf
      /\ live' = live \/ live' = None \/ live' \in Inodes' \ Inodes
  BY ContentsMove
<1>3. /\ live \in {None} \cup Inodes /\ rotated \in [Hours -> {None} \cup Inodes]
      /\ renamedBy \in [Hours -> SUBSET Processes]
      /\ \A i \in Inodes : content[i] \in Seq(FileRecord)
      /\ writer[p].buf \in Seq(FileRecord) /\ writer[p].old \in Hours
  BY DEF FTypeOK, Inodes, Writers
<1>4. \A n \in DOMAIN writer[p].buf : writer[p].buf[n].by = p
  BY DEF BuffersInv
<1>5. ASSUME NEW i \in Inodes, NEW h
      PROVE  /\ Ours(content[i], q, h) => Ours(content'[i], q, h)
             /\ NoneOf(content[i], q) => NoneOf(content'[i], q)
  <2>1. Ours(writer[p].buf, q, h) /\ NoneOf(writer[p].buf, q)
    BY <1>4 DEF Ours, NoneOf
  <2>2. QED
    BY <1>2, <1>3, <2>1, OursJoin
<1>6. \A i \in Inodes' \ Inodes : NoneOf(content'[i], q) /\ \A h : Ours(content'[i], q, h)
  BY <1>2 DEF NoneOf, Ours
<1>7. \A h \in Hours : \/ rotated'[h] = rotated[h] /\ renamedBy'[h] = renamedBy[h]
                       \/ p \in renamedBy'[h]
  <2>1. \/ rotated' = rotated /\ renamedBy' = renamedBy
        \/ Rename(p)
    BY NamesMove DEF Open
  <2>2. ASSUME Rename(p), NEW h \in Hours
        PROVE  \/ rotated'[h] = rotated[h] /\ renamedBy'[h] = renamedBy[h]
               \/ p \in renamedBy'[h]
    BY <1>3, <2>2 DEF Rename
  <2>3. QED
    BY <2>1, <2>2
<1>8. FaultlessWriter(q)'
  BY <1>1, <1>7 DEF FilesOf, FaultlessWriter, InUse
<1>9. LiveHasOwnHour(q)'
  <2>1. CASE live' = live
    BY <1>1, <1>3, <1>5, <2>1 DEF FilesOf, LiveHasOwnHour, InUse
  <2>2. CASE live' = None
    BY <2>2 DEF LiveHasOwnHour
  <2>3. CASE live' \in Inodes' \ Inodes
    BY <1>6, <2>3 DEF LiveHasOwnHour
  <2>4. QED
    BY <1>2, <2>1, <2>2, <2>3
<1>10. stage'[q] = "down" => \A i \in Inodes' : NoneOf(content'[i], q)
  BY <1>1, <1>5, <1>6 DEF FilesOf
<1>11. ASSUME NEW h \in Hours, rotated'[h] # None, renamedBy'[h] = {q}
       PROVE  Ours(content'[rotated'[h]], q, h)
  <2>1. rotated'[h] = rotated[h] /\ renamedBy[h] = {q}
    BY <1>7, <1>11
  <2>2. Ours(content[rotated[h]], q, h) /\ rotated[h] \in Inodes
    BY <1>3, <1>11, <2>1 DEF FilesOf
  <2>3. QED
    BY <1>5, <2>1, <2>2
<1>12. QED
  BY <1>8, <1>9, <1>10, <1>11 DEF FilesOf

\* A flush of p's own records: all of them are of its hour.
LEMMA OwnFlush ==
    ASSUME FTypeOK, NEW p \in Processes, FilesOf(p), stage[p] = "run",
           content' = Flushed(p), live' = live, rotated' = rotated, renamedBy' = renamedBy
    PROVE  /\ live # None => Ours(content'[live], p, writer[p].variables)
           /\ \A h \in Hours : rotated[h] # None /\ renamedBy[h] = {p} => Ours(content'[rotated[h]], p, h)
<1>. DEFINE f == writer[p].file
            v == writer[p].variables
<1>1. f # None /\ Ours(writer[p].buf, p, v)
  BY DEF FilesOf, FaultlessWriter
<1>2. /\ f \in Inodes /\ content'[f] = content[f] \o writer[p].buf
      /\ \A i \in Inodes : i # f => content'[i] = content[i]
  BY <1>1, FlushedTypes
<1>3. /\ live \in {None} \cup Inodes /\ rotated \in [Hours -> {None} \cup Inodes]
      /\ content[f] \in Seq(FileRecord) /\ writer[p].buf \in Seq(FileRecord)
  BY <1>2 DEF FTypeOK, Inodes, Writers
<1>4. ASSUME live # None PROVE Ours(content'[live], p, v)
  <2>1. Ours(content[live], p, v) /\ live \in Inodes
    BY <1>3, <1>4 DEF FilesOf, LiveHasOwnHour
  <2>2. QED
    BY <1>1, <1>2, <1>3, <2>1, OursJoin
<1>5. ASSUME NEW h \in Hours, rotated[h] # None, renamedBy[h] = {p}
      PROVE  Ours(content'[rotated[h]], p, h)
  <2>1. rotated[h] # f /\ rotated[h] \in Inodes
    BY <1>3, <1>5 DEF FilesOf, FaultlessWriter, InUse
  <2>2. QED
    BY <1>2, <1>5, <2>1 DEF FilesOf
<1>6. QED
  BY <1>4, <1>5

\* A file p opens has no record of p, or none at all.
LEMMA OwnOpen ==
    ASSUME FTypeOK, NamesInv, NamesInv', NEW p \in Processes, FilesOf(p), stage[p] \notin InUse,
           NEW fields \in Writers, Open(p, fields), renamedBy' = renamedBy,
           fields.buf = <<>>, ~fields.failed, stage'[p] = "run"
    PROVE  FilesOf(p)'
<1>1. /\ content' \in Seq(Seq(FileRecord)) /\ Inodes \subseteq Inodes'
      /\ live' \in Inodes' /\ live' # None /\ rotated' = rotated
      /\ \A i \in Inodes : content'[i] = content[i]
      /\ \A i \in Inodes' \ Inodes : content'[i] = <<>>
      /\ live' = live \/ live' \in Inodes' \ Inodes
      /\ writer' = [writer EXCEPT ![p] = [fields EXCEPT !.file = live']]
  BY OpenTypes
<1>2. /\ live \in {None} \cup Inodes /\ rotated \in [Hours -> {None} \cup Inodes]
      /\ writer \in [Processes -> Writers]
  BY DEF FTypeOK
<1>3. writer'[p].file = live' /\ writer'[p].buf = <<>> /\ ~writer'[p].failed
  BY <1>1, <1>2 DEF Writers
<1>4. NoneOf(content'[live'], p)
  <2>1. CASE live' = live
    <3>1. live # None
      BY <1>1, <2>1
    <3>2. live \in Inodes /\ NoneOf(content[live], p)
      BY <1>2, <3>1 DEF FilesOf, LiveHasOwnHour
    <3>3. QED
      BY <1>1, <2>1, <3>2
  <2>2. CASE live' \in Inodes' \ Inodes
    BY <1>1, <2>2 DEF NoneOf
  <2>3. QED
    BY <1>1, <2>1, <2>2
<1>5. \A h \in Hours : rotated'[h] # live'
  BY <1>1 DEF NamesInv
<1>6. FaultlessWriter(p)'
  BY <1>1, <1>3, <1>5 DEF FaultlessWriter, InUse, Ours
<1>7. LiveHasOwnHour(p)'
  BY <1>4 DEF LiveHasOwnHour, InUse, NoneOf, Ours
<1>8. ASSUME NEW h \in Hours, rotated'[h] # None, renamedBy'[h] = {p}
      PROVE  Ours(content'[rotated'[h]], p, h)
  <2>1. rotated[h] \in Inodes /\ Ours(content[rotated[h]], p, h)
    BY <1>1, <1>2, <1>8 DEF FilesOf
  <2>2. QED
    BY <1>1, <2>1
<1>9. QED
  BY <1>6, <1>7, <1>8 DEF FilesOf

\* A process in its own step, without trouble.
LEMMA FilesOfSelf ==
    ASSUME FTypeOK, NamesInv, NamesInv', BuffersInv, NEW p \in Processes, Act(p), FilesOf(p),
           p \notin troubled'
    PROVE  FilesOf(p)'
<1>1. /\ writer \in [Processes -> Writers] /\ writer[p] \in Writers
      /\ stage \in [Processes -> {"down", "run", "rename", "close", "create"}]
      /\ live \in {None} \cup Inodes /\ rotated \in [Hours -> {None} \cup Inodes]
      /\ renamedBy \in [Hours -> SUBSET Processes]
      /\ hour \in Hours /\ writer[p].old \in Hours /\ writer[p].buf \in Seq(FileRecord)
      /\ troubled \subseteq Processes
  BY DEF FTypeOK, Writers
<1>2. /\ ~writer[p].failed
      /\ stage[p] \in {"run", "rename", "close"} => writer[p].file # None
      /\ stage[p] # "run" => writer[p].buf = <<>>
      /\ stage[p] = "run" => Ours(writer[p].buf, p, writer[p].variables)
  BY DEF FilesOf, FaultlessWriter
<1>3. ~Fail(p)
  BY <1>1 DEF Fail
<1>4. stage[p] = "run" => ~FlushFails(p)
  BY <1>2, <1>3 DEF FlushFails
<1>5. CASE Start(p)
  <2>1. NewWriter(None, hour) \in Writers /\ NewWriter(None, hour).buf = <<>> /\ ~NewWriter(None, hour).failed
    BY <1>1, FileConstants DEF NewWriter, Writers, None
  <2>2. Open(p, NewWriter(None, hour)) /\ renamedBy' = renamedBy /\ stage[p] \notin InUse /\ stage'[p] = "run"
    BY <1>1, <1>5 DEF Start, history, InUse
  <2>3. QED
    BY <2>1, <2>2, OwnOpen
\* Writes and flushes of the buffer.
<1>6. ASSUME stage[p] = "run", stage' = stage, live' = live, rotated' = rotated, renamedBy' = renamedBy,
             content' = content \/ content' = Flushed(p),
             writer'[p].file = writer[p].file, writer'[p].variables = writer[p].variables,
             ~writer'[p].failed, Ours(writer'[p].buf, p, writer[p].variables)
      PROVE  FilesOf(p)'
  <2>1. /\ live # None => Ours(content'[live], p, writer[p].variables)
        /\ \A h \in Hours : rotated[h] # None /\ renamedBy[h] = {p} => Ours(content'[rotated[h]], p, h)
    <3>1. CASE content' = content
      BY <1>6, <3>1 DEF FilesOf, LiveHasOwnHour
    <3>2. CASE content' = Flushed(p)
      BY <1>6, <3>2, OwnFlush
    <3>3. QED
      BY <1>6, <3>1, <3>2
  <2>2. FaultlessWriter(p)'
    BY <1>6 DEF FilesOf, FaultlessWriter
  <2>3. LiveHasOwnHour(p)'
    BY <1>6, <2>1 DEF LiveHasOwnHour, InUse
  <2>4. QED
    BY <1>6, <2>1, <2>2, <2>3 DEF FilesOf
<1>7. ASSUME NEW rest, FlushWorks(p, rest)
      PROVE  /\ content' = Flushed(p) /\ writer'[p].file = writer[p].file
             /\ writer'[p].variables = writer[p].variables
             /\ ~writer'[p].failed /\ writer'[p].buf = rest
  BY <1>1, <1>7 DEF FlushWorks, Writers
<1>8. CASE Write(p)
  <2>1. stage[p] = "run" /\ written' \in 1 .. MaxWritten
    BY <1>8, FileConstants DEF Write, FTypeOK
  <2>. DEFINE r == [id |-> written', by |-> p, hour |-> hour, late |-> writer[p].variables # hour]
  <2>2. \/ /\ writer' = [writer EXCEPT ![p].buf = Append(@, r), ![p].timing = TRUE]
           /\ UNCHANGED content
        \/ FlushWorks(p, <<r>>)
    BY <1>2, <1>4, <1>8, <2>1 DEF Write
  <2>3. r \in FileRecord /\ (r.late \/ r.hour = writer[p].variables)
    BY <1>1, <2>1 DEF FileRecord
  <2>. HIDE DEF r
  <2>4. /\ Ours(Append(writer[p].buf, r), p, writer[p].variables)
        /\ Ours(<<r>>, p, writer[p].variables)
    BY <1>1, <1>2, <2>1, <2>3, OursAppend
  <2>5. stage' = stage /\ live' = live /\ rotated' = rotated /\ renamedBy' = renamedBy
    BY <1>8 DEF Write
  <2>6. CASE /\ writer' = [writer EXCEPT ![p].buf = Append(@, r), ![p].timing = TRUE]
             /\ UNCHANGED content
    <3>1. /\ writer'[p].file = writer[p].file /\ writer'[p].variables = writer[p].variables
          /\ writer'[p].failed = writer[p].failed /\ writer'[p].buf = Append(writer[p].buf, r)
      BY <1>1, <2>6 DEF Writers
    <3>2. QED
      BY <1>2, <1>6, <2>1, <2>4, <2>5, <2>6, <3>1
  <2>7. CASE FlushWorks(p, <<r>>)
    BY <1>6, <1>7, <2>1, <2>4, <2>5, <2>7
  <2>8. QED
    BY <2>2, <2>6, <2>7
<1>9. CASE FlushFile(p)
  <2>1. /\ FlushWorks(p, <<>>) /\ stage[p] = "run"
        /\ stage' = stage /\ live' = live /\ rotated' = rotated /\ renamedBy' = renamedBy
    BY <1>4, <1>9 DEF FlushFile
  <2>2. Ours(<<>>, p, writer[p].variables)
    BY DEF Ours
  <2>3. QED
    BY <1>6, <1>7, <2>1, <2>2
<1>10. CASE RotateFlushes(p)
  <2>1. Advanced(p).old = writer[p].variables /\ Advanced(p).file = writer[p].file
        /\ ~Advanced(p).failed /\ Advanced(p) \in Writers
    BY <1>1, <1>2 DEF Advanced, OldHour, NewHour, Writers
  <2>2. /\ writer'[p].old = writer[p].variables /\ writer'[p].file = writer[p].file
        /\ ~writer'[p].failed /\ writer'[p].buf = <<>>
    BY <1>1, <1>10, <2>1 DEF RotateFlushes, Writers
  <2>3. /\ stage[p] = "run" /\ stage'[p] = "rename" /\ live' = live /\ rotated' = rotated
        /\ renamedBy' = renamedBy /\ (content' = content \/ content' = Flushed(p))
    BY <1>1, <1>10 DEF RotateFlushes, BeforeRotation, history
  <2>4. /\ live # None => Ours(content'[live], p, writer[p].variables)
        /\ \A h \in Hours : rotated[h] # None /\ renamedBy[h] = {p} => Ours(content'[rotated[h]], p, h)
    <3>1. CASE content' = content
      BY <2>3, <3>1 DEF FilesOf, LiveHasOwnHour
    <3>2. CASE content' = Flushed(p)
      BY <2>3, <3>2, OwnFlush
    <3>3. QED
      BY <2>3, <3>1, <3>2
  <2>5. FaultlessWriter(p)'
    BY <2>2, <2>3 DEF FilesOf, FaultlessWriter, InUse
  <2>6. LiveHasOwnHour(p)'
    BY <2>2, <2>3, <2>4 DEF LiveHasOwnHour, InUse
  <2>7. QED
    BY <2>3, <2>4, <2>5, <2>6 DEF FilesOf
<1>11. CASE RotateFails(p)
  BY <1>2, <1>3, <1>11 DEF RotateFails
<1>12. CASE Rename(p)
  <2>. DEFINE o == writer[p].old
  <2>1. /\ stage[p] = "rename" /\ live # None /\ live' = None /\ rotated' = [rotated EXCEPT ![o] = live]
        /\ renamedBy' = [renamedBy EXCEPT ![o] = @ \cup {p}] /\ stage'[p] = "close"
        /\ content' = content /\ writer' = writer
    BY <1>1, <1>12 DEF Rename
  <2>2. Ours(content[live], p, o)
    BY <2>1 DEF FilesOf, LiveHasOwnHour
  <2>. HIDE DEF o
  <2>3. FaultlessWriter(p)'
    BY <1>2, <2>1 DEF FaultlessWriter, InUse
  <2>4. LiveHasOwnHour(p)'
    BY <2>1 DEF LiveHasOwnHour
  <2>5. ASSUME NEW h \in Hours, rotated'[h] # None, renamedBy'[h] = {p}
        PROVE  Ours(content'[rotated'[h]], p, h)
    <3>1. CASE h = o
      BY <1>1, <2>1, <2>2, <2>5, <3>1
    <3>2. CASE h # o
      <4>1. rotated'[h] = rotated[h] /\ renamedBy[h] = {p}
        BY <1>1, <2>1, <2>5, <3>2
      <4>2. QED
        BY <2>1, <2>5, <4>1 DEF FilesOf
    <3>3. QED
      BY <3>1, <3>2
  <2>6. QED
    BY <2>1, <2>3, <2>4, <2>5 DEF FilesOf
<1>13. CASE RenameFails(p)
  BY <1>3, <1>13 DEF RenameFails
<1>14. CASE CloseFile(p)
  <2>1. /\ stage[p] = "close" /\ stage'[p] = "create" /\ writer' = [writer EXCEPT ![p].file = None]
        /\ live' = live /\ rotated' = rotated /\ content' = content /\ renamedBy' = renamedBy
    BY <1>1, <1>2, <1>3, <1>14 DEF CloseFile, directory
  <2>2. writer'[p].buf = writer[p].buf /\ writer'[p].failed = writer[p].failed
    BY <1>1, <2>1 DEF Writers
  <2>3. FaultlessWriter(p)'
    BY <1>2, <2>1, <2>2 DEF FaultlessWriter, InUse
  <2>4. LiveHasOwnHour(p)'
    BY <2>1 DEF FilesOf, LiveHasOwnHour, InUse
  <2>5. QED
    BY <2>1, <2>3, <2>4 DEF FilesOf
<1>15. CASE Create(p)
  <2>. DEFINE fields == [writer[p] EXCEPT !.failed = FALSE, !.buf = <<>>]
  <2>1. fields \in Writers /\ fields.buf = <<>> /\ ~fields.failed
    BY <1>1, FileConstants DEF Writers
  <2>2. Open(p, fields) /\ renamedBy' = renamedBy /\ stage[p] \notin InUse /\ stage'[p] = "run"
    BY <1>1, <1>15 DEF Create, history, InUse
  <2>. HIDE DEF fields
  <2>3. QED
    BY <2>1, <2>2, OwnOpen
<1>16. CASE CreateFails(p)
  BY <1>3, <1>16 DEF CreateFails
<1>17. CASE Crash(p)
  BY <1>17 DEF Crash
<1>18. QED
  BY <1>5, <1>8, <1>9, <1>10, <1>11, <1>12, <1>13, <1>14, <1>15, <1>16, <1>17 DEF Act, Rotate

LEMMA FilesStep ==
    FTypeOK /\ NamesInv /\ NamesInv' /\ BuffersInv /\ FilesInv /\ [FNext]_fvars => FilesInv'
<1>. SUFFICES ASSUME FTypeOK, NamesInv, NamesInv', BuffersInv, FilesInv, [FNext]_fvars
              PROVE  FilesInv'
  OBVIOUS
<1>1. \A q \in Processes \ troubled : FilesOf(q)
  BY DEF FilesInv, FilesOf
<1>2. CASE UNCHANGED fvars \/ HourPasses
  <2>1. UNCHANGED <<live, rotated, content, stage, writer, renamedBy, troubled>>
    BY <1>2 DEF fvars, HourPasses, directory, history
  <2>2. QED
    BY <2>1 DEF FilesInv, FilesOf, FaultlessWriter, LiveHasOwnHour, Inodes
<1>3. ASSUME NEW p \in Processes, Act(p) PROVE FilesInv'
  <2>1. ASSUME NEW q \in Processes, q \notin troubled' PROVE FilesOf(q)'
    <3>1. FilesOf(q)
      BY <1>1, <1>3, <2>1, ContentsMove
    <3>2. CASE q = p
      BY <1>3, <2>1, <3>1, <3>2, FilesOfSelf
    <3>3. CASE q # p
      BY <1>3, <3>1, <3>3, FilesOfOther
    <3>4. QED
      BY <3>2, <3>3
  <2>2. QED
    BY <2>1 DEF FilesInv, FilesOf
<1>4. QED
  BY <1>2, <1>3 DEF FNext, Act

LEMMA FileInit == FInit => FInv
<1>. SUFFICES ASSUME FInit PROVE FInv
  OBVIOUS
<1>1. FTypeOK
  BY FileConstants DEF FInit, FTypeOK, NewWriter, Writers, Inodes, None
<1>2. NamesInv
  BY DEF FInit, NamesInv, Inodes
<1>3. HoursInv /\ BuffersInv
  BY DEF FInit, HoursInv, BuffersInv, NewWriter
<1>4. FilesInv
  BY DEF FInit, FilesInv, FilesOf, FaultlessWriter, LiveHasOwnHour, InUse, NewWriter, Inodes
<1>5. QED
  BY <1>1, <1>2, <1>3, <1>4 DEF FInv

LEMMA FileInductive == FSpec => []FInv
<1>1. FInv /\ [FNext]_fvars => FInv'
  BY FileTypeStep, NamesStep, HoursStep, BuffersStep, FilesStep DEF FInv
<1>2. QED
  BY FileInit, <1>1, PTL DEF FSpec

\* Every field of the file writers, the directory and the files keeps its type.
THEOREM FileTypesCorrect == FSpec => []FTypeOK
<1>1. FInv => FTypeOK
  BY DEF FInv
<1>2. QED
  BY <1>1, FileInductive, PTL

\* Whatever fails, restarts or rotates, a file with records loses its last name
\* only to a rename to an hour to which another process had renamed:
\* file_writer.go:150-161.
THEOREM OnlySecondRenamesLose == FSpec => []LostToSecondRename
<1>1. FInv => LostToSecondRename
  <2>. SUFFICES ASSUME FInv PROVE LostToSecondRename
    OBVIOUS
  <2>1. ASSUME NEW i \in Inodes \ Named PROVE \E h \in Hours : TwoRenamed(h)
    <3>1. PICK h \in Hours : Twice(h)
      BY <2>1 DEF FInv, NamesInv
    <3>2. PICK p \in renamedBy[h], q \in renamedBy[h] : p # q
      BY <3>1 DEF Twice
    <3>3. renamedBy[h] \subseteq Processes
      BY DEF FInv, FTypeOK
    <3>4. IsFiniteSet(renamedBy[h])
      BY <3>3, FileWriterAssumption, FS_Subset
    <3>5. Cardinality({p, q}) <= Cardinality(renamedBy[h]) /\ Cardinality(renamedBy[h]) \in Nat
      BY <3>2, <3>4, FS_Subset, FS_CardinalityType
    <3>6. Cardinality({p, q}) = 2
      <4>1. {p, q} = {p} \cup {q} /\ q \notin {p}
        BY <3>2
      <4>2. Cardinality({p}) = 1 /\ IsFiniteSet({p})
        BY FS_Singleton
      <4>3. Cardinality({p} \cup {q}) = Cardinality({p}) + 1
        BY <4>1, <4>2, FS_AddElement
      <4>4. QED
        BY <4>1, <4>2, <4>3
    <3>7. Cardinality(renamedBy[h]) > 1
      BY <3>5, <3>6
    <3>8. QED
      BY <3>7 DEF TwoRenamed
  <2>2. QED
    BY <2>1 DEF LostToSecondRename
<1>2. QED
  BY <1>1, FileInductive, PTL

\* The file of an hour holds the records of that hour, and late ones, of every
\* process that had no trouble and renamed it alone: file_writer.go:123-164.
THEOREM HoursOfFiles == FSpec => []FiledUnderItsHour
<1>1. FInv => FiledUnderItsHour
  <2>. SUFFICES ASSUME FInv, NEW h \in Hours, rotated[h] # None, NEW n \in DOMAIN content[rotated[h]]
                PROVE  LET r == content[rotated[h]][n] IN
                           \/ r.hour = h \/ r.late
                           \/ r.by \in troubled \/ renamedBy[h] # {r.by}
    BY DEF FiledUnderItsHour
  <2>. DEFINE r == content[rotated[h]][n]
  <2>1. r.by \in Processes
    <3>1. rotated[h] \in Inodes /\ content \in Seq(Seq(FileRecord))
      BY DEF FInv, FTypeOK
    <3>2. content[rotated[h]] \in Seq(FileRecord)
      BY <3>1 DEF Inodes
    <3>3. r \in FileRecord
      BY <3>2
    <3>4. QED
      BY <3>3 DEF FileRecord
  <2>2. ASSUME r.by \notin troubled, renamedBy[h] = {r.by} PROVE r.hour = h \/ r.late
    <3>1. Ours(content[rotated[h]], r.by, h)
      BY <2>1, <2>2 DEF FInv, FilesInv, FilesOf
    <3>2. QED
      BY <3>1 DEF Ours
  <2>3. QED
    BY <2>2
<1>2. QED
  BY <1>1, FileInductive, PTL
=============================================================================
