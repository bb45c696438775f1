-------------------------- MODULE LifecycleProofs --------------------------
(***************************************************************************)
(* Proofs about Lifecycle for every set of services, whatever LoadOnce     *)
(* finds of them, and any number of open requests.                         *)
(*                                                                         *)
(* The argument: a goroutine whose append met no other one is in its list  *)
(* for ever, at the place that follows what it read, so that no server is  *)
(* in a list twice.  A stop therefore finds every server that was up in    *)
(* the list it goes through, and finds it serving: its listener is open    *)
(* until the stop closes it, and it does not return before.                *)
(***************************************************************************)
EXTENDS Lifecycle, TLAPS

\* The goroutines whose append has stored its list.
Past == {"listed", "checked", "listening", "serving", "returned"}

\* What runs before the signal, and in which of the two programs.
StartInv ==
    /\ main \in {"init", "load"} => \A p \in Programs : pc[p] = "off"
    /\ endpoint = "dashboard" =>
         /\ main \in {"init", "wait", "dashboard", "return", "panic"} /\ services = {}
         /\ \A p \in Programs \ {"dashboard"} : pc[p] = "off"
    /\ endpoint = "server" => main # "dashboard" /\ pc["dashboard"] = "off"
    /\ \A s \in Servers : pc[s] # "off" => s \in services
    /\ \A p \in Programs : pc[p] = "off" => active[p] = 0

\* A server that was up when the signal came is up or has returned.
SignalInv ==
    /\ main \in {"init", "load", "wait"} => upAtSignal = {}
    /\ main \in {"init", "load", "wait", "signalled"} => done = {}
    /\ \A p \in upAtSignal : pc[p] \in {"serving", "returned"}

\* A list of the servers of kind k, each at the place after what its append
\* had read.
Placed(k, l) ==
    \A i \in DOMAIN l :
        /\ ListOf(l[i]) = k
        /\ pc[l[i]] \in Past
        /\ Len(read[l[i]]) = i - 1

\* The lists have every server whose append was not overlapped.
ListInv ==
    /\ \A k \in {"tcp", "grpc"} : Placed(k, list[k])
    /\ \A s \in Servers : Placed(ListOf(s), read[s])
    /\ \A s \in Servers : pc[s] \in Past /\ s \notin overlapped => s \in Range(list[ListOf(s)])

\* TcpServer.Close is through with s, or has panicked half way.
IsClosed(s) == s \in done /\ ~ (main = "listener" /\ s = Head(todo))

\* What TcpServerStop and GrpcServerStop have still to close.
TodoInv ==
    /\ main \in {"tcp", "doneChan", "listener"} =>
         \A i \in DOMAIN todo :
            /\ todo[i] \in TcpServices /\ pc[todo[i]] \in Past
            /\ \A j \in DOMAIN todo : i # j => todo[i] # todo[j]
            /\ todo[i] \in done <=> main = "listener" /\ i = 1
    /\ main \in {"doneChan", "listener"} => todo # <<>>
    /\ main = "grpc" => \A i \in DOMAIN todo : todo[i] \in GrpcServices

\* A TCP server that listens does so until Close is through with it.
ListenInv ==
    \A s \in TcpServices :
        /\ pc[s] \in {"listening", "serving"} => s \in open \/ IsClosed(s)
        /\ pc[s] = "returned" /\ s \in upAtSignal => IsClosed(s)

AfterTcp  == {"tcp stopped", "grpc", "http", "https", "return"}
AfterGrpc == {"http", "https", "return"}

\* The stops reach every server that was up and is in the list.
ReachInv ==
    /\ main \in {"tcp", "doneChan", "listener"} =>
         \A s \in (TcpServices \cap upAtSignal) \ overlapped : s \in Range(todo) \/ s \notin open
    /\ StopClosesListeners
    /\ main = "grpc" =>
         \A s \in (GrpcServices \cap upAtSignal) \ overlapped :
            s \in Range(todo) \/ (s \in shut /\ active[s] = 0)
    /\ main \in AfterGrpc =>
         \A s \in (GrpcServices \cap upAtSignal) \ overlapped : s \in shut /\ active[s] = 0

\* The two HTTP servers are drained one after the other.
WebInv ==
    /\ endpoint = "server" /\ main \in {"https", "return"} =>
         "http" \in shut /\ (active["http"] = 0 \/ "http" \in timedOut)
    /\ endpoint = "server" /\ main = "return" => "https" \in shut /\ active["https"] = 0

\* How the process may end.
Cause == listenFailed \/ ~ CompletelyUp \/ "https" \in timedOut

ExitInv ==
    /\ endpoint = "server" /\ (main = "panic" \/ exit \in {"panicked", "fatal"}) => Cause
    /\ exit = "returned" => main = "return"

IInv == /\ TypeOK /\ StartInv /\ SignalInv /\ ListInv /\ TodoInv /\ ListenInv
        /\ ReachInv /\ WebInv /\ ExitInv

-----------------------------------------------------------------------------
(* Facts about the names, the lists and the steps.                         *)

LEMMA Names ==
    /\ TcpServices \subseteq Programs /\ GrpcServices \subseteq Programs /\ Web \subseteq Programs
    /\ "http" \in Programs /\ "https" \in Programs /\ "dashboard" \in Programs
    /\ \A s \in Servers : s \in Programs /\ s \notin Web /\ s # "dashboard"
    /\ \A s \in TcpServices : s \in Servers /\ s \notin GrpcServices /\ ListOf(s) = "tcp"
    /\ \A s \in GrpcServices : s \in Servers /\ s \notin TcpServices /\ ListOf(s) = "grpc"
    /\ \A s \in Servers : ListOf(s) = "tcp" => s \in TcpServices
    /\ \A s \in Servers : ListOf(s) = "grpc" => s \in GrpcServices
BY LifecycleAssumption DEF Servers, Programs, Web, ListOf

LEMMA GotoPc ==
    ASSUME TypeOK, NEW p \in Programs, NEW l, Goto(p, l)
    PROVE  pc'[p] = l /\ \A q \in Programs : q # p => pc'[q] = pc[q]
BY DEF TypeOK, Goto

LEMMA SplitList ==
    ASSUME NEW S, NEW l \in Seq(S), l # <<>>
    PROVE  /\ 1 \in DOMAIN l /\ Head(l) = l[1] /\ Head(l) \in S
           /\ Tail(l) \in Seq(S)
           /\ \A i \in DOMAIN Tail(l) : i + 1 \in DOMAIN l /\ Tail(l)[i] = l[i + 1]
           /\ Range(l) = {Head(l)} \cup Range(Tail(l))
<1>1. Len(l) \in Nat \ {0} /\ DOMAIN l = 1 .. Len(l)
  OBVIOUS
<1>2. 1 \in DOMAIN l /\ Head(l) = l[1] /\ Head(l) \in S
  BY <1>1
<1>3. /\ Tail(l) \in Seq(S) /\ Len(Tail(l)) = Len(l) - 1
      /\ DOMAIN Tail(l) = 1 .. Len(l) - 1
      /\ \A i \in DOMAIN Tail(l) : i + 1 \in DOMAIN l /\ Tail(l)[i] = l[i + 1]
  BY <1>1
<1>4. \A i \in DOMAIN l : i = 1 \/ (i - 1 \in DOMAIN Tail(l) /\ Tail(l)[i - 1] = l[i])
  BY <1>1, <1>3
<1>5. Range(l) = {Head(l)} \cup Range(Tail(l))
  BY <1>2, <1>3, <1>4 DEF Range
<1>6. QED
  BY <1>2, <1>3, <1>5

\* What the store of an append leaves in the list.
LEMMA AppendedList ==
    ASSUME TypeOK, NEW s \in Servers, NEW l \in Appended(s)
    PROVE  \E t \in Servers :
              /\ l = Append(read[s], t) /\ l \in Seq(Servers) /\ Len(read[s]) \in Nat
              /\ t = s \/ ( /\ Len(read[s]) + 1 \in DOMAIN list[ListOf(s)]
                           /\ t = list[ListOf(s)][Len(read[s]) + 1])
<1>1. list[ListOf(s)] \in Seq(Servers) /\ read[s] \in Seq(Servers)
  BY DEF TypeOK, ListOf
<1>2. PICK t : /\ l = Append(read[s], t)
               /\ t = s \/ ( /\ Len(read[s]) + 1 \in DOMAIN list[ListOf(s)]
                            /\ t = list[ListOf(s)][Len(read[s]) + 1])
  BY DEF Appended
<1>3. t \in Servers
  BY <1>1, <1>2
<1>4. QED
  BY <1>1, <1>2, <1>3

LEMMA InitIInv == Init => IInv
<1> SUFFICES ASSUME Init PROVE IInv
  OBVIOUS
<1>1. TypeOK
  <2>1. /\ pc \in [Programs -> ServerAt]
        /\ list \in [{"tcp", "grpc"} -> Seq(Servers)] /\ read \in [Servers -> Seq(Servers)]
        /\ main \in MainAt /\ todo \in Seq(Servers)
    BY DEF Init, ServerAt, MainAt
  <2>2. active \in [Programs -> 0 .. MaxActive]
    BY LifecycleAssumption DEF Init
  <2>3. QED
    BY <2>1, <2>2, Zenon DEF Init, TypeOK
<1>2. StartInv /\ SignalInv /\ TodoInv /\ WebInv /\ ExitInv
  BY Names DEF Init, StartInv, SignalInv, TodoInv, WebInv, ExitInv
<1>3. ListInv
  BY DEF Init, ListInv, Placed, ListOf, Past, Programs
<1>4. ListenInv
  BY Names DEF Init, ListenInv
<1>5. ReachInv
  BY DEF Init, ReachInv, StopClosesListeners, AfterGrpc
<1>6. QED
  BY <1>1, <1>2, <1>3, <1>4, <1>5 DEF IInv

LEMMA GotoType ==
    ASSUME TypeOK, NEW p \in Programs, NEW l \in ServerAt, Goto(p, l)
    PROVE  pc' \in [Programs -> ServerAt]
BY DEF TypeOK, Goto

LEMMA TypesStep == TypeOK /\ TodoInv /\ [Next]_vars => TypeOK'
<1> SUFFICES ASSUME TypeOK, TodoInv, [Next]_vars PROVE TypeOK'
  OBVIOUS
<1>. USE Names DEF proc, servers, history
<1>1. CASE InitModule
  <2>1. pc' \in [Programs -> ServerAt] /\ main' \in MainAt
    BY <1>1, GotoType DEF InitModule, TypeOK, ServerAt, MainAt
  <2>2. QED
    BY <1>1, <2>1 DEF InitModule, TypeOK
<1>2. CASE LoadOnce
  <2>1. services' \subseteq Servers /\ main' \in MainAt
    BY <1>2, LifecycleAssumption DEF LoadOnce, MainAt
  <2>2. QED
    BY <1>2, <2>1 DEF LoadOnce, TypeOK
<1>3. CASE Signal
  BY <1>3 DEF Signal, TypeOK, MainAt
<1>4. ASSUME NEW s \in Servers, GrpcListen(s) \/ Listen(s) PROVE TypeOK'
  <2>1. pc' \in [Programs -> ServerAt]
    BY <1>4, GotoType DEF GrpcListen, Listen, CanListen, TypeOK, ServerAt
  <2>2. /\ open' \subseteq Programs /\ exit' \in {"no", "returned", "panicked", "fatal", "killed"}
        /\ listenFailed' \in BOOLEAN
    BY <1>4 DEF GrpcListen, Listen, CanListen, TypeOK, Fatal
  <2>3. UNCHANGED <<endpoint, main, services, todo, list, read, shut, done, active, upAtSignal,
                    overlapped, timedOut>>
    BY <1>4 DEF GrpcListen, Listen, CanListen, Fatal
  <2>4. QED
    BY <2>1, <2>2, <2>3 DEF TypeOK
<1>5. ASSUME NEW s \in Servers, ReadList(s) PROVE TypeOK'
  <2>1. pc' \in [Programs -> ServerAt]
    BY <1>5, GotoType DEF ReadList, ServerAt
  <2>2. read' \in [Servers -> Seq(Servers)]
    BY <1>5 DEF ReadList, TypeOK, ListOf
  <2>3. QED
    BY <1>5, <2>1, <2>2 DEF ReadList, TypeOK
<1>6. ASSUME NEW s \in Servers, WriteList(s) PROVE TypeOK'
  <2>1. pc' \in [Programs -> ServerAt]
    BY <1>6, GotoType DEF WriteList, ServerAt
  <2>2. list' \in [{"tcp", "grpc"} -> Seq(Servers)]
    <3>1. PICK l \in Appended(s) : list' = [list EXCEPT ![ListOf(s)] = l]
      BY <1>6 DEF WriteList
    <3>2. l \in Seq(Servers)
      BY AppendedList
    <3>3. QED
      BY <3>1, <3>2 DEF TypeOK
  <2>3. overlapped' \subseteq Servers
    BY <1>6 DEF WriteList, TypeOK, ListOf, Range
  <2>4. QED
    BY <1>6, <2>1, <2>2, <2>3 DEF WriteList, TypeOK
<1>7. ASSUME NEW s \in Servers,
             CheckShutdown(s) \/ Serve(s) \/ ServeReturns(s) \/ GrpcServeReturns(s)
      PROVE  TypeOK'
  <2>1. pc' \in [Programs -> ServerAt]
    BY <1>7, GotoType DEF CheckShutdown, Serve, ServeReturns, GrpcServeReturns, ServerAt
  <2>2. QED
    BY <1>7, <2>1 DEF CheckShutdown, Serve, ServeReturns, GrpcServeReturns, TypeOK
<1>8. ASSUME NEW s \in Servers, GrpcServe(s) PROVE TypeOK'
  <2>1. pc' \in [Programs -> ServerAt]
    BY <1>8, GotoType DEF GrpcServe, TypeOK, ServerAt
  <2>2. open' \subseteq Programs /\ exit' \in {"no", "returned", "panicked", "fatal", "killed"}
    BY <1>8 DEF GrpcServe, TypeOK, Fatal
  <2>3. UNCHANGED <<endpoint, main, services, todo, list, read, shut, done, active, history>>
    BY <1>8 DEF GrpcServe, Fatal
  <2>4. QED
    BY <2>1, <2>2, <2>3 DEF TypeOK
<1>9. ASSUME NEW h \in Web \cup {"dashboard"}, WebSteps(h) PROVE TypeOK'
  <2>. USE DEF WebSteps, MakeHandler, ListenAndServe, HttpReturns, Closed, Fatal
  <2>1. pc' \in [Programs -> ServerAt]
    BY <1>9, GotoType DEF TypeOK, ServerAt
  <2>2. /\ open' \subseteq Programs /\ exit' \in {"no", "returned", "panicked", "fatal", "killed"}
        /\ listenFailed' \in BOOLEAN
    BY <1>9 DEF TypeOK
  <2>3. UNCHANGED <<endpoint, main, services, todo, list, read, shut, done, active, upAtSignal,
                    overlapped, timedOut>>
    BY <1>9
  <2>4. QED
    BY <2>1, <2>2, <2>3 DEF TypeOK
<1>10. ASSUME NEW q \in Programs, Begin(q) \/ End(q) PROVE TypeOK'
  <2>1. active' \in [Programs -> 0 .. MaxActive]
    BY <1>10, LifecycleAssumption DEF Begin, End, TypeOK
  <2>2. QED
    BY <1>10, <2>1 DEF Begin, End, TypeOK
<1>11. CASE TcpServerStop \/ StoreShutdown \/ CloseDoneChan \/ CloseListener \/ TcpStopped
  <2>. USE DEF TcpServerStop, StoreShutdown, CloseDoneChan, CloseListener, TcpStopped
  <2>0. todo # <<>> => Head(todo) \in Programs /\ Tail(todo) \in Seq(Servers)
    BY SplitList DEF TypeOK
  <2>1. main' \in MainAt /\ open' \subseteq Programs
    BY <1>11 DEF TypeOK, MainAt
  <2>2. todo' \in Seq(Servers)
    BY <1>11, <2>0 DEF TypeOK, TodoInv
  <2>3. shut' \subseteq Programs
    BY <1>11, <2>0 DEF TypeOK
  <2>4. done' \subseteq TcpServices
    <3>1. main = "doneChan" => Head(todo) \in TcpServices
      BY SplitList DEF TypeOK, TodoInv
    <3>2. QED
      BY <1>11, <3>1 DEF TypeOK
  <2>5. UNCHANGED <<endpoint, services, exit, pc, list, read, active, history>>
    BY <1>11
  <2>6. QED
    BY <2>1, <2>2, <2>3, <2>4, <2>5 DEF TypeOK
<1>12. CASE GrpcServerStop \/ GracefulStop \/ GracefulStopReturns \/ GrpcStopped
  <2>. USE DEF GrpcServerStop, GracefulStop, GracefulStopReturns, GrpcStopped
  <2>0. todo # <<>> => Head(todo) \in Programs /\ Tail(todo) \in Seq(Servers)
    BY SplitList DEF TypeOK
  <2>1. main' \in MainAt /\ open' \subseteq Programs
    BY <1>12 DEF TypeOK, MainAt
  <2>2. todo' \in Seq(Servers)
    BY <1>12, <2>0 DEF TypeOK
  <2>3. shut' \subseteq Programs
    BY <1>12, <2>0 DEF TypeOK
  <2>4. UNCHANGED <<endpoint, services, exit, pc, list, read, done, active, history>>
    BY <1>12
  <2>5. QED
    BY <2>1, <2>2, <2>3, <2>4 DEF TypeOK
<1>13. ASSUME NEW h \in Web \cup {"dashboard"},
              Shutdown(h) \/ ShutdownReturns(h) \/ ShutdownTimesOut(h)
       PROVE  TypeOK'
  <2>. USE DEF Shutdown, ShutdownReturns, ShutdownTimesOut, Fatal
  <2>1. main' \in MainAt /\ exit' \in {"no", "returned", "panicked", "fatal", "killed"}
    BY <1>13 DEF TypeOK, MainAt, AfterStop
  <2>2. open' \subseteq Programs /\ shut' \subseteq Programs /\ timedOut' \subseteq Programs
    BY <1>13 DEF TypeOK
  <2>3. UNCHANGED <<endpoint, services, todo, pc, list, read, done, active, upAtSignal, overlapped,
                    listenFailed>>
    BY <1>13
  <2>4. QED
    BY <2>1, <2>2, <2>3 DEF TypeOK
<1>14. CASE Destroy
  BY <1>14 DEF Destroy, TypeOK
<1>15. CASE Ended \/ UNCHANGED vars
  BY <1>15 DEF Ended, vars, TypeOK
<1>16. QED
  BY <1>1, <1>2, <1>3, <1>4, <1>5, <1>6, <1>7, <1>8, <1>9, <1>10, <1>11, <1>12, <1>13, <1>14,
     <1>15 DEF Next, ServerSteps, StopSteps

-----------------------------------------------------------------------------
(* The goroutine of a TCP or gRPC service.                                 *)

\* All that the other parts of the process see of a step of it.
LEMMA ServerEffect ==
    ASSUME IInv, NEW s \in Servers, ServerSteps(s)
    PROVE  /\ Launched /\ s \in services
           /\ UNCHANGED <<endpoint, main, services, todo, shut, done, active, upAtSignal, timedOut>>
           /\ \A q \in Programs : q # s => pc'[q] = pc[q]
           /\ pc'[s] = "off" => pc[s] = "off"
           /\ pc[s] \in Past => pc'[s] \in Past
           /\ pc[s] \in {"serving", "returned"} => pc'[s] \in {"serving", "returned"}
           /\ overlapped \subseteq overlapped'
           /\ open' \ open \subseteq {s} /\ (s \in open' \ open => pc[s] \in {"off", "checked"})
           /\ \A q \in TcpServices : q \in open => q \in open'
           /\ s \in TcpServices /\ pc'[s] \in {"listening", "serving"} =>
                s \in open' \/ pc[s] \in {"listening", "serving"}
           /\ s \in TcpServices /\ pc[s] = "serving" /\ pc'[s] = "returned" =>
                s \notin open /\ s \in done
           /\ listenFailed => listenFailed'
           /\ \/ exit' = exit
              \/ exit' = "fatal" /\ (listenFailed' \/ pc[s] = "listed")
<1>0. TypeOK /\ s \in Programs
  BY Names DEF IInv
<1>1. s \in services
  BY DEF IInv, StartInv, ServerSteps, GrpcListen, ReadList, WriteList, CheckShutdown, Listen,
         Serve, ServeReturns, GrpcServe, GrpcServeReturns
<1>. USE Names, GotoPc DEF proc, history, Past
<1>2. CASE GrpcListen(s) \/ Listen(s)
  BY <1>0, <1>1, <1>2 DEF GrpcListen, Listen, CanListen, Fatal
<1>3. CASE ReadList(s)
  BY <1>0, <1>1, <1>3 DEF ReadList
<1>4. CASE WriteList(s)
  BY <1>0, <1>1, <1>4 DEF WriteList
<1>5. CASE CheckShutdown(s) \/ Serve(s) \/ ServeReturns(s)
  BY <1>0, <1>1, <1>5 DEF CheckShutdown, Serve, ServeReturns
<1>6. CASE GrpcServe(s) \/ GrpcServeReturns(s)
  BY <1>0, <1>1, <1>6 DEF GrpcServe, GrpcServeReturns, Fatal
<1>7. QED
  BY <1>2, <1>3, <1>4, <1>5, <1>6 DEF ServerSteps

\* Every list keeps its servers at their places ...
LEMMA PlacedStep ==
    ASSUME TypeOK, NEW s \in Servers, NEW k \in {"tcp", "grpc"}, NEW l \in Seq(Servers),
           Placed(k, l),
           \A q \in Servers : pc[q] \in Past =>
               pc'[q] \in Past /\ read'[q] = read[q]
    PROVE  \A i \in DOMAIN l : /\ ListOf(l[i]) = k
                              /\ pc'[l[i]] \in Past
                              /\ Len(read'[l[i]]) = i - 1
<1>1. \A i \in DOMAIN l : l[i] \in Servers
  OBVIOUS
<1>2. QED
  BY <1>1 DEF Placed

LEMMA ServerListInv ==
    ASSUME IInv, NEW s \in Servers, ServerSteps(s)
    PROVE  ListInv'
<1>0. TypeOK /\ ListInv /\ s \in Programs /\ TypeOK'
  BY Names, TypesStep DEF IInv, Next
<1>1. \A q \in Servers : q # s => pc'[q] = pc[q]
  BY ServerEffect, Names
<1>2. \A q \in Servers : ListOf(q) \in {"tcp", "grpc"}
  BY DEF ListOf
<1>3. /\ \A k \in {"tcp", "grpc"} : list[k] \in Seq(Servers) /\ Placed(k, list[k])
      /\ \A q \in Servers : read[q] \in Seq(Servers) /\ Placed(ListOf(q), read[q])
  BY <1>0 DEF TypeOK, ListInv
<1>4. CASE UNCHANGED <<list, read, overlapped>> /\ (pc[s] \in Past <=> pc'[s] \in Past)
  <2>1. \A q \in Servers : pc'[q] \in Past <=> pc[q] \in Past
    BY <1>1, <1>4
  <2>2. \A k \in {"tcp", "grpc"} : Placed(k, list[k])'
    BY <1>0, <1>3, <1>4, <2>1, PlacedStep DEF Placed
  <2>3. \A q \in Servers : Placed(ListOf(q), read[q])'
    BY <1>0, <1>2, <1>3, <1>4, <2>1, PlacedStep DEF Placed, ListOf
  <2>4. \A q \in Servers : pc'[q] \in Past /\ q \notin overlapped' => q \in Range(list[ListOf(q)])'
    BY <1>0, <1>4, <2>1 DEF ListInv, ListOf
  <2>5. QED
    BY <2>2, <2>3, <2>4 DEF ListInv
<1>5. CASE ReadList(s)
  <2>1. /\ pc[s] \notin Past /\ pc'[s] \notin Past
        /\ UNCHANGED <<list, overlapped>>
        /\ read'[s] = list[ListOf(s)] /\ \A q \in Servers : q # s => read'[q] = read[q]
    BY <1>0, <1>5, GotoPc DEF ReadList, Past, history, TypeOK
  <2>2. \A q \in Servers : pc'[q] \in Past <=> pc[q] \in Past
    BY <1>1, <2>1
  <2>3. \A q \in Servers : pc[q] \in Past => pc'[q] \in Past /\ read'[q] = read[q]
    BY <2>1, <2>2
  <2>4. ASSUME NEW k \in {"tcp", "grpc"} PROVE Placed(k, list[k])'
    <3>1. PICK l \in Seq(Servers) : l = list'[k] /\ Placed(k, l)
      BY <1>3, <2>1
    <3>2. QED
      BY <1>0, <2>3, <3>1, PlacedStep DEF Placed
  <2>5. ASSUME NEW q \in Servers PROVE Placed(ListOf(q), read[q])'
    <3>1. PICK l \in Seq(Servers) : l = read'[q] /\ Placed(ListOf(q), l)
      BY <1>2, <1>3, <2>1
    <3>2. QED
      BY <1>0, <1>2, <2>3, <3>1, PlacedStep DEF Placed, ListOf
  <2>6. \A q \in Servers : pc'[q] \in Past /\ q \notin overlapped' => q \in Range(list[ListOf(q)])'
    BY <1>0, <2>1, <2>2 DEF ListInv, ListOf
  <2>7. QED
    BY <2>4, <2>5, <2>6 DEF ListInv
<1>6. CASE WriteList(s)
  <2>. DEFINE k   == ListOf(s)
              now == list[k]
  <2>1. PICK l \in Appended(s) : list' = [list EXCEPT ![k] = l]
    BY <1>6 DEF WriteList
  <2>2. PICK t \in Servers :
              /\ l = Append(read[s], t) /\ l \in Seq(Servers) /\ Len(read[s]) \in Nat
              /\ t = s \/ ( /\ Len(read[s]) + 1 \in DOMAIN now /\ t = now[Len(read[s]) + 1])
    BY <1>0, AppendedList
  <2>3. /\ pc'[s] \in Past /\ UNCHANGED read
        /\ overlapped' = IF now = read[s] THEN overlapped
                         ELSE overlapped \cup {s} \cup Range(now)
    BY <1>0, <1>6, GotoPc DEF WriteList, Past
  <2>4. \A q \in Servers : pc'[q] \in Past <=> pc[q] \in Past \/ q = s
    BY <1>1, <2>3
  <2>5. \A q \in Servers : pc[q] \in Past => pc'[q] \in Past /\ read'[q] = read[q]
    BY <2>3, <2>4
  <2>6. k \in {"tcp", "grpc"} /\ list'[k] = l /\ \A m \in {"tcp", "grpc"} : m # k => list'[m] = list[m]
    BY <1>0, <1>2, <2>1 DEF TypeOK
  <2>. HIDE DEF k, now
  <2>7. /\ read[s] \in Seq(Servers) /\ now \in Seq(Servers) /\ Placed(k, read[s]) /\ Placed(k, now)
    BY <1>3, <2>6 DEF k, now
  <2>8. Placed(k, list[k])'
    <3>1. ListOf(t) = k /\ pc'[t] \in Past /\ Len(read'[t]) = Len(read[s])
      <4>1. CASE t = s
        BY <2>3, <4>1 DEF k
      <4>2. CASE t # s
        <5>1. Len(read[s]) + 1 \in DOMAIN now /\ t = now[Len(read[s]) + 1]
          BY <2>2, <4>2
        <5>2. ListOf(t) = k /\ pc[t] \in Past /\ Len(read[t]) = (Len(read[s]) + 1) - 1
          BY <2>7, <5>1 DEF Placed
        <5>3. QED
          BY <2>2, <2>3, <2>5, <5>2
      <4>3. QED
        BY <4>1, <4>2
    <3>2. \A i \in DOMAIN read[s] : /\ ListOf(read[s][i]) = k
                                   /\ pc'[read[s][i]] \in Past
                                   /\ Len(read'[read[s][i]]) = i - 1
      BY <1>0, <2>5, <2>6, <2>7, PlacedStep
    <3>3. ASSUME NEW i \in DOMAIN l
          PROVE  ListOf(l[i]) = k /\ pc'[l[i]] \in Past /\ Len(read'[l[i]]) = i - 1
      <4>1. \/ i \in DOMAIN read[s] /\ l[i] = read[s][i]
            \/ i = Len(read[s]) + 1 /\ l[i] = t
        BY <2>2, <2>7
      <4>2. QED
        BY <2>2, <3>1, <3>2, <4>1
    <3>4. QED
      BY <2>6, <3>3 DEF Placed, k, ListOf
  <2>9. ASSUME NEW m \in {"tcp", "grpc"}, m # k PROVE Placed(m, list[m])'
    <3>1. list'[m] = list[m] /\ list[m] \in Seq(Servers) /\ Placed(m, list[m])
      BY <1>3, <2>6, <2>9
    <3>2. QED
      BY <1>0, <2>5, <3>1, PlacedStep DEF Placed
  <2>10. ASSUME NEW q \in Servers PROVE Placed(ListOf(q), read[q])'
    <3>1. PICK had \in Seq(Servers) : had = read'[q] /\ Placed(ListOf(q), had)
      BY <1>3, <2>3
    <3>2. QED
      BY <1>0, <1>2, <2>5, <3>1, PlacedStep DEF Placed, ListOf
  <2>11. ASSUME NEW q \in Servers, pc'[q] \in Past, q \notin overlapped'
         PROVE  q \in Range(list'[ListOf(q)])
    <3>1. CASE now = read[s] /\ q = s
      <4>1. t = s
        BY <2>2, <2>7, <3>1
      <4>2. l[Len(read[s]) + 1] = s /\ Len(read[s]) + 1 \in DOMAIN l
        BY <2>2, <2>7, <4>1
      <4>3. QED
        BY <2>6, <3>1, <4>2 DEF Range, k
    <3>2. CASE now = read[s] /\ q # s
      <4>1. q \in Range(list[ListOf(q)])
        BY <1>0, <2>3, <2>4, <2>11, <3>2 DEF ListInv
      <4>2. CASE ListOf(q) = k
        <5>1. PICK i \in DOMAIN now : now[i] = q
          BY <4>1, <4>2 DEF Range, now
        <5>2. i \in DOMAIN l /\ l[i] = q
          BY <2>2, <2>7, <3>2, <5>1
        <5>3. QED
          BY <2>6, <4>2, <5>2 DEF Range
      <4>3. CASE ListOf(q) # k
        BY <1>2, <2>6, <4>1, <4>3
      <4>4. QED
        BY <4>2, <4>3
    <3>3. CASE now # read[s]
      <4>1. q # s /\ q \notin overlapped /\ q \notin Range(now) /\ pc[q] \in Past
        BY <2>3, <2>4, <2>11, <3>3
      <4>2. q \in Range(list[ListOf(q)])
        BY <1>0, <4>1 DEF ListInv
      <4>3. ListOf(q) # k
        BY <4>1, <4>2 DEF now
      <4>4. QED
        BY <1>2, <2>6, <4>2, <4>3
    <3>4. QED
      BY <3>1, <3>2, <3>3
  <2>12. QED
    BY <2>8, <2>9, <2>10, <2>11 DEF ListInv, ListOf
<1>7. QED
  <2>1. CASE GrpcListen(s) \/ Listen(s)
    BY <1>0, <1>4, <2>1, GotoPc, Names DEF GrpcListen, Listen, CanListen, Past, Fatal
  <2>2. CASE CheckShutdown(s) \/ Serve(s) \/ ServeReturns(s)
    BY <1>0, <1>4, <2>2, GotoPc DEF CheckShutdown, Serve, ServeReturns, Past, history
  <2>3. CASE GrpcServe(s) \/ GrpcServeReturns(s)
    BY <1>0, <1>4, <2>3, GotoPc DEF GrpcServe, GrpcServeReturns, Past, history, Fatal
  <2>4. QED
    BY <1>5, <1>6, <2>1, <2>2, <2>3 DEF ServerSteps

LEMMA ServerStep ==
    ASSUME IInv, NEW s \in Servers, ServerSteps(s)
    PROVE  IInv'
<1>0. /\ TypeOK /\ StartInv /\ SignalInv /\ ListInv /\ TodoInv /\ ListenInv /\ ReachInv
      /\ WebInv /\ ExitInv
  BY DEF IInv
<1>1. /\ Launched /\ s \in services /\ s \in Programs
      /\ UNCHANGED <<endpoint, main, services, todo, shut, done, active, upAtSignal, timedOut>>
      /\ \A q \in Programs : q # s => pc'[q] = pc[q]
      /\ pc'[s] = "off" => pc[s] = "off"
      /\ pc[s] \in Past => pc'[s] \in Past
      /\ pc[s] \in {"serving", "returned"} => pc'[s] \in {"serving", "returned"}
  BY ServerEffect, Names
<1>2. /\ overlapped \subseteq overlapped'
      /\ open' \ open \subseteq {s} /\ (s \in open' \ open => pc[s] \in {"off", "checked"})
      /\ \A q \in TcpServices : q \in open => q \in open'
      /\ s \in TcpServices /\ pc'[s] \in {"listening", "serving"} =>
           s \in open' \/ pc[s] \in {"listening", "serving"}
      /\ s \in TcpServices /\ pc[s] = "serving" /\ pc'[s] = "returned" =>
           s \notin open /\ s \in done
  BY ServerEffect
<1>3. /\ listenFailed => listenFailed'
      /\ exit' = exit \/ (exit' = "fatal" /\ (listenFailed' \/ pc[s] = "listed"))
  BY ServerEffect
<1>4. StartInv'
  BY <1>0, <1>1, Names DEF StartInv, Launched
<1>5. SignalInv'
  BY <1>0, <1>1 DEF SignalInv, TypeOK
<1>6. TodoInv'
  <2>1. \A q \in Programs : pc[q] \in Past => pc'[q] \in Past
    BY <1>1
  <2>2. main \in {"tcp", "doneChan", "listener"} =>
          \A i \in DOMAIN todo : todo[i] \in TcpServices /\ pc'[todo[i]] \in Past
    BY <1>0, <2>1, Names DEF TodoInv
  <2>3. QED
    BY <1>0, <1>1, <2>2 DEF TodoInv
<1>7. ListenInv'
  <2> SUFFICES ASSUME NEW q \in TcpServices
               PROVE  /\ pc'[q] \in {"listening", "serving"} => q \in open' \/ IsClosed(q)
                      /\ pc'[q] = "returned" /\ q \in upAtSignal => IsClosed(q)
    BY <1>1 DEF ListenInv, IsClosed
  <2>1. CASE q # s
    BY <1>0, <1>1, <1>2, <2>1, Names DEF ListenInv
  <2>2. CASE q = s
    <3>1. pc'[q] \in {"listening", "serving"} => q \in open' \/ IsClosed(q)
      BY <1>0, <1>2, <2>2 DEF ListenInv
    <3>2. ASSUME pc'[q] = "returned", q \in upAtSignal PROVE IsClosed(q)
      <4>1. CASE pc[q] = "returned"
        BY <1>0, <3>2, <4>1 DEF ListenInv
      <4>2. CASE pc[q] = "serving"
        BY <1>0, <1>2, <2>2, <3>2, <4>2 DEF ListenInv
      <4>3. QED
        BY <1>0, <3>2, <4>1, <4>2 DEF SignalInv
    <3>3. QED
      BY <3>1, <3>2
  <2>3. QED
    BY <2>1, <2>2
<1>8. ReachInv'
  <2>1. \A q \in upAtSignal : q \notin open => q \notin open'
    BY <1>0, <1>2 DEF SignalInv
  <2>2. QED
    BY <1>0, <1>1, <1>2, <2>1 DEF ReachInv, StopClosesListeners
<1>9. WebInv'
  BY <1>0, <1>1 DEF WebInv
<1>10. ExitInv'
  <2>1. Cause => Cause'
    BY <1>1, <1>3 DEF Cause, CompletelyUp
  <2>2. pc[s] = "listed" => Cause'
    BY <1>0, <1>1 DEF SignalInv, Cause, CompletelyUp
  <2>3. listenFailed' => Cause'
    BY DEF Cause
  <2>4. QED
    BY <1>0, <1>1, <1>3, <2>1, <2>2, <2>3 DEF ExitInv, Launched, Running
<1>11. ListInv' /\ TypeOK'
  BY <1>0, ServerListInv, TypesStep DEF Next
<1>12. QED
  BY <1>4, <1>5, <1>6, <1>7, <1>8, <1>9, <1>10, <1>11 DEF IInv

-----------------------------------------------------------------------------
(* The HTTP servers and the requests.                                      *)

LEMMA ListFrame ==
    ASSUME IInv, UNCHANGED <<list, read, overlapped>>, \A q \in Servers : pc'[q] = pc[q]
    PROVE  ListInv'
<1>0. TypeOK /\ ListInv
  BY DEF IInv
<1>1. \A q \in Servers : pc[q] \in Past => pc'[q] \in Past /\ read'[q] = read[q]
  OBVIOUS
<1>2. ASSUME NEW k \in {"tcp", "grpc"} PROVE Placed(k, list[k])'
  <2>1. list[k] \in Seq(Servers) /\ Placed(k, list[k])
    BY <1>0 DEF TypeOK, ListInv
  <2>2. QED
    BY <1>0, <1>1, <2>1, PlacedStep DEF Placed
<1>3. ASSUME NEW q \in Servers PROVE Placed(ListOf(q), read[q])'
  <2>1. read[q] \in Seq(Servers) /\ Placed(ListOf(q), read[q]) /\ ListOf(q) \in {"tcp", "grpc"}
    BY <1>0 DEF TypeOK, ListInv, ListOf
  <2>2. QED
    BY <1>0, <1>1, <2>1, PlacedStep DEF Placed, ListOf
<1>4. \A q \in Servers : pc'[q] \in Past /\ q \notin overlapped' => q \in Range(list[ListOf(q)])'
  BY <1>0 DEF ListInv, ListOf
<1>5. QED
  BY <1>2, <1>3, <1>4 DEF ListInv

LEMMA WebEffect ==
    ASSUME IInv, NEW h \in Web \cup {"dashboard"}, WebSteps(h)
    PROVE  /\ Launched
           /\ UNCHANGED <<endpoint, main, services, todo, list, read, shut, done, active, upAtSignal,
                          overlapped, timedOut>>
           /\ IF h = "dashboard" THEN endpoint = "dashboard" ELSE endpoint = "server"
           /\ \A q \in Programs : q # h => pc'[q] = pc[q]
           /\ pc'[h] = "off" => pc[h] = "off"
           /\ pc[h] \in {"serving", "returned"} => pc'[h] \in {"serving", "returned"}
           /\ \A q \in Servers : q \in open' <=> q \in open
           /\ listenFailed => listenFailed'
           /\ exit' = exit \/ (exit' = "fatal" /\ (listenFailed' \/ endpoint = "dashboard"))
<1>0. TypeOK /\ h \in Programs /\ h \notin Servers /\ endpoint \in {"dashboard", "server"}
  BY Names DEF IInv, TypeOK
<1>1. IF h = "dashboard" THEN endpoint = "dashboard" ELSE endpoint = "server"
  <2>1. h \in Web => pc[h] # "off" \/ endpoint = "server"
    BY DEF WebSteps, MakeHandler, ListenAndServe, HttpReturns
  <2>2. h = "dashboard" => pc[h] # "off"
    BY DEF WebSteps, MakeHandler, ListenAndServe, HttpReturns, Web
  <2>3. QED
    BY <1>0, <2>1, <2>2 DEF IInv, StartInv, Web
<1>. USE GotoPc DEF proc, history, Closed, Fatal
<1>2. CASE MakeHandler(h)
  BY <1>0, <1>1, <1>2 DEF MakeHandler
<1>3. CASE ListenAndServe(h)
  BY <1>0, <1>1, <1>3 DEF ListenAndServe
<1>4. CASE HttpReturns(h)
  BY <1>0, <1>1, <1>4 DEF HttpReturns
<1>5. QED
  BY <1>2, <1>3, <1>4 DEF WebSteps

LEMMA WebStep ==
    ASSUME IInv, NEW h \in Web \cup {"dashboard"}, WebSteps(h)
    PROVE  IInv'
<1>0. /\ TypeOK /\ StartInv /\ SignalInv /\ TodoInv /\ ListenInv /\ ReachInv /\ WebInv /\ ExitInv
  BY DEF IInv
<1>1. /\ Launched
      /\ UNCHANGED <<endpoint, main, services, todo, list, read, shut, done, active, upAtSignal,
                     overlapped, timedOut>>
      /\ IF h = "dashboard" THEN endpoint = "dashboard" ELSE endpoint = "server"
      /\ \A q \in Programs : q # h => pc'[q] = pc[q]
      /\ pc'[h] = "off" => pc[h] = "off"
      /\ pc[h] \in {"serving", "returned"} => pc'[h] \in {"serving", "returned"}
      /\ \A q \in Servers : q \in open' <=> q \in open
      /\ listenFailed => listenFailed'
      /\ exit' = exit \/ (exit' = "fatal" /\ (listenFailed' \/ endpoint = "dashboard"))
  BY WebEffect
<1>2. \A q \in Servers : pc'[q] = pc[q]
  BY <1>1, Names
<1>3. StartInv'
  BY <1>0, <1>1, Names DEF StartInv, Launched
<1>4. SignalInv'
  BY <1>0, <1>1 DEF SignalInv, TypeOK
<1>5. TodoInv'
  BY <1>0, <1>1, <1>2, Names DEF TodoInv
<1>6. ListenInv'
  BY <1>0, <1>1, <1>2, Names DEF ListenInv, IsClosed
<1>7. ReachInv'
  BY <1>0, <1>1, Names DEF ReachInv, StopClosesListeners
<1>8. WebInv'
  BY <1>0, <1>1 DEF WebInv
<1>9. ExitInv'
  BY <1>0, <1>1 DEF ExitInv, Cause, CompletelyUp, Launched, Running
<1>10. ListInv' /\ TypeOK'
  BY <1>0, <1>1, <1>2, ListFrame, TypesStep DEF Next
<1>11. QED
  BY <1>3, <1>4, <1>5, <1>6, <1>7, <1>8, <1>9, <1>10 DEF IInv

\* A stopped server that is drained stays so: it takes no request.
LEMMA RequestStep ==
    ASSUME IInv, NEW p \in Programs, Begin(p) \/ End(p)
    PROVE  IInv'
<1>0. /\ TypeOK /\ StartInv /\ SignalInv /\ TodoInv /\ ListenInv /\ ReachInv /\ WebInv /\ ExitInv
  BY DEF IInv
<1>1. /\ Launched
      /\ UNCHANGED <<proc, pc, list, read, shut, done, open, history>>
  BY DEF Begin, End
<1>2. \A q \in Programs : active[q] = 0 /\ (pc[q] = "off" \/ q \in shut) => active'[q] = 0
  BY <1>0 DEF Begin, End, TypeOK
<1>. USE DEF proc, history
<1>3. StartInv'
  BY <1>0, <1>1, <1>2 DEF StartInv
<1>4. SignalInv' /\ TodoInv' /\ ListenInv'
  BY <1>0, <1>1 DEF SignalInv, TodoInv, ListenInv, IsClosed
<1>5. ReachInv'
  BY <1>0, <1>1, <1>2, Names DEF ReachInv, StopClosesListeners
<1>6. WebInv'
  BY <1>0, <1>1, <1>2, Names DEF WebInv
<1>7. ExitInv'
  BY <1>0, <1>1 DEF ExitInv, Cause, CompletelyUp
<1>8. ListInv' /\ TypeOK'
  BY <1>0, <1>1, ListFrame, TypesStep DEF Next
<1>9. QED
  BY <1>3, <1>4, <1>5, <1>6, <1>7, <1>8 DEF IInv

-----------------------------------------------------------------------------
(* main, up to the signal.                                                 *)

LEMMA StartStep == IInv /\ (InitModule \/ LoadOnce) => IInv'
<1> SUFFICES ASSUME IInv, InitModule \/ LoadOnce PROVE IInv'
  OBVIOUS
<1>0. /\ TypeOK /\ StartInv /\ SignalInv /\ ListenInv /\ ExitInv
  BY DEF IInv
<1>1. /\ main \in {"init", "load"} /\ main' \in {"load", "wait"}
      /\ exit = "no"
      /\ UNCHANGED <<endpoint, todo, exit, list, read, shut, done, open, active, history>>
      /\ \A q \in Programs : q # "dashboard" => pc'[q] = pc[q]
  BY <1>0, GotoPc, Names DEF InitModule, LoadOnce, Running, servers
<1>2. \A q \in Servers \cup Web : pc'[q] = pc[q] /\ pc'[q] = "off"
  BY <1>0, <1>1, Names DEF StartInv, Web
<1>. USE DEF history
<1>3. StartInv'
  <2>1. CASE InitModule
    BY <1>0, <1>1, <1>2, <2>1, GotoPc, Names DEF StartInv, InitModule, Programs
  <2>2. CASE LoadOnce
    BY <1>0, <1>1, <1>2, <2>2, Names DEF StartInv, LoadOnce, servers
  <2>3. QED
    BY <2>1, <2>2
<1>4. SignalInv' /\ TodoInv' /\ WebInv' /\ ExitInv'
  BY <1>0, <1>1 DEF SignalInv, TodoInv, WebInv, ExitInv
<1>5. ListenInv'
  BY <1>2, Names DEF ListenInv, Servers
<1>6. ReachInv'
  BY <1>1 DEF ReachInv, StopClosesListeners, AfterGrpc
<1>7. ListInv' /\ TypeOK'
  BY <1>0, <1>1, <1>2, ListFrame, TypesStep DEF Next, IInv
<1>8. QED
  BY <1>3, <1>4, <1>5, <1>6, <1>7 DEF IInv

LEMMA SignalStep == IInv /\ Signal => IInv'
<1> SUFFICES ASSUME IInv, Signal PROVE IInv'
  OBVIOUS
<1>0. /\ TypeOK /\ StartInv /\ SignalInv /\ ListenInv /\ ExitInv
  BY DEF IInv
<1>1. /\ UNCHANGED <<endpoint, services, todo, servers, overlapped, timedOut, listenFailed>>
      /\ \/ main \in {"init", "load"} /\ exit' = "killed" /\ UNCHANGED <<main, upAtSignal>>
         \/ /\ main = "wait" /\ exit = "no" /\ UNCHANGED exit
            /\ main' = IF endpoint = "dashboard" THEN "dashboard" ELSE "signalled"
            /\ upAtSignal' = {p \in Programs : pc[p] = "serving"}
  BY DEF Signal, Running
<1>. USE DEF servers
<1>2. StartInv'
  BY <1>0, <1>1 DEF StartInv, TypeOK
<1>3. SignalInv'
  BY <1>0, <1>1 DEF SignalInv
<1>4. TodoInv' /\ WebInv' /\ ExitInv'
  BY <1>0, <1>1 DEF TodoInv, WebInv, ExitInv
<1>5. ListenInv'
  BY <1>0, <1>1, Names DEF ListenInv, IsClosed, SignalInv
<1>6. ReachInv'
  BY <1>1 DEF ReachInv, StopClosesListeners, AfterGrpc
<1>7. ListInv' /\ TypeOK'
  BY <1>0, <1>1, ListFrame, TypesStep DEF Next, IInv
<1>8. QED
  BY <1>2, <1>3, <1>4, <1>5, <1>6, <1>7 DEF IInv

-----------------------------------------------------------------------------
(* The stop of the TCP servers.                                            *)

\* What a step of a stop leaves as it was.
LEMMA StopFrame ==
    ASSUME IInv, main \notin {"init", "load", "wait"}, exit = "no", endpoint = "server",
           main' \notin {"init", "load", "wait", "signalled", "dashboard", "panic"},
           UNCHANGED <<endpoint, services, exit, pc, list, read, active, history>>
    PROVE  StartInv' /\ SignalInv' /\ ListInv' /\ ExitInv'
<1>0. TypeOK /\ StartInv /\ SignalInv
  BY DEF IInv
<1>. USE DEF history
<1>1. StartInv' /\ SignalInv'
  BY <1>0 DEF StartInv, SignalInv
<1>2. ExitInv'
  BY DEF ExitInv
<1>3. ListInv'
  BY ListFrame
<1>4. QED
  BY <1>1, <1>2, <1>3

LEMMA TcpServerStopStep == IInv /\ TcpServerStop => IInv'
<1> SUFFICES ASSUME IInv, TcpServerStop PROVE IInv'
  OBVIOUS
<1>0. TypeOK /\ StartInv /\ SignalInv /\ ListInv /\ ListenInv /\ ReachInv
  BY DEF IInv
<1>1. /\ main = "signalled" /\ main' = "tcp" /\ todo' = list["tcp"] /\ exit = "no"
      /\ UNCHANGED <<endpoint, services, exit, servers, history>>
      /\ endpoint = "server"
  BY <1>0 DEF TcpServerStop, Running, StartInv, TypeOK
<1>2. list["tcp"] \in Seq(Servers) /\ Placed("tcp", list["tcp"]) /\ done = {}
  BY <1>0, <1>1 DEF TypeOK, ListInv, SignalInv
<1>. USE DEF servers, history
<1>3. StartInv' /\ SignalInv' /\ ListInv' /\ ExitInv'
  BY <1>1, StopFrame
<1>4. TodoInv'
  <2> SUFFICES ASSUME NEW i \in DOMAIN list["tcp"]
               PROVE  /\ list["tcp"][i] \in TcpServices /\ pc[list["tcp"][i]] \in Past
                      /\ \A j \in DOMAIN list["tcp"] : i # j => list["tcp"][i] # list["tcp"][j]
    BY <1>1, <1>2 DEF TodoInv
  <2>1. list["tcp"][i] \in TcpServices /\ pc[list["tcp"][i]] \in Past
    BY <1>2, Names DEF Placed
  <2>2. ASSUME NEW j \in DOMAIN list["tcp"], list["tcp"][i] = list["tcp"][j] PROVE i = j
    <3>1. Len(read[list["tcp"][i]]) = i - 1 /\ Len(read[list["tcp"][j]]) = j - 1
      BY <1>2 DEF Placed
    <3>2. i \in Nat /\ j \in Nat
      BY <1>2
    <3>3. QED
      BY <2>2, <3>1, <3>2
  <2>3. QED
    BY <2>1, <2>2
<1>5. ListenInv'
  BY <1>0, <1>1, <1>2 DEF ListenInv, IsClosed
<1>6. ReachInv'
  <2>1. ASSUME NEW s \in (TcpServices \cap upAtSignal) \ overlapped PROVE s \in Range(list["tcp"])
    <3>1. pc[s] \in Past /\ s \in Servers /\ ListOf(s) = "tcp"
      BY <1>0, Names DEF SignalInv, Past
    <3>2. QED
      BY <1>0, <3>1 DEF ListInv
  <2>2. QED
    BY <1>1, <2>1 DEF ReachInv, StopClosesListeners, AfterGrpc
<1>7. WebInv' /\ TypeOK'
  BY <1>1, TypesStep DEF WebInv, Next, StopSteps, IInv
<1>8. QED
  BY <1>3, <1>4, <1>5, <1>6, <1>7 DEF IInv

\* Close finds the server serving, or the signal had met it starting.
LEMMA CloseStep ==
    ASSUME IInv, StoreShutdown \/ CloseDoneChan \/ CloseListener \/ TcpStopped
    PROVE  IInv'
<1>0. TypeOK /\ StartInv /\ SignalInv /\ ListInv /\ TodoInv /\ ListenInv /\ ReachInv
  BY DEF IInv
<1>1. /\ main \in {"tcp", "doneChan", "listener"} /\ exit = "no" /\ endpoint = "server"
      /\ main' \in {"tcp", "doneChan", "listener", "tcp stopped", "panic"}
      /\ UNCHANGED <<endpoint, services, exit, pc, list, read, active, history>>
  BY <1>0 DEF StoreShutdown, CloseDoneChan, CloseListener, TcpStopped, Running, StartInv, servers,
              TypeOK
<1>. DEFINE s == Head(todo)
<1>2. todo # <<>> => /\ s = todo[1] /\ 1 \in DOMAIN todo
                     /\ s \in TcpServices /\ pc[s] \in Past /\ s \in Servers
                     /\ s \in done <=> main = "listener"
                     /\ \A i \in DOMAIN Tail(todo) : /\ i + 1 \in DOMAIN todo /\ i + 1 # 1
                                                    /\ Tail(todo)[i] = todo[i + 1]
                     /\ Range(todo) = {s} \cup Range(Tail(todo))
  <2>1. todo \in Seq(Servers)
    BY <1>0 DEF TypeOK
  <2>2. \A i \in DOMAIN Tail(todo) : i \in Nat \ {0}
    BY <2>1
  <2>3. todo # <<>> => /\ s = todo[1] /\ 1 \in DOMAIN todo
                       /\ \A i \in DOMAIN Tail(todo) : i + 1 \in DOMAIN todo /\ Tail(todo)[i] = todo[i + 1]
                       /\ Range(todo) = {s} \cup Range(Tail(todo))
    BY <2>1, SplitList
  <2>4. \A i \in DOMAIN Tail(todo) : i + 1 # 1
    BY <2>2
  <2>5. todo # <<>> => /\ s \in TcpServices /\ pc[s] \in Past
                       /\ s \in done <=> main = "listener"
    BY <1>0, <1>1, <2>3 DEF TodoInv
  <2>6. QED
    BY <2>3, <2>4, <2>5, Names
<1>3. main # "tcp" => todo # <<>>
  BY <1>0, <1>1 DEF TodoInv
<1>4. \/ main = "tcp" /\ todo # <<>> /\ main' = "doneChan" /\ UNCHANGED <<todo, done, open>>
      \/ /\ main = "doneChan" /\ main' = "listener" /\ done' = done \cup {s}
         /\ UNCHANGED <<todo, open>>
      \/ main = "doneChan" /\ main' = "panic" /\ ~ HasDoneChan(s) /\ UNCHANGED <<todo, done, open>>
      \/ /\ main = "listener" /\ main' = "tcp" /\ open' = open \ {s} /\ todo' = Tail(todo)
         /\ UNCHANGED done
      \/ main = "listener" /\ main' = "panic" /\ ~ HasListener(s) /\ UNCHANGED <<todo, done, open>>
      \/ main = "tcp" /\ todo = <<>> /\ main' = "tcp stopped" /\ UNCHANGED <<todo, done, open>>
  BY DEF StoreShutdown, CloseDoneChan, CloseListener, TcpStopped, servers
<1>5. WebInv' /\ TypeOK'
  BY <1>0, <1>1, TypesStep DEF WebInv, Next, StopSteps
<1>6. StartInv' /\ SignalInv' /\ ListInv'
  <2>1. StartInv'
    BY <1>0, <1>1 DEF StartInv
  <2>2. SignalInv'
    BY <1>0, <1>1 DEF SignalInv, history
  <2>3. ListInv'
    BY <1>1, ListFrame DEF history
  <2>4. QED
    BY <2>1, <2>2, <2>3
<1>. HIDE DEF s
<1>7. ExitInv'
  <2>1. ASSUME main' = "panic", CompletelyUp PROVE FALSE
    <3>1. s \in TcpServices /\ s \in Servers /\ s \in services /\ pc[s] \in Past
      BY <1>0, <1>1, <1>2, <1>3, <1>4, <2>1 DEF StartInv, Past
    <3>2. s \in upAtSignal /\ pc[s] \in {"serving", "returned"}
      BY <1>0, <2>1, <3>1 DEF SignalInv, CompletelyUp
    <3>3. CASE main = "doneChan"
      <4>1. pc[s] = "returned"
        BY <1>4, <2>1, <3>2, <3>3 DEF HasDoneChan
      <4>2. QED
        BY <1>0, <1>2, <1>3, <3>1, <3>2, <3>3, <4>1 DEF ListenInv, IsClosed
    <3>4. CASE main = "listener"
      <4>1. pc[s] = "returned"
        BY <1>4, <2>1, <3>2, <3>4 DEF HasListener
      <4>2. QED
        BY <1>0, <3>1, <3>2, <3>4, <4>1 DEF ListenInv, IsClosed, s
    <3>5. QED
      BY <1>4, <2>1, <3>3, <3>4
  <2>2. QED
    BY <1>1, <2>1 DEF ExitInv, Cause, CompletelyUp, history
<1>8. TodoInv'
  <2>1. CASE main = "tcp"
    BY <1>0, <1>1, <1>4, <2>1 DEF TodoInv
  <2>2. CASE main = "doneChan"
    BY <1>0, <1>1, <1>2, <1>3, <1>4, <2>2 DEF TodoInv
  <2>3. CASE main = "listener" /\ main' = "tcp"
    <3>1. todo' = Tail(todo) /\ UNCHANGED <<done, pc>>
      BY <1>1, <1>4, <2>3
    <3>2. ASSUME NEW i \in DOMAIN Tail(todo)
          PROVE  /\ Tail(todo)[i] \in TcpServices /\ pc[Tail(todo)[i]] \in Past
                 /\ Tail(todo)[i] \notin done
      BY <1>0, <1>2, <1>3, <2>3 DEF TodoInv
    <3>3. ASSUME NEW i \in DOMAIN Tail(todo), NEW j \in DOMAIN Tail(todo), i # j
          PROVE  Tail(todo)[i] # Tail(todo)[j]
      <4>1. i + 1 # j + 1
        BY <3>3
      <4>2. QED
        BY <1>0, <1>2, <1>3, <2>3, <4>1 DEF TodoInv
    <3>4. QED
      BY <2>3, <3>1, <3>2, <3>3 DEF TodoInv
  <2>4. CASE main = "listener" /\ main' = "panic"
    BY <2>4 DEF TodoInv
  <2>5. QED
    BY <1>1, <1>4, <2>1, <2>2, <2>3, <2>4
<1>9. ListenInv'
  <2>1. ASSUME NEW q, IsClosed(q) PROVE IsClosed(q)'
    <3>1. CASE main = "doneChan" /\ main' = "listener"
      BY <1>2, <1>3, <1>4, <2>1, <3>1 DEF IsClosed, s
    <3>2. CASE main' # "listener"
      BY <1>4, <2>1, <3>2 DEF IsClosed
    <3>3. QED
      BY <1>4, <3>1, <3>2
  <2>2. ASSUME NEW q \in TcpServices, q \in open PROVE q \in open' \/ IsClosed(q)'
    <3>1. CASE main = "listener" /\ main' = "tcp"
      <4>1. open' = open \ {s} /\ s \in done' /\ main' # "listener"
        BY <1>2, <1>3, <1>4, <3>1
      <4>2. QED
        BY <2>2, <4>1 DEF IsClosed
    <3>2. CASE UNCHANGED open
      BY <2>2, <3>2
    <3>3. QED
      BY <1>4, <3>1, <3>2
  <2>3. QED
    BY <1>0, <1>1, <2>1, <2>2 DEF ListenInv, history
<1>10. ReachInv'
  <2> SUFFICES ASSUME NEW q \in (TcpServices \cap upAtSignal) \ overlapped
               PROVE  /\ main' \in {"tcp", "doneChan", "listener"} => q \in Range(todo)' \/ q \notin open'
                      /\ main' = "tcp stopped" => q \notin open'
    BY <1>1 DEF ReachInv, StopClosesListeners, AfterGrpc, history
  <2>1. q \in Range(todo) \/ q \notin open
    BY <1>0, <1>1 DEF ReachInv
  <2>2. todo = <<>> => q \notin Range(todo)
    BY DEF Range
  <2>3. QED
    BY <1>2, <1>3, <1>4, <2>1, <2>2
<1>11. QED
  BY <1>5, <1>6, <1>7, <1>8, <1>9, <1>10 DEF IInv

-----------------------------------------------------------------------------
(* The stop of the gRPC servers, of the HTTP servers and the end.          *)

LEMMA GrpcStopStep ==
    ASSUME IInv, GrpcServerStop \/ GracefulStop \/ GracefulStopReturns \/ GrpcStopped
    PROVE  IInv'
<1>0. TypeOK /\ StartInv /\ SignalInv /\ ListInv /\ TodoInv /\ ListenInv /\ ReachInv
  BY DEF IInv
<1>1. /\ main \in {"tcp stopped", "grpc"} /\ main' \in {"grpc", "http"}
      /\ exit = "no" /\ endpoint = "server"
      /\ UNCHANGED <<endpoint, services, exit, pc, list, read, done, active, history>>
      /\ shut \subseteq shut'
  BY <1>0 DEF GrpcServerStop, GracefulStop, GracefulStopReturns, GrpcStopped, Running, StartInv,
              servers, proc, TypeOK
<1>2. main = "grpc" /\ todo # <<>> =>
        /\ Head(todo) \in GrpcServices /\ Range(todo) = {Head(todo)} \cup Range(Tail(todo))
        /\ \A i \in DOMAIN Tail(todo) : Tail(todo)[i] \in GrpcServices
  BY <1>0, SplitList DEF TypeOK, TodoInv
<1>3. open' \subseteq open /\ \A q \in TcpServices : q \in open => q \in open'
  <2>1. CASE GracefulStop
    BY <1>2, <2>1, Names DEF GracefulStop
  <2>2. QED
    BY <1>1, <2>1 DEF GrpcServerStop, GracefulStopReturns, GrpcStopped, servers
<1>4. StartInv' /\ SignalInv' /\ ListInv' /\ ExitInv'
  BY <1>1, StopFrame
<1>5. WebInv' /\ TypeOK'
  BY <1>0, <1>1, TypesStep DEF WebInv, Next, StopSteps
<1>6. ListenInv'
  <2>1. \A q : IsClosed(q)' <=> IsClosed(q)
    BY <1>1 DEF IsClosed
  <2>2. QED
    BY <1>0, <1>1, <1>3, <2>1 DEF ListenInv, history
<1>7. TodoInv'
  <2> SUFFICES ASSUME main' = "grpc" PROVE \A i \in DOMAIN todo' : todo'[i] \in GrpcServices
    BY <1>1 DEF TodoInv
  <2>1. CASE GrpcServerStop
    <3>1. todo' = list["grpc"] /\ list["grpc"] \in Seq(Servers) /\ Placed("grpc", list["grpc"])
      BY <1>0, <2>1 DEF GrpcServerStop, TypeOK, ListInv
    <3>2. QED
      BY <3>1, Names DEF Placed
  <2>2. CASE GracefulStop
    BY <1>0, <2>2 DEF GracefulStop, proc, TodoInv
  <2>3. CASE GracefulStopReturns
    BY <1>2, <2>3 DEF GracefulStopReturns
  <2>4. QED
    BY <2>1, <2>2, <2>3 DEF GrpcStopped
<1>8. StopClosesListeners'
  BY <1>0, <1>1, <1>3 DEF ReachInv, StopClosesListeners, history
<1>9. ReachInv'
  <2> SUFFICES ASSUME NEW q \in (GrpcServices \cap upAtSignal) \ overlapped
               PROVE  /\ main' = "grpc" => q \in Range(todo)' \/ (q \in shut' /\ active'[q] = 0)
                      /\ main' = "http" => q \in shut' /\ active'[q] = 0
    BY <1>1, <1>8 DEF ReachInv, AfterGrpc, history
  <2>1. CASE GrpcServerStop
    <3>1. pc[q] \in Past /\ q \in Servers /\ ListOf(q) = "grpc"
      BY <1>0, Names DEF SignalInv, Past
    <3>2. q \in Range(list["grpc"])
      BY <1>0, <3>1 DEF ListInv
    <3>3. QED
      BY <2>1, <3>2 DEF GrpcServerStop
  <2>2. CASE main = "grpc"
    <3>1. q \in Range(todo) \/ (q \in shut /\ active[q] = 0)
      BY <1>0, <2>2 DEF ReachInv
    <3>2. CASE GracefulStop
      BY <1>1, <2>2, <3>1, <3>2 DEF GracefulStop, proc
    <3>3. CASE GracefulStopReturns
      BY <1>1, <1>2, <2>2, <3>1, <3>3 DEF GracefulStopReturns, servers
    <3>4. CASE GrpcStopped
      <4>1. q \notin Range(todo)
        BY <3>4 DEF GrpcStopped, Range
      <4>2. QED
        BY <1>1, <3>1, <3>4, <4>1 DEF GrpcStopped
    <3>5. QED
      BY <2>2, <3>2, <3>3, <3>4 DEF GrpcServerStop
  <2>3. QED
    BY <1>1, <2>1, <2>2 DEF GracefulStop, GracefulStopReturns, GrpcStopped
<1>10. QED
  BY <1>4, <1>5, <1>6, <1>7, <1>9 DEF IInv

LEMMA WebStopStep ==
    ASSUME IInv, NEW h \in Web \cup {"dashboard"},
           Shutdown(h) \/ ShutdownReturns(h) \/ ShutdownTimesOut(h)
    PROVE  IInv'
<1>0. TypeOK /\ StartInv /\ SignalInv /\ ListInv /\ TodoInv /\ ListenInv /\ ReachInv /\ WebInv
  BY DEF IInv
<1>1. /\ main = h /\ exit = "no"
      /\ main' = h \/ main' = AfterStop(h) \/ (main' = "panic" /\ pc[h] = "off")
      /\ UNCHANGED <<endpoint, services, todo, pc, list, read, done, active, upAtSignal, overlapped,
                     listenFailed>>
      /\ shut \subseteq shut' /\ timedOut \subseteq timedOut'
      /\ open' \subseteq open
      /\ exit' = "no" \/ (exit' = "fatal" /\ h # "http" /\ h \in timedOut')
  BY DEF Shutdown, ShutdownReturns, ShutdownTimesOut, Running, servers, FatalOnTimeout, Fatal, history
<1>2. /\ h \in {"http", "https", "dashboard"}
      /\ h = "dashboard" <=> endpoint = "dashboard"
      /\ main' \in {h, AfterStop(h), "panic"}
      /\ main' \in {"http", "https", "dashboard", "return", "panic"}
  BY <1>0, <1>1 DEF Web, StartInv, TypeOK, AfterStop
<1>3. \A q \in Servers : q \in open => q \in open'
  BY Names DEF Shutdown, ShutdownReturns, ShutdownTimesOut, servers
<1>4. StartInv'
  BY <1>0, <1>1, <1>2 DEF StartInv, AfterStop
<1>5. SignalInv' /\ ListInv' /\ TypeOK'
  BY <1>0, <1>1, <1>2, ListFrame, TypesStep DEF SignalInv, Next, StopSteps
<1>6. TodoInv'
  BY <1>2 DEF TodoInv
<1>7. ListenInv'
  <2>1. \A q : IsClosed(q)' <=> IsClosed(q)
    BY <1>1, <1>2 DEF IsClosed
  <2>2. QED
    BY <1>0, <1>1, <1>3, <2>1, Names DEF ListenInv
<1>8. ReachInv'
  <2>1. endpoint = "dashboard" => (TcpServices \cup GrpcServices) \cap upAtSignal = {}
    BY <1>0, Names DEF StartInv, SignalInv
  <2>2. StopClosesListeners'
    BY <1>0, <1>1, <1>2, <2>1 DEF ReachInv, StopClosesListeners
  <2>3. main' \in AfterGrpc =>
         \A s \in (GrpcServices \cap upAtSignal') \ overlapped' : s \in shut' /\ active'[s] = 0
    BY <1>0, <1>1, <1>2, <2>1 DEF ReachInv, AfterGrpc
  <2>4. QED
    BY <1>2, <2>2, <2>3 DEF ReachInv
<1>9. WebInv'
  <2>1. endpoint = "server" /\ main = "http" /\ main' = "https" =>
          "http" \in shut' /\ (active'["http"] = 0 \/ "http" \in timedOut')
    BY <1>1 DEF Shutdown, ShutdownReturns, ShutdownTimesOut, servers
  <2>2. endpoint = "server" /\ main = "https" /\ main' = "return" =>
          "https" \in shut' /\ active'["https"] = 0
    BY <1>1 DEF Shutdown, ShutdownReturns, ShutdownTimesOut, servers, FatalOnTimeout, Fatal
  <2>3. QED
    BY <1>0, <1>1, <1>2, <2>1, <2>2 DEF WebInv, AfterStop
<1>10. ExitInv'
  <2>1. ASSUME endpoint = "server", main' = "panic" PROVE ~ CompletelyUp
    <3>1. h \in Web /\ pc[h] = "off"
      BY <1>1, <1>2, <2>1 DEF Web, AfterStop
    <3>2. QED
      BY <1>0, <3>1 DEF SignalInv, CompletelyUp
  <2>2. QED
    BY <1>1, <1>2, <2>1 DEF ExitInv, Cause, CompletelyUp
<1>11. QED
  BY <1>4, <1>5, <1>6, <1>7, <1>8, <1>9, <1>10 DEF IInv

LEMMA DestroyStep == IInv /\ Destroy => IInv'
<1> SUFFICES ASSUME IInv, Destroy PROVE IInv'
  OBVIOUS
<1>0. StartInv /\ SignalInv /\ TodoInv /\ ListenInv /\ ReachInv /\ WebInv /\ ExitInv
  BY DEF IInv
<1>1. /\ UNCHANGED <<endpoint, main, services, todo, servers, history>>
      /\ exit' = IF main = "return" THEN "returned" ELSE "panicked"
      /\ main \in {"return", "panic"}
  BY DEF Destroy
<1>. USE DEF servers, history
<1>2. StartInv' /\ SignalInv' /\ TodoInv'
  BY <1>0, <1>1 DEF StartInv, SignalInv, TodoInv
<1>3. ListenInv' /\ ReachInv' /\ WebInv'
  BY <1>0, <1>1 DEF ListenInv, IsClosed, ReachInv, StopClosesListeners, WebInv
<1>4. ExitInv'
  BY <1>0, <1>1 DEF ExitInv, Cause, CompletelyUp
<1>5. ListInv' /\ TypeOK'
  BY <1>1, ListFrame, TypesStep DEF Next, StopSteps, IInv
<1>6. QED
  BY <1>2, <1>3, <1>4, <1>5 DEF IInv

LEMMA StutterStep == IInv /\ UNCHANGED vars => IInv'
<1> SUFFICES ASSUME IInv, UNCHANGED vars PROVE IInv'
  OBVIOUS
<1>. USE DEF IInv, vars, proc, servers, history
<1>1. StartInv' /\ SignalInv' /\ TodoInv' /\ ListenInv'
  BY DEF StartInv, SignalInv, TodoInv, ListenInv, IsClosed
<1>2. ReachInv' /\ WebInv' /\ ExitInv'
  BY DEF ReachInv, StopClosesListeners, WebInv, ExitInv, Cause, CompletelyUp
<1>3. ListInv' /\ TypeOK'
  BY ListFrame, TypesStep
<1>4. QED
  BY <1>1, <1>2, <1>3

LEMMA NextIInv == IInv /\ [Next]_vars => IInv'
<1> SUFFICES ASSUME IInv, [Next]_vars PROVE IInv'
  OBVIOUS
<1>1. CASE InitModule \/ LoadOnce \/ Signal
  BY <1>1, StartStep, SignalStep
<1>2. CASE StopSteps
  <2>1. CASE TcpServerStop
    BY <2>1, TcpServerStopStep
  <2>2. CASE StoreShutdown \/ CloseDoneChan \/ CloseListener \/ TcpStopped
    BY <2>2, CloseStep
  <2>3. CASE GrpcServerStop \/ GracefulStop \/ GracefulStopReturns \/ GrpcStopped
    BY <2>3, GrpcStopStep
  <2>4. ASSUME NEW h \in Web \cup {"dashboard"},
               Shutdown(h) \/ ShutdownReturns(h) \/ ShutdownTimesOut(h)
        PROVE  IInv'
    BY <2>4, WebStopStep
  <2>5. CASE Destroy
    BY <2>5, DestroyStep
  <2>6. QED
    BY <1>2, <2>1, <2>2, <2>3, <2>4, <2>5 DEF StopSteps
<1>3. ASSUME NEW s \in Servers, ServerSteps(s) PROVE IInv'
  BY <1>3, ServerStep
<1>4. ASSUME NEW h \in Web \cup {"dashboard"}, WebSteps(h) PROVE IInv'
  BY <1>4, WebStep
<1>5. ASSUME NEW p \in Programs, Begin(p) \/ End(p) PROVE IInv'
  BY <1>5, RequestStep
<1>6. CASE Ended \/ UNCHANGED vars
  BY <1>6, StutterStep DEF Ended
<1>7. QED
  BY <1>1, <1>2, <1>3, <1>4, <1>5, <1>6 DEF Next

LEMMA Inductive == Spec => []IInv
<1>1. QED
  BY InitIInv, NextIInv, PTL DEF Spec

-----------------------------------------------------------------------------
(* The theorems.                                                           *)

\* The type invariant, with all the lists that append can leave.
THEOREM TypesCorrect == Spec => []TypeOK
<1>1. IInv => TypeOK
  BY DEF IInv
<1>2. QED
  BY <1>1, Inductive, PTL

\* However the goroutines' appends to tcpServerList, the signal and the stop
\* interleave: once TcpServerStop is through, no TCP server that was up at
\* the signal listens any more, unless its append was overlapped.
THEOREM StopsCloseListeners == Spec => []StopClosesListeners
<1>1. IInv => StopClosesListeners
  BY DEF IInv, ReachInv
<1>2. QED
  BY <1>1, Inductive, PTL

\* No interleaving of TcpServer.Close with the servers' goroutines makes a
\* gateway panic or end by log.Fatalf, if all its servers were up at the
\* signal, its listeners opened and HTTPS was drained in time; overlapped
\* appends do not matter, for no server is in the list twice.
THEOREM CrashesForCause == Spec => []CrashForCause
<1>1. IInv => CrashForCause
  BY DEF IInv, ExitInv, Cause, CrashForCause
<1>2. QED
  BY <1>1, Inductive, PTL

\* Of a gateway whose main returned, every HTTP request and every stream of
\* a server that was up and listed had ended, but for the HTTP requests that
\* outlasted the timeout.
THEOREM Drained == Spec => []DrainedUnlessTimedOut
<1>1. IInv => DrainedUnlessTimedOut
  <2> SUFFICES ASSUME IInv, exit = "returned"
               PROVE  /\ \A h \in Web : active[h] > 0 => h \in timedOut
                      /\ \A s \in GrpcServices : active[s] > 0 =>
                             s \notin upAtSignal \/ s \in overlapped
    BY DEF DrainedUnlessTimedOut
  <2>1. main = "return" /\ TypeOK
    BY DEF IInv, ExitInv
  <2>2. \A h \in Web : active[h] = 0 \/ h \in timedOut
    <3>1. CASE endpoint = "server"
      BY <2>1, <3>1 DEF IInv, WebInv, Web
    <3>2. CASE endpoint = "dashboard"
      BY <3>2, Names DEF IInv, StartInv, Web
    <3>3. QED
      BY <2>1, <3>1, <3>2 DEF TypeOK
  <2>3. \A s \in GrpcServices : s \notin upAtSignal \/ s \in overlapped \/ active[s] = 0
    BY <2>1 DEF IInv, ReachInv, AfterGrpc
  <2>4. \A n \in Nat : n = 0 => ~ (n > 0)
    OBVIOUS
  <2>5. QED
    BY <2>2, <2>3, <2>4
<1>2. QED
  BY <1>1, Inductive, PTL
============================================================================
