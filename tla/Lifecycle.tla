----------------------------- MODULE Lifecycle -----------------------------
(***************************************************************************)
(* From main to the end of the process: main.go starts the dashboard, or   *)
(* the TCP, gRPC, HTTP and HTTPS servers of the gateway, waits for one     *)
(* signal, and stops the servers one after the other.  Every server runs   *)
(* in a goroutine of its own, that nobody waits for.                       *)
(*                                                                         *)
(*   - the goroutines of the TCP services append to tcpServerList, those   *)
(*     of the gRPC services to grpcServerList, without a lock;             *)
(*   - TcpServer.Close (tcp_server.go) takes three steps and presumes that *)
(*     ListenAndServe has made doneChan and Serve has set l;               *)
(*   - log.Fatalf ends the process at once; a panic of main runs the       *)
(*     deferred lib.Destroy first;                                         *)
(*   - InitModule's and LoadOnce's errors are dropped by main: the servers *)
(*     of the services that were loaded are started, be it none.           *)
(*                                                                         *)
(* net/http and grpc-go are external: Shutdown closes the listener and     *)
(* waits for the open requests or the timeout, GracefulStop waits for the  *)
(* open streams, and a server that is stopped before it serves does not    *)
(* serve.  Connections of the TCP servers are not waited for by anyone,    *)
(* so they are not part of the state.                                      *)
(***************************************************************************)
EXTENDS Naturals, Sequences, SequencesExt

CONSTANTS TcpServices, GrpcServices,
          Loads,        \* the sets of services LoadOnce may find
          MaxActive     \* bound: requests open at a time on a server

Web      == {"http", "https"}
Servers  == TcpServices \cup GrpcServices
Programs == Servers \cup Web \cup {"dashboard"}

ASSUME LifecycleAssumption ==
    /\ TcpServices \cap GrpcServices = {} /\ Servers \cap (Web \cup {"dashboard"}) = {}
    /\ Loads \subseteq SUBSET Servers
    /\ MaxActive \in Nat

VARIABLES endpoint,     \* the flag of main
          main,         \* where main is
          services,     \* what LoadOnce found
          pc,           \* where the goroutine of a server is
          list,         \* tcpServerList and grpcServerList
          read,         \* the list append started from
          shut,         \* inShutdown; Shutdown or GracefulStop was called
          done,         \* the doneChan that are closed
          open,         \* the servers with an open listener
          active,       \* requests, or streams, open on a server
          todo,         \* what is left of the list a stop goes through
          exit,         \* how the process ended
          upAtSignal, overlapped, timedOut, listenFailed    \* history

proc    == <<endpoint, main, services, todo, exit>>
servers == <<pc, list, read, shut, done, open, active>>
history == <<upAtSignal, overlapped, timedOut, listenFailed>>
vars    == <<proc, servers, history>>

ListOf(s) == IF s \in TcpServices THEN "tcp" ELSE "grpc"

MainAt   == {"init", "load", "wait", "signalled", "tcp", "doneChan", "listener", "tcp stopped",
             "grpc", "http", "https", "dashboard", "return", "panic"}
ServerAt == {"off", "opened", "read", "listed", "checked", "listening", "made", "serving",
             "returned"}

TypeOK ==
    /\ endpoint \in {"dashboard", "server"} /\ main \in MainAt
    /\ services \subseteq Servers /\ todo \in Seq(Servers)
    /\ exit \in {"no", "returned", "panicked", "fatal", "killed"}
    /\ pc \in [Programs -> ServerAt]
    /\ list \in [{"tcp", "grpc"} -> Seq(Servers)] /\ read \in [Servers -> Seq(Servers)]
    /\ shut \subseteq Programs /\ done \subseteq TcpServices /\ open \subseteq Programs
    /\ active \in [Programs -> 0 .. MaxActive]
    /\ upAtSignal \subseteq Programs /\ overlapped \subseteq Servers
    /\ timedOut \subseteq Programs /\ listenFailed \in BOOLEAN

Init ==
    /\ endpoint \in {"dashboard", "server"}
    /\ main = "init" /\ services = {} /\ todo = <<>> /\ exit = "no"
    /\ pc = [p \in Programs |-> "off"]
    /\ list = [k \in {"tcp", "grpc"} |-> <<>>] /\ read = [s \in Servers |-> <<>>]
    /\ shut = {} /\ done = {} /\ open = {}
    /\ active = [p \in Programs |-> 0]
    /\ upAtSignal = {} /\ overlapped = {} /\ timedOut = {} /\ listenFailed = FALSE

Running  == exit = "no"
Launched == Running /\ main \notin {"init", "load"}
Goto(p, l) == pc' = [pc EXCEPT ![p] = l]

\* log.Fatalf: os.Exit(1), no deferred call runs.
Fatal == exit' = "fatal" /\ UNCHANGED <<endpoint, main, services, todo>>

-----------------------------------------------------------------------------
(* main, and what it starts.                                               *)

\* main.go: InitModule, whose error is dropped; the dashboard makes its
\* http.Server before main goes on, and serves in a goroutine.
InitModule ==
    /\ Running /\ main = "init"
    /\ IF endpoint = "dashboard"
         THEN main' = "wait" /\ Goto("dashboard", "made")
         ELSE main' = "load" /\ UNCHANGED pc
    /\ UNCHANGED <<endpoint, services, todo, exit, list, read, shut, done, open, active, history>>

\* LoadOnce stops at the first service it cannot read, so that it may find
\* fewer than there are, or none; then the goroutines of the four Run
\* functions start and main waits for a signal.
LoadOnce ==
    /\ Running /\ main = "load"
    /\ main' = "wait"
    /\ services' \in Loads
    /\ UNCHANGED <<endpoint, todo, exit, servers, history>>

\* Before signal.Notify a signal ends the process; afterwards the first one
\* is taken from quit and any other is left there.
Signal ==
    /\ Running
    /\ \/ /\ main \in {"init", "load"}
          /\ exit' = "killed"
          /\ UNCHANGED <<main, upAtSignal>>
       \/ /\ main = "wait"
          /\ main' = IF endpoint = "dashboard" THEN "dashboard" ELSE "signalled"
          /\ upAtSignal' = {p \in Programs : pc[p] = "serving"}
          /\ UNCHANGED exit
    /\ UNCHANGED <<endpoint, services, todo, servers, overlapped, timedOut, listenFailed>>

-----------------------------------------------------------------------------
(* The goroutines of the TCP and gRPC services.                            *)

CanListen(p) ==
    \/ Goto(p, IF p \in TcpServices THEN "listening" ELSE "opened")
       /\ open' = open \cup {p} /\ UNCHANGED <<proc, listenFailed>>
    \/ Fatal /\ listenFailed' = TRUE /\ UNCHANGED <<pc, open>>

\* grpcserver.go:32, before the server is in grpcServerList.
GrpcListen(s) ==
    /\ Launched /\ s \in services \cap GrpcServices /\ pc[s] = "off"
    /\ CanListen(s)
    /\ UNCHANGED <<list, read, shut, done, active, upAtSignal, overlapped, timedOut>>

\* append reads the list ...
ReadList(s) ==
    /\ Launched /\ s \in services
    /\ pc[s] = IF s \in TcpServices THEN "off" ELSE "opened"
    /\ Goto(s, "read")
    /\ read' = [read EXCEPT ![s] = list[ListOf(s)]]
    /\ UNCHANGED <<proc, list, shut, done, open, active, history>>

\* Faulty variant: the list is made anew.
StoresOwnList(s) == {<<s>>}

\* ... and later stores one longer than what it read.  Of two goroutines
\* that read the same list, both write the same slot: it may hold either.
Appended(s) ==
    LET before == read[s]
        now    == list[ListOf(s)]
        slot   == {s} \cup {now[i] : i \in {Len(before) + 1} \cap DOMAIN now}
    IN {Append(before, t) : t \in slot}

WriteList(s) ==
    /\ Launched /\ pc[s] = "read"
    /\ Goto(s, "listed")
    /\ \E l \in Appended(s) : list' = [list EXCEPT ![ListOf(s)] = l]
    /\ overlapped' = IF list[ListOf(s)] = read[s] THEN overlapped
                     ELSE overlapped \cup {s} \cup Range(list[ListOf(s)])
    /\ UNCHANGED <<proc, read, shut, done, open, active, upAtSignal, timedOut, listenFailed>>

\* ListenAndServe: ErrServerClosed if Close came first, else doneChan is made.
CheckShutdown(s) ==
    /\ Launched /\ s \in TcpServices /\ pc[s] = "listed"
    /\ Goto(s, IF s \in shut THEN "returned" ELSE "checked")
    /\ UNCHANGED <<proc, list, read, shut, done, open, active, history>>

Listen(s) ==
    /\ Launched /\ s \in TcpServices /\ pc[s] = "checked"
    /\ CanListen(s)
    /\ UNCHANGED <<list, read, shut, done, active, upAtSignal, overlapped, timedOut>>

\* Serve sets l and accepts connections.
Serve(s) ==
    /\ Launched /\ s \in TcpServices /\ pc[s] = "listening"
    /\ Goto(s, "serving")
    /\ UNCHANGED <<proc, list, read, shut, done, open, active, history>>

\* Accept fails on the closed listener, and doneChan is closed.
ServeReturns(s) ==
    /\ Launched /\ s \in TcpServices /\ pc[s] = "serving"
    /\ s \notin open /\ s \in done
    /\ Goto(s, "returned")
    /\ UNCHANGED <<proc, list, read, shut, done, open, active, history>>

\* grpc.Server.Serve: a server that was stopped before closes the listener
\* and answers ErrServerStopped, which is fatal here.
GrpcServe(s) ==
    /\ Launched /\ s \in GrpcServices /\ pc[s] = "listed"
    /\ IF s \in shut
         THEN Fatal /\ open' = open \ {s} /\ UNCHANGED pc
         ELSE Goto(s, "serving") /\ UNCHANGED <<proc, open>>
    /\ UNCHANGED <<list, read, shut, done, active, history>>

GrpcServeReturns(s) ==
    /\ Launched /\ s \in GrpcServices /\ pc[s] = "serving"
    /\ s \in shut /\ active[s] = 0
    /\ Goto(s, "returned")
    /\ UNCHANGED <<proc, list, read, shut, done, open, active, history>>

-----------------------------------------------------------------------------
(* The HTTP servers.                                                       *)

\* HttpServerRun and HttpsServerRun set HttpSrvHandler, HttpsSrvHandler.
MakeHandler(h) ==
    /\ Launched /\ endpoint = "server" /\ h \in Web /\ pc[h] = "off"
    /\ Goto(h, "made")
    /\ UNCHANGED <<proc, list, read, shut, done, open, active, history>>

\* Faulty variant: ErrServerClosed is not told from other errors.
ClosedIsFatal(h) == Fatal /\ UNCHANGED pc

\* ErrServerClosed is expected by the gateway and fatal in the dashboard.
Closed(h) == IF h = "dashboard" THEN Fatal /\ UNCHANGED pc
                                ELSE Goto(h, "returned") /\ UNCHANGED proc

ListenAndServe(h) ==
    /\ Launched /\ h \in Web \cup {"dashboard"} /\ pc[h] = "made"
    /\ \/ h \in shut /\ Closed(h) /\ UNCHANGED <<open, listenFailed>>
       \/ /\ h \notin shut
          /\ \/ Goto(h, "serving") /\ open' = open \cup {h} /\ UNCHANGED <<proc, listenFailed>>
             \/ Fatal /\ listenFailed' = TRUE /\ UNCHANGED <<pc, open>>
    /\ UNCHANGED <<list, read, shut, done, active, upAtSignal, overlapped, timedOut>>

HttpReturns(h) ==
    /\ Launched /\ h \in Web \cup {"dashboard"} /\ pc[h] = "serving" /\ h \in shut
    /\ Closed(h)
    /\ UNCHANGED <<list, read, shut, done, open, active, history>>

\* A request or a stream is taken while the server serves, and ends.
Begin(p) ==
    /\ Launched /\ p \notin TcpServices
    /\ pc[p] = "serving" /\ p \notin shut /\ active[p] < MaxActive
    /\ active' = [active EXCEPT ![p] = @ + 1]
    /\ UNCHANGED <<proc, pc, list, read, shut, done, open, history>>

End(p) ==
    /\ Launched /\ active[p] > 0
    /\ active' = [active EXCEPT ![p] = @ - 1]
    /\ UNCHANGED <<proc, pc, list, read, shut, done, open, history>>

-----------------------------------------------------------------------------
(* The stops, in the order of main.go.                                     *)

\* TcpServerStop goes through the list as it is now.
TcpServerStop ==
    /\ Running /\ main = "signalled"
    /\ main' = "tcp" /\ todo' = list["tcp"]
    /\ UNCHANGED <<endpoint, services, exit, servers, history>>

\* TcpServer.Close: inShutdown, then doneChan, then l; close of a nil
\* channel, and Close of a nil l, panic.
StoreShutdown ==
    /\ Running /\ main = "tcp" /\ todo # <<>>
    /\ main' = "doneChan" /\ shut' = shut \cup {Head(todo)}
    /\ UNCHANGED <<endpoint, services, todo, exit, pc, list, read, done, open, active, history>>

HasDoneChan(s) == pc[s] \in {"checked", "listening", "serving"}
HasListener(s) == pc[s] = "serving"

CloseDoneChan ==
    /\ Running /\ main = "doneChan"
    /\ IF HasDoneChan(Head(todo))
         THEN main' = "listener" /\ done' = done \cup {Head(todo)}
         ELSE main' = "panic" /\ UNCHANGED done
    /\ UNCHANGED <<endpoint, services, todo, exit, pc, list, read, shut, open, active, history>>

CloseListener ==
    /\ Running /\ main = "listener"
    /\ IF HasListener(Head(todo))
         THEN main' = "tcp" /\ open' = open \ {Head(todo)} /\ todo' = Tail(todo)
         ELSE main' = "panic" /\ UNCHANGED <<open, todo>>
    /\ UNCHANGED <<endpoint, services, exit, pc, list, read, shut, done, active, history>>

TcpStopped ==
    /\ Running /\ main = "tcp" /\ todo = <<>>
    /\ main' = "tcp stopped"
    /\ UNCHANGED <<endpoint, services, todo, exit, servers, history>>

GrpcServerStop ==
    /\ Running /\ main = "tcp stopped"
    /\ main' = "grpc" /\ todo' = list["grpc"]
    /\ UNCHANGED <<endpoint, services, exit, servers, history>>

\* GracefulStop closes what Serve registered and waits for the streams.
GracefulStop ==
    /\ Running /\ main = "grpc" /\ todo # <<>> /\ Head(todo) \notin shut
    /\ shut' = shut \cup {Head(todo)}
    /\ open' = IF pc[Head(todo)] = "serving" THEN open \ {Head(todo)} ELSE open
    /\ UNCHANGED <<proc, pc, list, read, done, active, history>>

GracefulStopReturns ==
    /\ Running /\ main = "grpc" /\ todo # <<>> /\ Head(todo) \in shut
    /\ active[Head(todo)] = 0
    /\ todo' = Tail(todo)
    /\ UNCHANGED <<endpoint, main, services, exit, servers, history>>

GrpcStopped ==
    /\ Running /\ main = "grpc" /\ todo = <<>>
    /\ main' = "http"
    /\ UNCHANGED <<endpoint, services, todo, exit, servers, history>>

\* HttpServerStop, HttpsServerStop, and the dashboard's HttpServerStop:
\* a nil handler panics; a timeout is fatal but for the gateway's HTTP.
AfterStop(h) == IF h = "http" THEN "https" ELSE "return"

Shutdown(h) ==
    /\ Running /\ main = h /\ h \notin shut
    /\ IF pc[h] = "off"
         THEN main' = "panic" /\ UNCHANGED <<shut, open>>
         ELSE shut' = shut \cup {h} /\ open' = open \ {h} /\ UNCHANGED main
    /\ UNCHANGED <<endpoint, services, todo, exit, pc, list, read, done, active, history>>

\* Faulty variants: Close in place of Shutdown; a context without a deadline.
ClosesAtOnce(h) ==
    /\ Running /\ main = h /\ h \in shut
    /\ main' = AfterStop(h)
    /\ UNCHANGED <<endpoint, services, todo, exit, servers, history>>

WaitsForEver(h) == active[h] > MaxActive /\ UNCHANGED vars

ShutdownReturns(h) ==
    /\ Running /\ main = h /\ h \in shut /\ active[h] = 0
    /\ main' = AfterStop(h)
    /\ UNCHANGED <<endpoint, services, todo, exit, servers, history>>

FatalOnTimeout(h) == h # "http"

ShutdownTimesOut(h) ==
    /\ Running /\ main = h /\ h \in shut /\ active[h] > 0
    /\ timedOut' = timedOut \cup {h}
    /\ IF FatalOnTimeout(h)
         THEN Fatal
         ELSE main' = AfterStop(h) /\ UNCHANGED <<endpoint, services, todo, exit>>
    /\ UNCHANGED <<servers, upAtSignal, overlapped, listenFailed>>

\* The deferred Destroy runs when main returns and when it panics.
Destroy ==
    /\ Running /\ main \in {"return", "panic"}
    /\ exit' = IF main = "return" THEN "returned" ELSE "panicked"
    /\ UNCHANGED <<endpoint, main, services, todo, servers, history>>

Ended == exit # "no" /\ UNCHANGED vars

-----------------------------------------------------------------------------
ServerSteps(s) ==
    \/ GrpcListen(s) \/ ReadList(s) \/ WriteList(s) \/ CheckShutdown(s) \/ Listen(s)
    \/ Serve(s) \/ ServeReturns(s) \/ GrpcServe(s) \/ GrpcServeReturns(s)

WebSteps(h) == MakeHandler(h) \/ ListenAndServe(h) \/ HttpReturns(h)

StopSteps ==
    \/ TcpServerStop \/ StoreShutdown \/ CloseDoneChan \/ CloseListener \/ TcpStopped
    \/ GrpcServerStop \/ GracefulStop \/ GracefulStopReturns \/ GrpcStopped
    \/ \E h \in Web \cup {"dashboard"} : Shutdown(h) \/ ShutdownReturns(h) \/ ShutdownTimesOut(h)
    \/ Destroy

Next ==
    \/ InitModule \/ LoadOnce \/ Signal \/ StopSteps
    \/ \E s \in Servers : ServerSteps(s)
    \/ \E h \in Web \cup {"dashboard"} : WebSteps(h)
    \/ \E p \in Programs : Begin(p) \/ End(p)
    \/ Ended

\* The scheduler runs main and every goroutine; the timeout of Shutdown comes.
\* Nothing says that a request or a stream ends, or that a signal comes.
Fairness ==
    /\ WF_vars(StopSteps)
    /\ \A s \in Servers : WF_vars(ServerSteps(s))
    /\ \A h \in Web \cup {"dashboard"} : WF_vars(WebSteps(h))

Spec == Init /\ [][Next]_vars /\ Fairness

-----------------------------------------------------------------------------
(* Properties.                                                             *)

\* Once TcpServerStop is through, no TCP server that was up when the signal
\* came still listens, but one whose append met another goroutine's: it is
\* missing in tcpServerList, and serves on while the other servers stop.
StopClosesListeners ==
    main \in {"tcp stopped", "grpc", "http", "https", "return"} =>
        \A s \in (TcpServices \cap upAtSignal) \ overlapped : s \notin open

\* A gateway that was completely up, with no append overlapped, ends by
\* returning from main: it ends with a panic or log.Fatalf only if a
\* listener could not be opened, if the signal met a server that was still
\* starting, or if HTTPS requests outlast the timeout.
CompletelyUp == (Web \cup services) \subseteq upAtSignal

CrashForCause ==
    endpoint = "server" /\ exit \in {"panicked", "fatal"} =>
        listenFailed \/ ~ CompletelyUp \/ "https" \in timedOut

\* When main returns no request that the stops wait for is cut: an HTTP
\* request only by the timeout, a stream only of a server that the stop did
\* not know, since it was starting or its append was overlapped.
DrainedUnlessTimedOut ==
    exit = "returned" =>
        /\ \A h \in Web : active[h] > 0 => h \in timedOut
        /\ \A s \in GrpcServices : active[s] > 0 => s \notin upAtSignal \/ s \in overlapped

\* After the signal the process ends, unless a stream stays open for ever:
\* GracefulStop has no timeout, and no second signal is taken.
StopEnds ==
    main # "wait" /\ main \notin {"init", "load"} ~>
        \/ exit # "no"
        \/ [](\E s \in GrpcServices : active[s] > 0)
=============================================================================
